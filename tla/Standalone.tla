----------------------------- MODULE Standalone -----------------------------
(***************************************************************************)
(* The computer-free bench: the phone app, as far as its screens decide    *)
(* what is written to the controller and which notifications are kept,     *)
(* over EspController and Rig.                                             *)
(*                                                                         *)
(* Writes are acknowledged one by one; responses and notifications reach   *)
(* the app in the order the controller sent them.                          *)
(***************************************************************************)
EXTENDS EspController

CONSTANTS
  Manual,    \* the faults armed by hand
  MaxUses,   \* bound: campaigns pushed and faults armed by hand
  MaxStops,  \* bound: presses of Stop
  MaxDrops   \* bound: connections lost

ASSUME StandaloneOK ==
  Manual \subseteq FaultSet /\ MaxUses \in Nat /\ MaxStops \in Nat /\ MaxDrops \in Nat

VARIABLES
  screen,    \* "connect", "campaign", "push" in _pushAndRun, "opening" until RunScreen is built, "run"
  step,      \* the write _pushAndRun is at, and whether its response is awaited
  picked,    \* Store.campaign
  results,   \* Store.results
  status,    \* RunScreen's last status
  uses, stops, drops

appVars == <<screen, step, picked, results, status, uses, stops, drops>>
vars == <<fpgaVars, dutVars, espVars, appVars>>

NoStatus == [m |-> "status", state |-> "running", done |-> 0, total |-> 0]

Init ==
  /\ RigInit /\ EspInit
  /\ screen = "connect" /\ step = [n |-> 0, sent |-> FALSE] /\ picked = <<>>
  /\ results = <<>> /\ status = NoStatus
  /\ uses = 0 /\ stops = 0 /\ drops = 0

-----------------------------------------------------------------------------
AppConnect ==
  /\ screen = "connect" /\ Connect /\ screen' = "campaign"
  /\ UNCHANGED <<step, picked, results, status, uses, stops, drops>>

\* _pushAndRun up to its first await.
PushAndRun ==
  /\ screen = "campaign" /\ g_conn /\ uses < MaxUses /\ uses' = uses + 1
  /\ \E c \in Campaigns : picked' = c
  /\ results' = <<>> /\ screen' = "push" /\ step' = [n |-> 1, sent |-> FALSE]
  /\ UNCHANGED <<fpgaVars, dutVars, espVars, status, stops, drops>>

\* The chunks, the terminator, START.
Write ==
  /\ screen = "push" /\ g_conn /\ ~step.sent /\ step' = [step EXCEPT !.sent = TRUE]
  /\ \/ step.n <= CHUNKS /\ Chunk(picked, step.n)
     \/ step.n = CHUNKS + 1 /\ EndOfCampaign
     \/ step.n = CHUNKS + 2 /\ OnStart
  /\ UNCHANGED <<screen, picked, results, status, uses, stops, drops>>

\* A write fails when the connection is lost: the snack bar, and nothing else.
PushFails ==
  /\ screen = "push" /\ ~g_conn /\ screen' = "campaign"
  /\ step' = [n |-> 0, sent |-> FALSE]
  /\ UNCHANGED <<fpgaVars, dutVars, espVars, picked, results, status, uses, stops, drops>>

\* The next response or notification.  The streams are broadcast: what comes while
\* RunScreen does not listen is gone.
Hear ==
  /\ up # <<>> /\ up' = Tail(up)
  /\ LET e == Head(up) IN
     /\ results' = IF e.m = "result" /\ screen = "run" THEN Append(results, e) ELSE results
     /\ status' = IF e.m = "status" /\ screen = "run" THEN e ELSE status
     /\ IF e.m = "ok" /\ screen = "push"
        THEN IF step.n = CHUNKS + 2 THEN screen' = "opening" /\ step' = [n |-> 0, sent |-> FALSE]
             ELSE step' = [n |-> step.n + 1, sent |-> FALSE] /\ UNCHANGED screen
        ELSE UNCHANGED <<screen, step>>
  /\ UNCHANGED <<fpgaVars, dutVars, gattVars, g_cov, tasks, log, picked, uses, stops, drops>>

\* The first frame of RunScreen: initState subscribes.
OpenRun ==
  /\ screen = "opening" /\ screen' = "run" /\ status' = NoStatus
  /\ UNCHANGED <<fpgaVars, dutVars, espVars, step, picked, results, uses, stops, drops>>

PressStop ==
  /\ screen = "run" /\ status.state # "done" /\ stops < MaxStops /\ stops' = stops + 1
  /\ OnStop
  /\ UNCHANGED <<screen, step, picked, results, status, uses, drops>>

Back ==
  /\ screen = "run" /\ screen' = "campaign"
  /\ UNCHANGED <<fpgaVars, dutVars, espVars, step, picked, results, status, uses, stops,
                 drops>>

\* armManual, which no screen calls yet.
ArmManual ==
  /\ screen \in {"campaign", "run"} /\ uses < MaxUses /\ uses' = uses + 1
  /\ \E f \in Manual : OnControlArm(f)
  /\ UNCHANGED <<screen, step, picked, results, status, stops, drops>>

Drop ==
  /\ drops < MaxDrops /\ drops' = drops + 1 /\ Disconnect
  /\ UNCHANGED <<screen, step, picked, results, status, uses, stops>>

\* Once connected, the connect screen's list is dead: only a new start of the app connects again.
Restart ==
  /\ ~g_conn /\ screen \notin {"connect", "push"} /\ screen' = "connect"
  /\ picked' = <<>> /\ results' = <<>> /\ status' = NoStatus /\ step' = [n |-> 0, sent |-> FALSE]
  /\ UNCHANGED <<fpgaVars, dutVars, espVars, uses, stops, drops>>

App == \/ AppConnect \/ PushAndRun \/ Write \/ PushFails \/ Hear \/ OpenRun
       \/ PressStop \/ Back \/ ArmManual \/ Drop \/ Restart

Next == App \/ (EspNext /\ UNCHANGED appVars)

Spec == Init /\ [][Next]_vars

\* The controller and the bench keep running; nobody has to touch the phone.
EspFairness ==
  /\ \A t \in Tasks : WF_vars(TaskStep(t) /\ UNCHANGED appVars)
  /\ WF_vars(EspApply /\ UNCHANGED appVars) /\ WF_vars(ManualWrite /\ UNCHANGED appVars)
  /\ WF_vars(Boot /\ UNCHANGED appVars)
  /\ WF_dutVars(ByteArrives) /\ WF_dutVars(ReadCommand) /\ WF_dutVars(Strike)
  /\ WF_dutVars(Result) /\ WF_dutVars(ButtonRelease)

FairSpec == Spec /\ EspFairness
-----------------------------------------------------------------------------
(* Properties                                                              *)

\* Every variable keeps its type.
TypeOK ==
  /\ \A i \in DOMAIN link : link[i] \in (0 .. 4) \X (0 .. 255)
  /\ regs \in [0 .. 4 -> 0 .. 255]
  /\ on \in BOOLEAN /\ g_running \in BOOLEAN /\ g_conn \in BOOLEAN
  /\ g_campaign \in Campaigns \cup {<<>>} /\ g_cov \in [Keys -> Nat]
  /\ \A i \in DOMAIN buf : buf[i] \in Campaigns \X (1 .. CHUNKS)
  /\ \A t \in Tasks :
       /\ tasks[t].pc \in {"none", "new", "head", "arm", "settle", "send", "read", "done",
                           "gone", "killed"}
       /\ tasks[t].done + Cardinality(tasks[t].pending) = tasks[t].total
  /\ screen \in {"connect", "campaign", "push", "opening", "run"}
  /\ step.n \in 0 .. CHUNKS + 2 /\ (step.n = 0 <=> screen # "push")

\* The flag is up only while some task will lower it: were it left up, no START
\* would be obeyed until the board is reset.
NeverWedged == g_running => \E t \in Tasks : Alive(t)

\* What the app has pushed is what a START runs: unless a connection was lost, the
\* controller holds the campaign the app shows from the moment START is answered.
RunsPicked == drops = 0 /\ g_conn /\ screen \in {"opening", "run"} => g_campaign = picked

\* A verdict of a task that started on a bench at rest, and that no other task, push or
\* manual arm has crossed, is about its own scenario, whatever ran, was stopped or lost
\* before that task began.
CalmVerdictOwn ==
  \A q \in DOMAIN log :
    LET r == log[q] IN
    presses = 0 =>
      IF alive
      THEN /\ r.txn.by = RunId(r.t, r.idx) /\ r.txn.cfg = Wants(r.f)
           /\ r.pass = ((Wants(r.f) \in Shows) = (r.f.expect = "detected"))
      ELSE r.txn = NoTxn

\* Such a task that nobody stopped ends with every scenario run once.
CalmRunsAll ==
  \A t \in Tasks :
    tasks[t].pc \in {"done", "gone"} /\ tasks[t].calm /\ ~tasks[t].stopped =>
      LET mine == {q \in DOMAIN log : log[q].t = t} IN
      /\ tasks[t].done = tasks[t].total /\ Cardinality(mine) = tasks[t].total
      /\ {log[q].idx : q \in mine} = 1 .. tasks[t].total

\* Every campaign task ends, overlapped, stopped, with a dead DUT or across a
\* reboot: once people leave the phone alone, the controller comes to rest.
TasksEnd == <>[](\A t \in Tasks : ~Alive(t))
=============================================================================
