--------------------------- MODULE EspController ---------------------------
(***************************************************************************)
(* The ESP32 controller: campaign_task, the GATT callbacks that feed it,   *)
(* and the NimBLE host task they run on.  It drives the bench of Rig with  *)
(* the engine's own RegClient, Scheduler and SerialDutRunner.              *)
(*                                                                         *)
(* The GATT callbacks run one at a time; a campaign task runs beside them  *)
(* and beside the campaign tasks an earlier START left behind.  Globals    *)
(* are shared without a lock: a step ends wherever another may come in.    *)
(***************************************************************************)
EXTENDS Rig

CONSTANTS
  Campaigns,   \* what the phone can push, sequences of faults
  CHUNKS,      \* writes a campaign's JSON is cut into
  MaxTasks     \* bound: campaign tasks ever created

ASSUME EspOK ==
  /\ Campaigns \subseteq Seq(FaultSet) \ {<<>>}
  /\ CHUNKS \in Nat \ {0} /\ MaxTasks \in Nat

VARIABLES
  on,          \* booted
  buf,         \* g_campaign_buf: the chunks <<campaign, k>> received
  g_campaign,  \* the campaign, <<>> at boot
  g_running, g_conn, g_cov,
  manual,      \* register writes on_control_arm has still to send
  tasks,       \* the campaign tasks
  up,          \* responses and notifications on their way to the phone
  log          \* history: the verdicts reached by calm tasks

gattVars == <<on, buf, g_campaign, g_running, g_conn, manual>>
espVars  == <<gattVars, g_cov, tasks, up, log>>

Tasks == 1 .. MaxTasks

\* f is the fault the task's reference led to when it was last read, and todo the
\* writes of arm() still to send; ahead counts the writes on the link up to its own
\* last one.  History: calm if it began on a bench at rest, and while no other task,
\* push or manual arm came across it.
NoTask == [pc |-> "none", pending |-> {}, total |-> 0, done |-> 0, pi |-> 0, f |-> <<>>,
           todo |-> <<>>, ahead |-> 0, stale |-> FALSE, calm |-> TRUE, stopped |-> FALSE]

Alive(t) == tasks[t].pc \notin {"none", "gone", "killed"}
Others(t) == {u \in Tasks \ {t} : Alive(u)}

Disturb == [u \in Tasks |-> IF Alive(u) THEN [tasks[u] EXCEPT !.calm = FALSE] ELSE tasks[u]]

EspInit ==
  /\ on = TRUE /\ buf = <<>> /\ g_campaign = <<>> /\ g_running = FALSE /\ g_conn = FALSE
  /\ g_cov = [k \in Keys |-> 0] /\ manual = <<>>
  /\ tasks = [t \in Tasks |-> NoTask] /\ up = <<>> /\ log = <<>>

Ok        == [m |-> "ok"]
Status(t, state, n) == [m |-> "status", state |-> state, done |-> n, total |-> tasks[t].total]
Verdict(f, pass)    == [m |-> "result", f |-> f, pass |-> pass]

\* Notifications are dropped while nobody is connected; a response needs a connection.
Notify(ms) == up' = IF g_conn THEN up \o ms ELSE up

-----------------------------------------------------------------------------
(* GATT writes.  on_control_arm keeps the NimBLE task busy until its five   *)
(* writes are out.                                                          *)

GattReady == g_conn /\ manual = <<>>

Chunk(c, k) ==
  /\ GattReady
  /\ buf' = Append(buf, <<c, k>>) /\ Notify(<<Ok>>)
  /\ UNCHANGED <<on, g_campaign, g_running, g_conn, manual, g_cov, tasks, log, fpgaVars, dutVars>>

\* json_parse reads the first value and ignores what follows it; the text of a
\* campaign without its end, whatever follows it, makes it throw.
Whole(b)  == Len(b) >= CHUNKS /\ \A k \in 1 .. CHUNKS : b[k] = <<b[1][1], k>>
Throws(b) == b # <<>> /\ ~Whole(b)

\* Nothing catches the exception: abort() restarts the chip, the bench stays as it is.
\* Bytes the UARTs have not yet sent are lost.
Reboot ==
  /\ on' = FALSE /\ buf' = <<>> /\ g_campaign' = <<>> /\ g_running' = FALSE
  /\ g_conn' = FALSE /\ g_cov' = [k \in Keys |-> 0] /\ manual' = <<>> /\ up' = <<>>
  /\ tasks' = [t \in Tasks |-> IF Alive(t) THEN [tasks[t] EXCEPT !.pc = "killed"] ELSE tasks[t]]
  /\ \E k \in 0 .. Len(link) : link' = SubSeq(link, 1, k)
  /\ \E k \in 0 .. Len(wireIn) : wireIn' = SubSeq(wireIn, 1, k)
  /\ UNCHANGED <<log, regs, dr, mode, phase, held, txn, lines, alive, presses>>

\* Booting takes longer than a transaction, and starts with empty receive buffers.
Boot ==
  /\ ~on /\ on' = TRUE
  /\ wireIn = <<>> /\ phase = "loop" /\ (dr = <<>> \/ held)
  /\ lines' = <<>>
  /\ UNCHANGED <<buf, g_campaign, g_running, g_conn, manual, g_cov, tasks, up, log, fpgaVars,
                 wireIn, dr, mode, phase, held, txn, alive, presses>>

\* Mutant: the buffer is not cleared for the next campaign.
EndKeepsBuffer ==
  /\ GattReady /\ ~Throws(buf)
  /\ g_campaign' = IF buf = <<>> THEN <<>> ELSE buf[1][1]
  /\ Notify(<<Ok>>) /\ tasks' = Disturb
  /\ UNCHANGED <<on, buf, g_running, g_conn, manual, g_cov, log, fpgaVars, dutVars>>

\* The 0x00 chunk: on_campaign replaces g_campaign under the tasks that hold a
\* reference into it.
EndOfCampaign ==
  /\ GattReady
  /\ IF Throws(buf) THEN Reboot
     ELSE /\ g_campaign' = (IF buf = <<>> THEN <<>> ELSE buf[1][1])
          /\ buf' = <<>> /\ Notify(<<Ok>>)
          /\ tasks' = [t \in Tasks |-> [Disturb[t] EXCEPT !.stale = Alive(t)]]
          /\ UNCHANGED <<on, g_running, g_conn, manual, g_cov, log, fpgaVars, dutVars>>

Unused == {t \in Tasks : tasks[t].pc = "none"}

\* No transaction of an earlier task is under way.
AtRest == alive => Silent

\* CTL_START.  A START that would create a task past the bound is not considered.
OnStart ==
  /\ GattReady /\ Notify(<<Ok>>)
  /\ IF ~g_running /\ g_campaign # <<>>
     THEN /\ g_running' = TRUE
          /\ \E t \in Unused :
               /\ \A u \in Unused : t <= u
               /\ tasks' = [Disturb EXCEPT ![t] = [NoTask EXCEPT !.pc = "new",
                                                                 !.calm = Others(t) = {} /\ AtRest]]
     ELSE UNCHANGED <<g_running, tasks>>
  /\ UNCHANGED <<on, buf, g_campaign, g_conn, manual, g_cov, log, fpgaVars, dutVars>>

\* CTL_STOP only lowers the flag: the task sees it between two scenarios.
OnStop ==
  /\ GattReady /\ g_running' = FALSE
  /\ tasks' = [t \in Tasks |-> [tasks[t] EXCEPT !.stopped = @ \/ Alive(t)]]
  /\ UNCHANGED <<on, buf, g_campaign, g_conn, manual, g_cov, up, log, fpgaVars, dutVars>>

\* CTL_ARM: RegClient.arm on the NimBLE task.
OnControlArm(f) ==
  /\ GattReady /\ manual' = ArmWrites(f) /\ tasks' = Disturb
  /\ UNCHANGED <<on, buf, g_campaign, g_running, g_conn, g_cov, up, log, fpgaVars, dutVars>>

ManualWrite ==
  /\ manual # <<>> /\ link' = Append(link, Head(manual)) /\ manual' = Tail(manual)
  /\ UNCHANGED <<on, buf, g_campaign, g_running, g_conn, g_cov, tasks, up, log, regs, dutVars>>

Connect ==
  /\ on /\ ~g_conn /\ g_conn' = TRUE
  /\ UNCHANGED <<on, buf, g_campaign, g_running, manual, g_cov, tasks, up, log, fpgaVars, dutVars>>

\* The buffer is not cleared.
Disconnect ==
  /\ g_conn /\ g_conn' = FALSE /\ up' = <<>>
  /\ UNCHANGED <<on, buf, g_campaign, g_running, manual, g_cov, tasks, log, fpgaVars, dutVars>>

-----------------------------------------------------------------------------
(* campaign_task                                                           *)

\* What task t reads through its reference: once the vector has been replaced the
\* memory is freed and anything can be read there.
Deref(t) == IF tasks[t].stale THEN FaultSet ELSE {tasks[t].f}

Set(t, r) == tasks' = [tasks EXCEPT ![t] = r]

\* Mutant: the list of pending indices starts at the second.
BeginFromOne(t) ==
  /\ tasks[t].pc = "new"
  /\ Set(t, [tasks[t] EXCEPT !.pc = "head", !.pending = DOMAIN g_campaign \ {1},
                             !.total = Len(g_campaign)])
  /\ UNCHANGED <<gattVars, g_cov, up, log, fpgaVars, dutVars>>

Begin(t) ==
  /\ tasks[t].pc = "new"
  /\ Set(t, [tasks[t] EXCEPT !.pc = "head", !.pending = DOMAIN g_campaign,
                             !.total = Len(g_campaign)])
  /\ UNCHANGED <<gattVars, g_cov, up, log, fpgaVars, dutVars>>

\* An index from a longer campaign reads past the end of the vector.
InRange(t) == tasks[t].pending \subseteq DOMAIN g_campaign

\* The loop head with work to do: the scheduler's choice and the first write of arm().
Pick(t) ==
  /\ tasks[t].pc = "head" /\ tasks[t].pending # {} /\ g_running
  /\ \E i \in tasks[t].pending :
       /\ InRange(t) => LeastCovered(g_campaign, tasks[t].pending, g_cov, i)
       /\ \E f \in IF i \in DOMAIN g_campaign THEN {g_campaign[i]} ELSE FaultSet :
            /\ link' = Append(link, Head(ArmWrites(f)))
            /\ Set(t, [tasks[t] EXCEPT !.pc = "arm", !.pi = i, !.f = f,
                                       !.todo = Tail(ArmWrites(f)),
                                       !.stale = i \notin DOMAIN g_campaign])
  /\ UNCHANGED <<gattVars, g_cov, up, log, regs, dutVars>>

\* The next write of arm(): the address is the code's, the data may come from freed memory.
ArmWrite(t) ==
  /\ tasks[t].pc = "arm"
  /\ LET rest == tasks[t].todo IN
     /\ \E f \in Deref(t) :
          link' = Append(link, IF Len(rest) = 1 THEN Head(rest)
                               ELSE <<Head(rest)[1], ArmWrites(f)[6 - Len(rest)][2]>>)
     /\ Set(t, [tasks[t] EXCEPT !.todo = Tail(rest),
                                !.pc = IF Len(rest) = 1 THEN "settle" ELSE "arm",
                                !.ahead = IF Len(rest) = 1 THEN Len(link') ELSE 0])
  /\ UNCHANGED <<gattVars, g_cov, up, log, regs, dutVars>>

\* Mutant: no delay after arm().
EspNoSettle(t) ==
  /\ tasks[t].pc = "settle" /\ Set(t, [tasks[t] EXCEPT !.pc = "send"])
  /\ UNCHANGED <<gattVars, g_cov, up, log, fpgaVars, dutVars>>

\* vTaskDelay(ARM_SETTLE_MS): what this task has written arrives within it.
EspSettle(t) ==
  /\ tasks[t].pc = "settle" /\ tasks[t].ahead = 0
  /\ Set(t, [tasks[t] EXCEPT !.pc = "send"])
  /\ UNCHANGED <<gattVars, g_cov, up, log, fpgaVars, dutVars>>

RunId(t, i) == 10 * t + i

\* sr.fault = f, then SerialDutRunner::run sends.
EspSend(t) ==
  /\ tasks[t].pc = "send"
  /\ \E f \in Deref(t) :
       /\ wireIn' = wireIn \o RunCmd(f, RunId(t, tasks[t].pi))
       /\ Set(t, [tasks[t] EXCEPT !.pc = "read", !.f = f])
  /\ UNCHANGED <<gattVars, g_cov, up, log, fpgaVars,
                 dr, mode, phase, held, txn, lines, alive, presses>>

\* evaluate, mark, notify twice, erase.  Two tasks marking at once may lose a count.
EspRecord(t, x) ==
  LET task == tasks[t]  n == task.done + 1 IN
  \E f \in Deref(t) :
    LET pass == Evaluate(f, x.obs) IN
    /\ \/ g_cov' = [g_cov EXCEPT ![Key(f)] = @ + 1]
       \/ Others(t) # {} /\ UNCHANGED g_cov
    /\ log' = IF ~task.calm THEN log
              ELSE Append(log, [t |-> t, idx |-> task.pi, f |-> task.f, pass |-> pass, txn |-> x])
    /\ Notify(<<Verdict(task.f, pass), Status(t, "running", n)>>)
    /\ Set(t, [task EXCEPT !.pc = "head", !.done = n, !.pending = @ \ {task.pi}])

EspReceive(t) ==
  /\ tasks[t].pc = "read" /\ lines # <<>>
  /\ EspRecord(t, Head(lines))
  /\ \E k \in 1 .. Len(lines) : lines' = SubSeq(lines, k + 1, Len(lines))
  /\ UNCHANGED <<gattVars, fpgaVars, wireIn, dr, mode, phase, held, txn, alive, presses>>

\* Two tasks reading the DUT's UART each get a part of the line.
SplitLine ==
  /\ Cardinality({t \in Tasks : tasks[t].pc = "read"}) > 1 /\ lines # <<>>
  /\ lines' = Tail(lines)
  /\ UNCHANGED <<espVars, fpgaVars, wireIn, dr, mode, phase, held, txn, alive, presses>>

\* Mutant: the polls are not bounded.
EspReadForever(t) == FALSE /\ UNCHANGED <<espVars, fpgaVars, dutVars>>

\* 400 polls of 20 ms, against some 50 ms for a transaction: alone, a task misses no
\* line.  Beside another one, which may take its lines, it is left free to give up.
EspTimeout(t) ==
  /\ tasks[t].pc = "read" /\ lines = <<>>
  /\ ~alive \/ held \/ Silent \/ Others(t) # {}
  /\ EspRecord(t, NoTxn)
  /\ UNCHANGED <<gattVars, fpgaVars, dutVars>>

\* The loop ends: nothing left, or STOP.
Done(t) ==
  /\ tasks[t].pc = "head" /\ (tasks[t].pending = {} \/ ~g_running)
  /\ Notify(<<Status(t, "done", tasks[t].done)>>)
  /\ Set(t, [tasks[t] EXCEPT !.pc = "done"])
  /\ UNCHANGED <<gattVars, g_cov, log, fpgaVars, dutVars>>

\* Mutant: the flag is left up at the end.
EndRunning(t) ==
  /\ tasks[t].pc = "done" /\ Set(t, [tasks[t] EXCEPT !.pc = "gone"])
  /\ UNCHANGED <<gattVars, g_cov, up, log, fpgaVars, dutVars>>

\* g_running = false, whoever raised it, and the task is deleted.
End(t) ==
  /\ tasks[t].pc = "done" /\ Set(t, [tasks[t] EXCEPT !.pc = "gone"])
  /\ g_running' = FALSE
  /\ UNCHANGED <<on, buf, g_campaign, g_conn, manual, g_cov, up, log, fpgaVars, dutVars>>

\* A use of freed memory, or of memory past the vector, may also trap.
Trap(t) ==
  /\ \/ tasks[t].pc \in {"arm", "send", "read"} /\ tasks[t].stale
     \/ tasks[t].pc = "head" /\ g_running /\ ~InRange(t)
  /\ Reboot

EspApply ==
  /\ Apply
  /\ tasks' = [t \in Tasks |-> IF tasks[t].ahead > 0 THEN [tasks[t] EXCEPT !.ahead = @ - 1]
                               ELSE tasks[t]]
  /\ UNCHANGED <<gattVars, g_cov, up, log>>

TaskStep(t) == \/ Begin(t) \/ Pick(t) \/ ArmWrite(t) \/ EspSettle(t) \/ EspSend(t)
               \/ EspReceive(t) \/ EspTimeout(t) \/ Done(t) \/ End(t)

DutStep == ByteArrives \/ ReadCommand \/ ButtonPress \/ Strike \/ Result \/ ButtonRelease

EspNext ==
  \/ \E t \in Tasks : TaskStep(t) \/ Trap(t)
  \/ SplitLine \/ ManualWrite \/ Boot \/ EspApply
  \/ DutStep /\ UNCHANGED espVars
=============================================================================
