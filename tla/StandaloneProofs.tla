-------------------------- MODULE StandaloneProofs --------------------------
(***************************************************************************)
(* Five theorems about the computer-free bench, for any campaigns, number  *)
(* of chunks, tasks and bounds: the controller's flag is never left up     *)
(* with nobody to lower it; the campaign on the app's run screen is the    *)
(* one the controller holds; every variable is well typed; and a task that *)
(* nothing crosses runs every scenario of its campaign once, and reaches   *)
(* each verdict from the transaction of that scenario.                     *)
(***************************************************************************)
EXTENDS Standalone, RigProofs, SequenceTheorems, FiniteSetTheorems, TLAPS

-----------------------------------------------------------------------------
(* The flag                                                                *)

Shape == DOMAIN tasks = Tasks /\ \A t \in Tasks : "pc" \in DOMAIN tasks[t]

\* The invariant of the first theorem.
FlagInv == Shape /\ NeverWedged

\* What every step that does not touch the flag does to the tasks.
Survive == /\ Shape' /\ (g_running' => g_running)
           /\ \A t \in Tasks : Alive(t) => Alive(t)'

\* A task that takes a step and is not deleted by it leaves all tasks as they were,
\* as far as the flag is concerned.
LEMMA SetSurvives ==
  ASSUME Shape, NEW t \in Tasks, NEW r, "pc" \in DOMAIN r,
         r.pc \notin {"none", "gone", "killed"}, Set(t, r), UNCHANGED g_running
  PROVE  Survive
BY DEF Set, Survive, Shape, Alive

LEMMA DisturbSurvives ==
  ASSUME Shape, tasks' = Disturb, UNCHANGED g_running
  PROVE  Survive
BY DEF Disturb, Survive, Shape, Alive

LEMMA SurvivorsLower ==
  ASSUME FlagInv, Survive
  PROVE  FlagInv'
BY DEF FlagInv, Survive, NeverWedged

LEMMA RebootLowers ==
  ASSUME FlagInv, Reboot
  PROVE  FlagInv'
BY DEF FlagInv, Reboot, NeverWedged, Shape, Alive

\* One step of a campaign task: only its end lowers the flag, and no other step
\* deletes a task.
LEMMA TaskStepFlag ==
  ASSUME FlagInv, NEW t \in Tasks, TaskStep(t)
  PROVE  FlagInv'
<1> USE DEF FlagInv, gattVars
<1>1. CASE Begin(t)
  <2>1. Survive BY <1>1, SetSurvives DEF Begin, Shape
  <2> QED BY <2>1, SurvivorsLower
<1>2. CASE Pick(t)
  <2>1. PICK i, f :
          Set(t, [tasks[t] EXCEPT !.pc = "arm", !.pi = i, !.f = f, !.todo = Tail(ArmWrites(f)),
                                  !.stale = i \notin DOMAIN g_campaign])
    BY <1>2 DEF Pick
  <2>2. Survive BY <1>2, <2>1, SetSurvives DEF Pick, Shape
  <2> QED BY <2>2, SurvivorsLower
<1>3. CASE ArmWrite(t)
  <2>1. Survive BY <1>3, SetSurvives DEF ArmWrite, Shape
  <2> QED BY <2>1, SurvivorsLower
<1>4. CASE EspSettle(t)
  <2>1. Survive BY <1>4, SetSurvives DEF EspSettle, Shape
  <2> QED BY <2>1, SurvivorsLower
<1>5. CASE EspSend(t)
  <2>1. PICK f : Set(t, [tasks[t] EXCEPT !.pc = "read", !.f = f]) BY <1>5 DEF EspSend
  <2>2. Survive BY <1>5, <2>1, SetSurvives DEF EspSend, Shape
  <2> QED BY <2>2, SurvivorsLower
<1>6. CASE EspReceive(t) \/ EspTimeout(t)
  <2>1. \E x : EspRecord(t, x) BY <1>6 DEF EspReceive, EspTimeout
  <2>2. Set(t, [tasks[t] EXCEPT !.pc = "head", !.done = tasks[t].done + 1,
                                !.pending = @ \ {tasks[t].pi}])
    BY <2>1 DEF EspRecord
  <2>3. Survive BY <1>6, <2>2, SetSurvives DEF EspReceive, EspTimeout, Shape
  <2> QED BY <2>3, SurvivorsLower
<1>7. CASE Done(t)
  <2>1. Survive BY <1>7, SetSurvives DEF Done, Shape
  <2> QED BY <2>1, SurvivorsLower
<1>8. CASE End(t)
  BY <1>8 DEF End, Set, Shape, NeverWedged
<1> QED BY <1>1, <1>2, <1>3, <1>4, <1>5, <1>6, <1>7, <1>8 DEF TaskStep

\* A START that raises the flag creates the task that will lower it.
LEMMA StartFlag ==
  ASSUME FlagInv, OnStart
  PROVE  FlagInv'
<1>1. CASE ~g_running /\ g_campaign # <<>>
  <2>1. PICK t \in Unused :
          tasks' = [Disturb EXCEPT ![t] = [NoTask EXCEPT !.pc = "new", !.calm = Others(t) = {} /\ AtRest]]
    BY <1>1 DEF OnStart
  <2>2. t \in Tasks /\ tasks[t].pc = "none" BY <2>1 DEF Unused
  <2>3. Shape' BY <2>1, <2>2 DEF FlagInv, Shape, Disturb, NoTask
  <2>4. Alive(t)' BY <2>1, <2>2 DEF Alive, Disturb, NoTask
  <2> QED BY <2>2, <2>3, <2>4 DEF FlagInv, NeverWedged
<1>2. CASE ~(~g_running /\ g_campaign # <<>>)
  BY <1>2 DEF OnStart, FlagInv, NeverWedged, Shape, Alive
<1> QED BY <1>1, <1>2

LEMMA EspFlag ==
  ASSUME FlagInv, EspNext
  PROVE  FlagInv'
<1> USE DEF FlagInv
<1>1. CASE \E t \in Tasks : TaskStep(t)
  BY <1>1, TaskStepFlag
<1>2. CASE \E t \in Tasks : Trap(t)
  BY <1>2, RebootLowers DEF Trap
<1>3. CASE SplitLine \/ ManualWrite \/ Boot \/ (DutStep /\ UNCHANGED espVars)
  BY <1>3 DEF SplitLine, ManualWrite, Boot, espVars, gattVars, NeverWedged, Shape, Alive
<1>4. CASE EspApply
  <2>1. Survive BY <1>4 DEF EspApply, gattVars, Survive, Shape, Alive
  <2> QED BY <2>1, SurvivorsLower
<1> QED BY <1>1, <1>2, <1>3, <1>4 DEF EspNext

LEMMA AppFlag ==
  ASSUME FlagInv, App
  PROVE  FlagInv'
<1> USE DEF FlagInv
<1>1. CASE AppConnect \/ PushAndRun \/ PushFails \/ Hear \/ OpenRun \/ Back \/ Drop \/ Restart
  BY <1>1 DEF AppConnect, PushAndRun, PushFails, Hear, OpenRun, Back, Drop, Restart, Connect,
              Disconnect, espVars, gattVars, NeverWedged, Shape, Alive
<1>2. CASE Write
  <2>1. CASE Chunk(picked, step.n)
    BY <2>1 DEF Chunk, NeverWedged, Shape, Alive
  <2>2. CASE EndOfCampaign /\ ~Throws(buf)
    <3>1. /\ UNCHANGED g_running
          /\ tasks' = [t \in Tasks |-> [Disturb[t] EXCEPT !.stale = Alive(t)]]
      BY <2>2 DEF EndOfCampaign
    <3>2. DOMAIN tasks' = Tasks
      BY <3>1
    <3>3. ASSUME NEW t \in Tasks
          PROVE  "pc" \in DOMAIN tasks'[t] /\ tasks'[t].pc = tasks[t].pc
      <4>1. "pc" \in DOMAIN Disturb[t] /\ Disturb[t].pc = tasks[t].pc
        BY DEF Disturb, Shape
      <4>2. tasks'[t] = [Disturb[t] EXCEPT !.stale = Alive(t)]
        BY <3>1
      <4> QED BY <4>1, <4>2
    <3>4. Survive
      BY <3>1, <3>2, <3>3 DEF Survive, Shape, Alive
    <3> QED BY <3>4, SurvivorsLower
  <2>3. CASE EndOfCampaign /\ Throws(buf)
    BY <2>3, RebootLowers DEF EndOfCampaign
  <2>4. CASE OnStart
    BY <2>4, StartFlag
  <2> QED BY <1>2, <2>1, <2>2, <2>3, <2>4 DEF Write
<1>3. CASE PressStop
  BY <1>3 DEF PressStop, OnStop, NeverWedged, Shape
<1>4. CASE ArmManual
  <2>1. Survive BY <1>4, DisturbSurvives DEF ArmManual, OnControlArm
  <2> QED BY <2>1, SurvivorsLower
<1> QED BY <1>1, <1>2, <1>3, <1>4 DEF App

\* main.cpp: g_running is raised by START and lowered by the task that START creates;
\* whatever is pushed, stopped, armed by hand, disconnected or reset meanwhile, there
\* is a task left to lower it, so a later START can be obeyed.
THEOREM NeverWedgedTheorem == Spec => []NeverWedged
<1>1. Init => FlagInv
  BY DEF Init, EspInit, FlagInv, Shape, NeverWedged, NoTask
<1>2. FlagInv /\ [Next]_vars => FlagInv'
  <2> SUFFICES ASSUME FlagInv, [Next]_vars PROVE FlagInv' OBVIOUS
  <2>1. CASE App BY <2>1, AppFlag
  <2>2. CASE EspNext BY <2>2, EspFlag
  <2>3. CASE UNCHANGED vars
    BY <2>3 DEF vars, espVars, gattVars, FlagInv, Shape, NeverWedged, Alive
  <2> QED BY <2>1, <2>2, <2>3 DEF Next
<1>3. FlagInv => NeverWedged
  BY DEF FlagInv
<1> QED BY <1>1, <1>2, <1>3, PTL DEF Spec
-----------------------------------------------------------------------------
(* The pushed campaign                                                     *)

\* s is a sequence, of whatever it holds: the notifications are never looked into,
\* but for their kind.
IsSeq(s) == \E S : s \in Seq(S)

NoOk(s)  == \A i \in 1 .. Len(s) : s[i].m # "ok"
OneOk(s) == \E i \in 1 .. Len(s) :
              s[i].m = "ok" /\ \A j \in 1 .. Len(s) : s[j].m = "ok" => j = i

\* Writes of _pushAndRun that the controller has taken.
Written == IF step.sent THEN step.n ELSE step.n - 1

\* A response is on its way exactly while the app awaits one, and the controller holds
\* the chunks written so far, or the whole campaign once it has its end.
Pushing ==
  /\ step.n \in 1 .. CHUNKS + 2
  /\ IF step.sent THEN OneOk(up) ELSE NoOk(up)
  /\ IF Written <= CHUNKS
     THEN Len(buf) = Written /\ \A k \in 1 .. Len(buf) : buf[k] = <<picked, k>>
     ELSE buf = <<>> /\ g_campaign = picked

PushOK ==
  /\ ~g_conn => up = <<>> /\ buf = <<>>
  /\ screen = "connect" => ~g_conn
  /\ g_conn /\ screen # "push" => NoOk(up) /\ buf = <<>>
  /\ g_conn /\ screen = "push" => Pushing
  /\ g_conn /\ screen \in {"opening", "run"} => g_campaign = picked

\* The invariant of the second theorem.
PushInv ==
  /\ IsSeq(up) /\ IsSeq(buf) /\ step \in [n : Nat, sent : BOOLEAN] /\ drops \in Nat
  /\ drops = 0 => PushOK

-----------------------------------------------------------------------------
(* Sequences                                                               *)

LEMMA NothingSent == IsSeq(<<>>) /\ NoOk(<<>>)
BY DEF IsSeq, NoOk

LEMMA SnocSeq ==
  ASSUME NEW s, IsSeq(s), NEW a
  PROVE  /\ IsSeq(s \o <<a>>) /\ Len(s \o <<a>>) = Len(s) + 1 /\ Len(s) \in Nat
         /\ \A i \in 1 .. Len(s) : (s \o <<a>>)[i] = s[i]
         /\ (s \o <<a>>)[Len(s) + 1] = a
<1>1. PICK S : s \in Seq(S) BY DEF IsSeq
<1>2. s \in Seq(S \cup {a}) /\ <<a>> \in Seq(S \cup {a}) BY <1>1
<1>3. s \o <<a>> \in Seq(S \cup {a}) BY <1>2
<1> QED BY <1>2, <1>3 DEF IsSeq

LEMMA AppendSeq ==
  ASSUME NEW s, IsSeq(s), NEW a
  PROVE  /\ IsSeq(Append(s, a)) /\ Len(Append(s, a)) = Len(s) + 1 /\ Len(s) \in Nat
         /\ \A i \in 1 .. Len(s) : Append(s, a)[i] = s[i]
         /\ Append(s, a)[Len(s) + 1] = a
<1>1. PICK S : s \in Seq(S) BY DEF IsSeq
<1>2. s \in Seq(S \cup {a}) BY <1>1
<1>3. Append(s, a) \in Seq(S \cup {a}) BY <1>2
<1> QED BY <1>2, <1>3 DEF IsSeq

LEMMA TwoSeq ==
  ASSUME NEW s, IsSeq(s), NEW a, NEW b
  PROVE  /\ IsSeq(s \o <<a, b>>) /\ Len(s \o <<a, b>>) = Len(s) + 2 /\ Len(s) \in Nat
         /\ \A i \in 1 .. Len(s) : (s \o <<a, b>>)[i] = s[i]
         /\ (s \o <<a, b>>)[Len(s) + 1] = a /\ (s \o <<a, b>>)[Len(s) + 2] = b
<1>1. PICK S : s \in Seq(S) BY DEF IsSeq
<1>2. s \in Seq(S \cup {a, b}) /\ <<a, b>> \in Seq(S \cup {a, b}) BY <1>1
<1>3. s \o <<a, b>> \in Seq(S \cup {a, b}) BY <1>2
<1> QED BY <1>2, <1>3 DEF IsSeq

LEMMA TailSeq ==
  ASSUME NEW s, IsSeq(s), s # <<>>
  PROVE  /\ IsSeq(Tail(s)) /\ Len(Tail(s)) = Len(s) - 1 /\ Len(s) \in Nat \ {0}
         /\ \A i \in 1 .. Len(s) - 1 : Tail(s)[i] = s[i + 1]
         /\ Head(s) = s[1]
<1>1. PICK S : s \in Seq(S) BY DEF IsSeq
<1>2. Tail(s) \in Seq(S) BY <1>1
<1> QED BY <1>1, <1>2 DEF IsSeq

\* After a response is taken off, another one is not there; after anything else is, it is.
LEMMA TailOks ==
  ASSUME NEW s, IsSeq(s), s # <<>>
  PROVE  /\ NoOk(s) => NoOk(Tail(s)) /\ Head(s).m # "ok"
         /\ OneOk(s) /\ Head(s).m = "ok" => NoOk(Tail(s))
         /\ OneOk(s) /\ Head(s).m # "ok" => OneOk(Tail(s))
<1>1. ASSUME NoOk(s) PROVE NoOk(Tail(s)) /\ Head(s).m # "ok"
  BY <1>1, TailSeq DEF NoOk
<1>2. ASSUME OneOk(s), Head(s).m = "ok" PROVE NoOk(Tail(s))
  <2>1. \A j \in 1 .. Len(s) : s[j].m = "ok" => j = 1
    BY <1>2, TailSeq DEF OneOk
  <2> QED BY <2>1, TailSeq DEF NoOk
<1>3. ASSUME OneOk(s), Head(s).m # "ok" PROVE OneOk(Tail(s))
  <2>1. PICK i \in 1 .. Len(s) :
          s[i].m = "ok" /\ \A j \in 1 .. Len(s) : s[j].m = "ok" => j = i
    BY <1>3 DEF OneOk
  <2>2. i - 1 \in 1 .. Len(Tail(s)) /\ Tail(s)[i - 1] = s[i]
    BY <1>3, <2>1, TailSeq
  <2>3. ASSUME NEW j \in 1 .. Len(Tail(s)), Tail(s)[j].m = "ok" PROVE j = i - 1
    BY <2>1, <2>3, TailSeq
  <2> QED BY <2>1, <2>2, <2>3 DEF OneOk
<1> QED BY <1>1, <1>2, <1>3

\* z is s with notifications behind it.
Quiet(s, z) == /\ IsSeq(z) /\ Len(s) \in Nat /\ Len(z) \in Nat /\ Len(z) >= Len(s)
               /\ \A i \in 1 .. Len(s) : z[i] = s[i]
               /\ \A i \in Len(s) + 1 .. Len(z) : z[i].m # "ok"

LEMMA QuietOks ==
  ASSUME NEW s, NEW z, Quiet(s, z)
  PROVE  (NoOk(s) => NoOk(z)) /\ (OneOk(s) => OneOk(z))
<1>1. ASSUME NoOk(s) PROVE NoOk(z)
  BY <1>1 DEF NoOk, Quiet
<1>2. ASSUME OneOk(s) PROVE OneOk(z)
  <2>1. PICK i \in 1 .. Len(s) :
          s[i].m = "ok" /\ \A j \in 1 .. Len(s) : s[j].m = "ok" => j = i
    BY <1>2 DEF OneOk
  <2>2. i \in 1 .. Len(z) /\ z[i].m = "ok" BY <2>1 DEF Quiet
  <2>3. ASSUME NEW j \in 1 .. Len(z), z[j].m = "ok" PROVE j = i
    BY <2>1, <2>3 DEF Quiet
  <2> QED BY <2>2, <2>3 DEF OneOk
<1> QED BY <1>1, <1>2

LEMMA QuietSame ==
  ASSUME NEW s, IsSeq(s)
  PROVE  Quiet(s, s)
<1>1. Len(s) \in Nat BY DEF IsSeq
<1> QED BY <1>1 DEF Quiet

LEMMA QuietOne ==
  ASSUME NEW s, IsSeq(s), NEW a, a.m # "ok"
  PROVE  Quiet(s, s \o <<a>>)
<1> DEFINE z == s \o <<a>>
<1>1. /\ IsSeq(z) /\ Len(z) = Len(s) + 1 /\ Len(s) \in Nat
      /\ \A i \in 1 .. Len(s) : z[i] = s[i]
      /\ z[Len(s) + 1] = a
  BY SnocSeq
<1> HIDE DEF z
<1>2. Quiet(s, z) BY <1>1 DEF Quiet
<1> QED BY <1>2 DEF z

LEMMA QuietTwo ==
  ASSUME NEW s, IsSeq(s), NEW a, NEW b, a.m # "ok", b.m # "ok"
  PROVE  Quiet(s, s \o <<a, b>>)
<1> DEFINE z == s \o <<a, b>>
<1>1. /\ IsSeq(z) /\ Len(z) = Len(s) + 2 /\ Len(s) \in Nat
      /\ \A i \in 1 .. Len(s) : z[i] = s[i]
      /\ z[Len(s) + 1] = a /\ z[Len(s) + 2] = b
  BY TwoSeq
<1> HIDE DEF z
<1>2. \A i \in Len(s) + 1 .. Len(z) : i = Len(s) + 1 \/ i = Len(s) + 2
  BY <1>1
<1>3. Quiet(s, z) BY <1>1, <1>2 DEF Quiet
<1> QED BY <1>3 DEF z

\* The response to a write, when none was under way.
LEMMA OkAppended ==
  ASSUME NEW s, IsSeq(s), NoOk(s)
  PROVE  OneOk(s \o <<Ok>>) /\ IsSeq(s \o <<Ok>>)
<1> DEFINE z == s \o <<Ok>>
<1>1. /\ IsSeq(z) /\ Len(z) = Len(s) + 1 /\ Len(s) \in Nat
      /\ \A i \in 1 .. Len(s) : z[i] = s[i]
      /\ z[Len(s) + 1] = Ok
  BY SnocSeq
<1> HIDE DEF z
<1>2. Ok.m = "ok" BY DEF Ok
<1>3. Len(z) \in 1 .. Len(z) /\ z[Len(z)].m = "ok" BY <1>1, <1>2
<1>4. ASSUME NEW j \in 1 .. Len(z), z[j].m = "ok" PROVE j = Len(z)
  BY <1>1, <1>4 DEF NoOk
<1>5. OneOk(z) BY <1>3, <1>4 DEF OneOk
<1> QED BY <1>1, <1>5 DEF z
-----------------------------------------------------------------------------
(* Steps of the controller                                                 *)

\* A step that pushes nothing: only notifications are added.
Quietly == /\ UNCHANGED <<buf, g_campaign, g_conn>> /\ Quiet(up, up')
           /\ (~g_conn => up' = up)

LEMMA NotifyQuiet ==
  ASSUME IsSeq(up), UNCHANGED <<buf, g_campaign, g_conn>>,
         NEW a, NEW b, a.m # "ok", b.m # "ok", Notify(<<a>>) \/ Notify(<<a, b>>)
  PROVE  Quietly
BY QuietOne, QuietTwo, QuietSame DEF Notify, Quietly

LEMMA StillQuiet ==
  ASSUME IsSeq(up), UNCHANGED <<buf, g_campaign, g_conn, up>>
  PROVE  Quietly
BY QuietSame DEF Quietly

\* A campaign task, the bench and the manual writes push nothing, or reset the chip.
LEMMA EspQuiet ==
  ASSUME IsSeq(up), EspNext
  PROVE  Quietly \/ Reboot
<1>1. CASE \E t \in Tasks : EspReceive(t) \/ EspTimeout(t)
  <2>1. PICK t \in Tasks : \E x : EspRecord(t, x)
    BY <1>1 DEF EspReceive, EspTimeout
  <2>2. PICK f, p : Notify(<<Verdict(f, p), Status(t, "running", tasks[t].done + 1)>>)
    BY <2>1 DEF EspRecord
  <2>3. /\ Verdict(f, p).m # "ok"
        /\ Status(t, "running", tasks[t].done + 1).m # "ok"
    BY DEF Verdict, Status
  <2>4. UNCHANGED <<buf, g_campaign, g_conn>>
    BY <1>1 DEF EspReceive, EspTimeout, gattVars
  <2> QED BY <2>2, <2>3, <2>4, NotifyQuiet
<1>2. CASE \E t \in Tasks : Done(t)
  <2>1. PICK t \in Tasks : Done(t) BY <1>2
  <2>2. Notify(<<Status(t, "done", tasks[t].done)>>) BY <2>1 DEF Done
  <2>3. Status(t, "done", tasks[t].done).m # "ok" BY DEF Status
  <2>4. UNCHANGED <<buf, g_campaign, g_conn>> BY <2>1 DEF Done, gattVars
  <2> QED BY <2>2, <2>3, <2>4, NotifyQuiet
<1>3. CASE \E t \in Tasks : Trap(t)
  BY <1>3 DEF Trap
<1>4. CASE \/ \E t \in Tasks : \/ Begin(t) \/ Pick(t) \/ ArmWrite(t) \/ EspSettle(t)
                               \/ EspSend(t) \/ End(t)
           \/ SplitLine \/ ManualWrite \/ Boot \/ EspApply \/ (DutStep /\ UNCHANGED espVars)
  <2>1. UNCHANGED <<buf, g_campaign, g_conn, up>>
    BY <1>4 DEF Begin, Pick, ArmWrite, EspSettle, EspSend, End, SplitLine, ManualWrite, Boot,
                EspApply, espVars, gattVars
  <2> QED BY <2>1, StillQuiet
<1> QED BY <1>1, <1>2, <1>3, <1>4 DEF EspNext, TaskStep

LEMMA QuietPush ==
  ASSUME PushInv, Quietly, UNCHANGED <<screen, step, picked, drops>>
  PROVE  PushInv'
<1>1. IsSeq(up)' BY DEF Quietly, Quiet
<1>2. (NoOk(up) => NoOk(up)') /\ (OneOk(up) => OneOk(up)')
  BY QuietOks DEF Quietly
<1>3. ASSUME drops = 0 PROVE PushOK'
  <2>1. PushOK BY <1>3 DEF PushInv
  <2>2. Pushing => Pushing' BY <1>2 DEF Pushing, Written, Quietly
  <2> QED BY <2>1, <2>2, <1>2 DEF PushOK, Quietly
<1> QED BY <1>1, <1>3 DEF PushInv, Quietly

\* A reset chip holds nothing, and no connection.
LEMMA RebootPush ==
  ASSUME PushInv, Reboot, step' \in [n : Nat, sent : BOOLEAN], UNCHANGED drops
  PROVE  PushInv'
BY NothingSent DEF PushInv, Reboot, PushOK

-----------------------------------------------------------------------------
(* Steps of the app                                                        *)

\* Every write is answered with one response; the last chunk's end makes the campaign
\* the controller's, START changes neither.
LEMMA WritePush ==
  ASSUME PushInv, Write
  PROVE  PushInv'
<1>1. /\ screen = "push" /\ g_conn /\ ~step.sent /\ step' = [step EXCEPT !.sent = TRUE]
      /\ UNCHANGED <<screen, picked, drops>>
  BY DEF Write
<1>2. /\ step' \in [n : Nat, sent : BOOLEAN] /\ step'.n = step.n /\ step'.sent
      /\ step.n \in Nat /\ IsSeq(up) /\ IsSeq(buf) /\ drops \in Nat
  BY <1>1 DEF PushInv
<1>3. drops = 0 => Pushing /\ NoOk(up) /\ Written = step.n - 1
  BY <1>1 DEF PushInv, PushOK, Pushing, Written
<1>4. Written' = step.n BY <1>2 DEF Written
<1>5. CHUNKS \in Nat \ {0} BY EspOK
<1>6. CASE step.n <= CHUNKS /\ Chunk(picked, step.n)
  <2>1. buf' = Append(buf, <<picked, step.n>>) /\ up' = up \o <<Ok>>
        /\ UNCHANGED <<g_campaign, g_conn>>
    BY <1>1, <1>6 DEF Chunk, Notify
  <2>2. IsSeq(buf)' /\ Len(buf') = Len(buf) + 1 /\ Len(buf) \in Nat
        /\ (\A k \in 1 .. Len(buf) : buf'[k] = buf[k])
        /\ buf'[Len(buf) + 1] = <<picked, step.n>>
    BY <2>1, <1>2, AppendSeq
  <2>3. IsSeq(up)' BY <2>1, <1>2, SnocSeq
  <2>4. ASSUME drops = 0 PROVE PushOK'
    <3>1. OneOk(up)' BY <2>1, <2>4, <1>2, <1>3, OkAppended
    <3>2. Len(buf) = step.n - 1 /\ \A k \in 1 .. Len(buf) : buf[k] = <<picked, k>>
      BY <2>4, <1>3, <1>6, <1>2, <1>5 DEF Pushing
    <3>3. Len(buf') = step.n /\ \A k \in 1 .. Len(buf') : buf'[k] = <<picked, k>>
      <4>1. Len(buf') = step.n BY <3>2, <2>2, <1>2
      <4>2. ASSUME NEW k \in 1 .. Len(buf') PROVE buf'[k] = <<picked, k>>
        <5>1. k \in 1 .. Len(buf) \/ k = Len(buf) + 1 BY <2>2
        <5>2. step.n = Len(buf) + 1 BY <3>2, <1>2
        <5> QED BY <5>1, <5>2, <3>2, <2>2
      <4> QED BY <4>1, <4>2
    <3>4. step.n \in 1 .. CHUNKS + 2 BY <2>4, <1>3 DEF Pushing
    <3>5. Pushing' BY <3>1, <3>3, <3>4, <1>1, <1>2, <1>4, <1>6 DEF Pushing
    <3> QED BY <3>5, <1>1, <2>1 DEF PushOK
  <2> QED BY <2>2, <2>3, <2>4, <1>1, <1>2 DEF PushInv
<1>7. CASE step.n = CHUNKS + 1 /\ EndOfCampaign
  <2>1. CASE Throws(buf)
    BY <2>1, <1>1, <1>2, <1>7, RebootPush DEF EndOfCampaign
  <2>2. CASE ~Throws(buf)
    <3>1. /\ g_campaign' = (IF buf = <<>> THEN <<>> ELSE buf[1][1])
          /\ buf' = <<>> /\ up' = up \o <<Ok>> /\ UNCHANGED g_conn
      BY <2>2, <1>1, <1>7 DEF EndOfCampaign, Notify
    <3>2. IsSeq(up)' /\ IsSeq(buf)' BY <3>1, <1>2, SnocSeq, NothingSent
    <3>3. ASSUME drops = 0 PROVE PushOK'
      <4>1. OneOk(up)' BY <3>1, <3>3, <1>2, <1>3, OkAppended
      <4>2. Len(buf) = CHUNKS /\ \A k \in 1 .. Len(buf) : buf[k] = <<picked, k>>
        BY <3>3, <1>3, <1>7, <1>5 DEF Pushing
      <4>3. buf # <<>> /\ buf[1][1] = picked
        BY <4>2, <1>5
      <4>4. g_campaign' = picked BY <4>3, <3>1
      <4>5. step'.n \in 1 .. CHUNKS + 2 /\ ~(Written' <= CHUNKS)
        BY <1>2, <1>4, <1>5, <1>7
      <4>6. step'.sent /\ buf' = <<>> /\ g_campaign' = picked'
        BY <4>4, <3>1, <1>1, <1>2
      <4>7. Pushing' BY <4>1, <4>5, <4>6 DEF Pushing
      <4> QED BY <4>7, <1>1, <3>1 DEF PushOK
    <3> QED BY <3>2, <3>3, <1>1, <1>2 DEF PushInv
  <2> QED BY <2>1, <2>2
<1>8. CASE step.n = CHUNKS + 2 /\ OnStart
  <2>1. up' = up \o <<Ok>> /\ UNCHANGED <<buf, g_campaign, g_conn>>
    BY <1>1, <1>8 DEF OnStart, Notify
  <2>2. IsSeq(up)' /\ IsSeq(buf)' BY <2>1, <1>2, SnocSeq
  <2>3. ASSUME drops = 0 PROVE PushOK'
    <3>1. OneOk(up)' BY <2>1, <2>3, <1>2, <1>3, OkAppended
    <3>2. buf = <<>> /\ g_campaign = picked
      BY <2>3, <1>3, <1>8, <1>5 DEF Pushing
    <3>3. Pushing' BY <3>1, <3>2, <2>1, <1>1, <1>2, <1>4, <1>5, <1>8 DEF Pushing
    <3> QED BY <3>3, <1>1, <2>1 DEF PushOK
  <2> QED BY <2>2, <2>3, <1>1, <1>2 DEF PushInv
<1> QED BY <1>6, <1>7, <1>8 DEF Write

\* A response moves the app one write on, after START to its run screen.
LEMMA HearPush ==
  ASSUME PushInv, Hear
  PROVE  PushInv'
<1> DEFINE e == Head(up)
<1>1. /\ up # <<>> /\ up' = Tail(up)
      /\ UNCHANGED <<buf, g_campaign, g_conn, picked, drops>>
      /\ IF e.m = "ok" /\ screen = "push"
         THEN IF step.n = CHUNKS + 2
              THEN screen' = "opening" /\ step' = [n |-> 0, sent |-> FALSE]
              ELSE step' = [n |-> step.n + 1, sent |-> FALSE] /\ UNCHANGED screen
         ELSE UNCHANGED <<screen, step>>
  BY DEF Hear, gattVars
<1>2. IsSeq(up)' /\ IsSeq(buf)' /\ step' \in [n : Nat, sent : BOOLEAN] /\ drops' \in Nat
  <2>1. IsSeq(up)' BY <1>1, TailSeq DEF PushInv
  <2>2. \/ step' = [n |-> 0, sent |-> FALSE]
        \/ step' = [n |-> step.n + 1, sent |-> FALSE]
        \/ step' = step
    BY <1>1, Zenon
  <2>3. step \in [n : Nat, sent : BOOLEAN] BY DEF PushInv
  <2>4. step' \in [n : Nat, sent : BOOLEAN]
    <3>1. CASE step' = [n |-> 0, sent |-> FALSE] BY <3>1
    <3>2. CASE step' = [n |-> step.n + 1, sent |-> FALSE] BY <3>2, <2>3
    <3>3. CASE step' = step BY <3>3, <2>3
    <3> QED BY <2>2, <3>1, <3>2, <3>3
  <2> QED BY <2>1, <2>4, <1>1 DEF PushInv
<1>3. /\ NoOk(up) => NoOk(up)' /\ e.m # "ok"
      /\ OneOk(up) /\ e.m = "ok" => NoOk(up)'
      /\ OneOk(up) /\ e.m # "ok" => OneOk(up)'
  BY <1>1, TailOks DEF PushInv
<1> HIDE DEF e
<1>4. ASSUME drops = 0 PROVE PushOK'
  <2>1. PushOK /\ g_conn /\ CHUNKS \in Nat \ {0} /\ step \in [n : Nat, sent : BOOLEAN]
    BY <1>4, <1>1, EspOK DEF PushInv, PushOK
  <2>2. CASE screen # "push"
    BY <2>1, <2>2, <1>1, <1>3 DEF PushOK
  <2>3. CASE screen = "push" /\ e.m # "ok"
    <3>1. Pushing BY <2>1, <2>3 DEF PushOK
    <3>2. Pushing' BY <3>1, <2>3, <1>1, <1>3 DEF Pushing, Written
    <3> QED BY <3>2, <2>1, <2>3, <1>1 DEF PushOK
  <2>4. CASE screen = "push" /\ e.m = "ok"
    <3>1. Pushing /\ step.sent /\ Written = step.n /\ step.n \in 1 .. CHUNKS + 2
      BY <2>1, <2>4, <1>3 DEF PushOK, Pushing, Written
    <3>2. NoOk(up)' BY <3>1, <2>4, <1>3 DEF Pushing
    <3>3. CASE step.n = CHUNKS + 2
      <4>1. buf = <<>> /\ g_campaign = picked BY <3>1, <3>3, <2>1 DEF Pushing
      <4> QED BY <4>1, <3>2, <3>3, <2>1, <2>4, <1>1 DEF PushOK
    <3>4. CASE step.n # CHUNKS + 2
      <4>1. /\ step'.n = step.n + 1 /\ ~step'.sent /\ screen' = "push"
            /\ step'.n \in 1 .. CHUNKS + 2
        BY <3>1, <3>4, <2>1, <2>4, <1>1
      <4>2. Written' = Written BY <4>1, <3>1 DEF Written
      <4>3. Pushing' BY <4>1, <4>2, <3>1, <3>2, <1>1 DEF Pushing
      <4> QED BY <4>1, <4>3, <2>1, <1>1 DEF PushOK
    <3> QED BY <3>3, <3>4
  <2> QED BY <2>2, <2>3, <2>4
<1> QED BY <1>1, <1>2, <1>4 DEF PushInv

LEMMA AppPush ==
  ASSUME PushInv, App
  PROVE  PushInv'
<1>1. CASE AppConnect
  <2>1. /\ screen = "connect" /\ screen' = "campaign" /\ ~g_conn
        /\ UNCHANGED <<buf, up, step, picked, drops>>
    BY <1>1 DEF AppConnect, Connect
  <2> QED BY <2>1, NothingSent DEF PushInv, PushOK
<1>2. CASE PushAndRun
  <2>1. /\ screen = "campaign" /\ g_conn /\ screen' = "push"
        /\ step' = [n |-> 1, sent |-> FALSE]
        /\ UNCHANGED <<buf, up, g_campaign, g_conn, drops>>
    BY <1>2 DEF PushAndRun, espVars, gattVars
  <2>2. Written' = 0 BY <2>1 DEF Written
  <2>3. ASSUME drops = 0 PROVE PushOK'
    <3>1. NoOk(up) /\ buf = <<>> BY <2>1, <2>3 DEF PushInv, PushOK
    <3>2. NoOk(up)' /\ Len(buf') = 0 BY <3>1, <2>1
    <3>3. Pushing' BY <3>2, <2>1, <2>2, EspOK DEF Pushing
    <3> QED BY <3>3, <2>1 DEF PushOK
  <2> QED BY <2>1, <2>3 DEF PushInv
<1>3. CASE Write BY <1>3, WritePush
<1>4. CASE Hear BY <1>4, HearPush
<1>5. CASE PushFails \/ Restart
  <2>1. /\ ~g_conn /\ step' = [n |-> 0, sent |-> FALSE]
        /\ UNCHANGED <<buf, up, g_conn, drops>>
    BY <1>5 DEF PushFails, Restart, espVars, gattVars
  <2> QED BY <2>1 DEF PushInv, PushOK
<1>6. CASE OpenRun \/ PressStop \/ Back \/ ArmManual
  <2>1. UNCHANGED <<buf, up, g_campaign, g_conn, step, picked, drops>>
    BY <1>6 DEF OpenRun, PressStop, OnStop, Back, ArmManual, OnControlArm, espVars, gattVars
  <2>2. /\ screen # "push" /\ screen' \in {"campaign", "run"}
        /\ screen' = "run" => screen \in {"opening", "run"}
        /\ screen # "connect" \/ screen' = screen
    BY <1>6 DEF OpenRun, PressStop, Back, ArmManual
  <2>3. NoOk(up)' = NoOk(up) BY <2>1
  <2> QED BY <2>1, <2>2, <2>3 DEF PushInv, PushOK
<1>7. CASE Drop
  <2>1. /\ drops' = drops + 1 /\ up' = <<>> /\ UNCHANGED <<buf, step>>
    BY <1>7 DEF Drop, Disconnect
  <2> QED BY <2>1, NothingSent DEF PushInv
<1> QED BY <1>1, <1>2, <1>3, <1>4, <1>5, <1>6, <1>7 DEF App

\* main.cpp, gatt_server.cpp, run_screen.dart: as long as no connection was lost, the
\* run screen shows the campaign that the controller holds and START ran: the chunks
\* arrive in order and once, none is left over from an earlier push, and whatever the
\* tasks of earlier campaigns notify in between is never taken for a response.
THEOREM RunsPickedTheorem == Spec => []RunsPicked
<1>1. Init => PushInv
  <2> SUFFICES ASSUME Init PROVE PushInv OBVIOUS
  <2>1. /\ up = <<>> /\ buf = <<>> /\ drops = 0 /\ ~g_conn
        /\ step = [n |-> 0, sent |-> FALSE]
    BY DEF Init, EspInit
  <2> QED BY <2>1, NothingSent DEF PushInv, PushOK
<1>2. PushInv /\ [Next]_vars => PushInv'
  <2> SUFFICES ASSUME PushInv, [Next]_vars PROVE PushInv' OBVIOUS
  <2>1. CASE App BY <2>1, AppPush
  <2>2. CASE EspNext /\ UNCHANGED appVars
    <3>1. UNCHANGED <<screen, step, picked, drops>> BY <2>2 DEF appVars
    <3>2. step' \in [n : Nat, sent : BOOLEAN] BY <3>1 DEF PushInv
    <3>3. Quietly \/ Reboot BY <2>2, EspQuiet DEF PushInv
    <3> QED BY <3>1, <3>2, <3>3, QuietPush, RebootPush
  <2>3. CASE UNCHANGED vars
    <3>1. UNCHANGED <<buf, g_campaign, g_conn, up>> /\ UNCHANGED <<screen, step, picked, drops>>
      BY <2>3 DEF vars, espVars, gattVars, appVars
    <3> QED BY <3>1, StillQuiet, QuietPush DEF PushInv
  <2> QED BY <2>1, <2>2, <2>3 DEF Next
<1>3. PushInv => RunsPicked
  BY DEF PushInv, PushOK, RunsPicked
<1> QED BY <1>1, <1>2, <1>3, PTL DEF Spec
-----------------------------------------------------------------------------
(* Types                                                                   *)

Busy == {"arm", "settle", "send", "read"}

TaskRec ==
  [pc : {"none", "new", "head", "done", "gone", "killed"} \cup Busy,
   pending : SUBSET Nat, total : Nat, done : Nat, pi : Nat, f : FaultSet \cup {<<>>},
   todo : Seq(RegWrite), ahead : Nat, stale : BOOLEAN, calm : BOOLEAN, stopped : BOOLEAN]

\* A busy task works on one of its pending scenarios.
TaskOK(r) ==
  /\ r \in TaskRec /\ IsFiniteSet(r.pending) /\ r.done + Cardinality(r.pending) = r.total
  /\ r.pc \in Busy => r.f \in FaultSet /\ r.pi \in r.pending
  /\ r.pc = "arm" => Len(r.todo) \in 1 .. 4
  /\ r.pc \in {"none", "new"} => r.done = 0

Entry == [t : Tasks, idx : Nat, f : FaultSet, pass : BOOLEAN, txn : Answer(Nat)]

GattTypes ==
  /\ g_campaign \in Campaigns \cup {<<>>} /\ buf \in Seq(Campaigns \X (1 .. CHUNKS))
  /\ manual \in Seq(RegWrite)
TaskTypes == tasks \in [Tasks -> TaskRec] /\ \A t \in Tasks : TaskOK(tasks[t])
LogTypes  == log \in Seq(Entry) /\ g_cov \in [Keys -> Nat]
EspTypes  == FpgaTypes /\ DutTypes(Nat) /\ GattTypes /\ TaskTypes /\ LogTypes

AppTypes ==
  /\ screen \in {"connect", "campaign", "push", "opening", "run"}
  /\ step \in [n : 0 .. CHUNKS + 2, sent : BOOLEAN] /\ (step.n = 0 <=> screen # "push")
  /\ screen = "push" => picked \in Campaigns

LEMMA NoTaskOK == TaskOK(NoTask)
<1>1. IsFiniteSet({}) /\ Cardinality({}) = 0
  BY FS_EmptySet
<1>2. <<>> \in Seq(RegWrite)
  OBVIOUS
<1>3. NoTask \in TaskRec
  BY <1>2 DEF NoTask, TaskRec, Busy
<1> QED BY <1>1, <1>3 DEF NoTask, TaskOK, Busy

\* A campaign's scenarios are numbered from 1.
LEMMA CampaignShape ==
  ASSUME GattTypes
  PROVE  /\ g_campaign \in Seq(FaultSet) /\ Len(g_campaign) \in Nat
         /\ DOMAIN g_campaign = 1 .. Len(g_campaign) /\ DOMAIN g_campaign \subseteq Nat
         /\ IsFiniteSet(DOMAIN g_campaign) /\ Cardinality(DOMAIN g_campaign) = Len(g_campaign)
         /\ \A i \in DOMAIN g_campaign : g_campaign[i] \in FaultSet
<1>1. g_campaign \in Seq(FaultSet)
  <2>1. Campaigns \subseteq Seq(FaultSet) BY EspOK
  <2>2. <<>> \in Seq(FaultSet) OBVIOUS
  <2> QED BY <2>1, <2>2 DEF GattTypes
<1>2. Len(g_campaign) \in Nat /\ DOMAIN g_campaign = 1 .. Len(g_campaign)
  BY <1>1
<1>3. IsFiniteSet(1 .. Len(g_campaign)) /\ Cardinality(1 .. Len(g_campaign)) = Len(g_campaign)
  <2>1. 1 \in Int /\ Len(g_campaign) \in Int
    BY <1>2
  <2>2. /\ IsFiniteSet(1 .. Len(g_campaign))
        /\ Cardinality(1 .. Len(g_campaign))
             = IF 1 > Len(g_campaign) THEN 0 ELSE Len(g_campaign) - 1 + 1
    BY <2>1, FS_Interval
  <2> QED BY <1>2, <2>2
<1>4. \A i \in DOMAIN g_campaign : g_campaign[i] \in FaultSet
  BY <1>1
<1> QED BY <1>1, <1>2, <1>3, <1>4

LEMMA SetTypes ==
  ASSUME TaskTypes, NEW t \in Tasks, NEW r, TaskOK(r), Set(t, r)
  PROVE  TaskTypes'
<1>1. r \in TaskRec BY DEF TaskOK
<1>2. tasks' = [tasks EXCEPT ![t] = r] /\ tasks \in [Tasks -> TaskRec]
  BY DEF Set, TaskTypes
<1>3. tasks' \in [Tasks -> TaskRec] BY <1>1, <1>2
<1>4. ASSUME NEW u \in Tasks PROVE TaskOK(tasks'[u])
  <2>1. tasks'[u] = tasks[u] \/ tasks'[u] = r BY <1>2
  <2> QED BY <2>1, Zenon DEF TaskTypes
<1> QED BY <1>3, <1>4 DEF TaskTypes

\* r is s, as far as its work goes.
SameWork(r, s) ==
  /\ s \in TaskRec /\ s.pc = r.pc /\ s.pending = r.pending /\ s.total = r.total /\ s.done = r.done
  /\ s.pi = r.pi /\ s.f = r.f /\ s.todo = r.todo

LEMMA SameWorkOK ==
  ASSUME NEW r, NEW s, TaskOK(r), SameWork(r, s)
  PROVE  TaskOK(s)
BY DEF TaskOK, SameWork

LEMMA AllSameWork ==
  ASSUME TaskTypes, DOMAIN tasks' = Tasks, tasks' = [t \in Tasks |-> tasks'[t]],
         \A t \in Tasks : SameWork(tasks[t], tasks'[t])
  PROVE  TaskTypes'
<1>1. \A t \in Tasks : tasks'[t] \in TaskRec BY DEF SameWork
<1>2. tasks' \in [Tasks -> TaskRec] BY <1>1
<1>3. \A t \in Tasks : TaskOK(tasks'[t]) BY SameWorkOK DEF TaskTypes
<1> QED BY <1>2, <1>3 DEF TaskTypes

LEMMA DisturbTypes ==
  ASSUME TaskTypes
  PROVE  /\ DOMAIN Disturb = Tasks /\ Disturb \in [Tasks -> TaskRec]
         /\ \A t \in Tasks : SameWork(tasks[t], Disturb[t])
<1>1. \A t \in Tasks : tasks[t] \in TaskRec BY DEF TaskTypes
<1>2. ASSUME NEW t \in Tasks PROVE SameWork(tasks[t], Disturb[t])
  <2>1. Disturb[t] = tasks[t] \/ Disturb[t] = [tasks[t] EXCEPT !.calm = FALSE]
    BY DEF Disturb
  <2>2. [tasks[t] EXCEPT !.calm = FALSE] \in TaskRec BY <1>1 DEF TaskRec
  <2>3. SameWork(tasks[t], [tasks[t] EXCEPT !.calm = FALSE])
    BY <1>1, <2>2 DEF SameWork, TaskRec
  <2>4. SameWork(tasks[t], tasks[t]) BY <1>1 DEF SameWork
  <2> QED BY <2>1, <2>3, <2>4
<1>3. DOMAIN Disturb = Tasks BY DEF Disturb
<1>4. \A t \in Tasks : Disturb[t] \in TaskRec BY <1>2 DEF SameWork
<1>5. Disturb \in [Tasks -> TaskRec] BY <1>3, <1>4 DEF Disturb
<1> QED BY <1>2, <1>3, <1>5
-----------------------------------------------------------------------------
(* Steps and types                                                         *)

BenchTypes == FpgaTypes /\ DutTypes(Nat)

LEMMA BenchStays ==
  ASSUME EspTypes, UNCHANGED <<fpgaVars, dutVars>>
  PROVE  BenchTypes'
BY DEF EspTypes, BenchTypes, FpgaTypes, DutTypes, fpgaVars, dutVars

LEMMA GattStays ==
  ASSUME EspTypes, UNCHANGED <<buf, g_campaign, manual>>
  PROVE  GattTypes'
BY DEF EspTypes, GattTypes

LEMMA LogStays ==
  ASSUME EspTypes, UNCHANGED <<g_cov, log>>
  PROVE  LogTypes'
BY DEF EspTypes, LogTypes

LEMMA TasksStay ==
  ASSUME EspTypes, UNCHANGED tasks
  PROVE  TaskTypes'
BY DEF EspTypes, TaskTypes

LEMMA TaskOf ==
  ASSUME EspTypes, NEW t \in Tasks
  PROVE  TaskOK(tasks[t]) /\ tasks[t] \in TaskRec /\ t \in Nat
BY EspOK DEF EspTypes, TaskTypes, TaskOK, Tasks

\* The writes of arm(), one by one.
LEMMA ArmWriteOf ==
  ASSUME NEW f \in FaultSet
  PROVE  /\ \A n \in 1 .. 5 : ArmWrites(f)[n] \in RegWrite
         /\ Head(ArmWrites(f)) \in RegWrite
         /\ Tail(ArmWrites(f)) \in Seq(RegWrite) /\ Len(Tail(ArmWrites(f))) = 4
<1> DEFINE s == ArmWrites(f)
<1>1. s \in Seq(RegWrite) /\ Len(s) = 5 BY ArmWritesType
<1> HIDE DEF s
<1>2. ASSUME NEW n \in 1 .. 5 PROVE s[n] \in RegWrite
  <2>1. n \in 1 .. Len(s) BY <1>1
  <2> QED BY <2>1, <1>1, ElementOfSeq
<1>4. s # <<>> /\ Head(s) \in RegWrite
  BY <1>1
<1>3. Tail(s) \in Seq(RegWrite) /\ Len(Tail(s)) = 4
  BY <1>1
<1> QED BY <1>2, <1>3, <1>4 DEF s

LEMMA LinkGrows ==
  ASSUME EspTypes, NEW w \in RegWrite, link' = Append(link, w), UNCHANGED <<regs, dutVars>>
  PROVE  BenchTypes'
<1>1. link' \in Seq(RegWrite) BY DEF EspTypes, FpgaTypes
<1>2. FpgaTypes' BY <1>1 DEF EspTypes, FpgaTypes
<1>3. DutTypes(Nat)' BY DEF EspTypes, DutTypes, dutVars
<1> QED BY <1>2, <1>3 DEF BenchTypes

LEMMA BeginTypes ==
  ASSUME EspTypes, NEW t \in Tasks, Begin(t)
  PROVE  EspTypes'
<1> DEFINE r == [tasks[t] EXCEPT !.pc = "head", !.pending = DOMAIN g_campaign,
                                 !.total = Len(g_campaign)]
<1>0. /\ Set(t, r) /\ tasks[t].pc = "new"
      /\ UNCHANGED <<fpgaVars, dutVars>> /\ UNCHANGED <<buf, g_campaign, manual>>
      /\ UNCHANGED <<g_cov, log>>
  BY DEF Begin, gattVars
<1>1. TaskOK(tasks[t]) /\ tasks[t] \in TaskRec BY TaskOf
<1>2. /\ Len(g_campaign) \in Nat /\ DOMAIN g_campaign \subseteq Nat
      /\ IsFiniteSet(DOMAIN g_campaign) /\ Cardinality(DOMAIN g_campaign) = Len(g_campaign)
  BY CampaignShape DEF EspTypes
<1>3. tasks[t].done = 0 /\ tasks[t].done \in Nat
  BY <1>0, <1>1 DEF TaskOK
<1>4. r \in TaskRec BY <1>1, <1>2 DEF TaskRec
<1>5. /\ r.pc = "head" /\ r.pending = DOMAIN g_campaign /\ r.total = Len(g_campaign)
      /\ r.done = 0
  BY <1>1, <1>3 DEF TaskRec
<1>6. TaskOK(r) BY <1>2, <1>4, <1>5 DEF TaskOK, Busy
<1>7. TaskTypes' BY <1>0, <1>6, SetTypes DEF EspTypes
<1> QED BY <1>0, <1>7, BenchStays, GattStays, LogStays DEF EspTypes, BenchTypes

LEMMA PickTypes ==
  ASSUME EspTypes, NEW t \in Tasks, Pick(t)
  PROVE  EspTypes'
<1>0. /\ tasks[t].pc = "head" /\ UNCHANGED <<regs, dutVars>>
      /\ UNCHANGED <<buf, g_campaign, manual>> /\ UNCHANGED <<g_cov, log>>
  BY DEF Pick, gattVars
<1>1. PICK i \in tasks[t].pending :
        \E f \in IF i \in DOMAIN g_campaign THEN {g_campaign[i]} ELSE FaultSet :
          /\ link' = Append(link, Head(ArmWrites(f)))
          /\ Set(t, [tasks[t] EXCEPT !.pc = "arm", !.pi = i, !.f = f,
                                     !.todo = Tail(ArmWrites(f)),
                                     !.stale = i \notin DOMAIN g_campaign])
  BY DEF Pick
<1>2. PICK f \in IF i \in DOMAIN g_campaign THEN {g_campaign[i]} ELSE FaultSet :
        /\ link' = Append(link, Head(ArmWrites(f)))
        /\ Set(t, [tasks[t] EXCEPT !.pc = "arm", !.pi = i, !.f = f,
                                   !.todo = Tail(ArmWrites(f)),
                                   !.stale = i \notin DOMAIN g_campaign])
  BY <1>1
<1>3. f \in FaultSet BY CampaignShape DEF EspTypes
<1>4. TaskOK(tasks[t]) /\ tasks[t] \in TaskRec BY TaskOf
<1>5. PICK b \in BOOLEAN : b = (i \notin DOMAIN g_campaign) BY Zenon
<1> DEFINE r == [tasks[t] EXCEPT !.pc = "arm", !.pi = i, !.f = f, !.todo = Tail(ArmWrites(f)),
                                 !.stale = b]
<1>6. Set(t, r) BY <1>2, <1>5, Zenon
<1>7. i \in Nat BY <1>4 DEF TaskRec
<1>8. r \in TaskRec BY <1>3, <1>4, <1>7, ArmWriteOf DEF TaskRec, Busy
<1>9. /\ r.pc = "arm" /\ r.pending = tasks[t].pending /\ r.total = tasks[t].total
      /\ r.done = tasks[t].done /\ r.pi = i /\ r.f = f /\ r.todo = Tail(ArmWrites(f))
  BY <1>4 DEF TaskRec
<1>10. TaskOK(r)
  <2>1. Len(r.todo) \in 1 .. 4 BY <1>3, <1>9, ArmWriteOf
  <2> QED BY <2>1, <1>3, <1>4, <1>8, <1>9 DEF TaskOK, Busy
<1>11. TaskTypes' BY <1>6, <1>10, SetTypes DEF EspTypes
<1>12. BenchTypes' BY <1>0, <1>2, <1>3, ArmWriteOf, LinkGrows
<1> QED BY <1>0, <1>11, <1>12, GattStays, LogStays DEF EspTypes, BenchTypes

LEMMA ArmWriteTypes ==
  ASSUME EspTypes, NEW t \in Tasks, ArmWrite(t)
  PROVE  EspTypes'
<1> DEFINE rest == tasks[t].todo
<1>0. /\ tasks[t].pc = "arm" /\ UNCHANGED <<regs, dutVars>>
      /\ UNCHANGED <<buf, g_campaign, manual>> /\ UNCHANGED <<g_cov, log>>
      /\ Set(t, [tasks[t] EXCEPT !.todo = Tail(rest),
                                 !.pc = IF Len(rest) = 1 THEN "settle" ELSE "arm",
                                 !.ahead = IF Len(rest) = 1 THEN Len(link') ELSE 0])
  BY DEF ArmWrite, gattVars
<1>1. PICK f \in Deref(t) :
        link' = Append(link, IF Len(rest) = 1 THEN Head(rest)
                             ELSE <<Head(rest)[1], ArmWrites(f)[6 - Len(rest)][2]>>)
  BY DEF ArmWrite
<1>4. TaskOK(tasks[t]) /\ tasks[t] \in TaskRec BY TaskOf
<1>2. tasks[t].f \in FaultSet /\ Len(rest) \in 1 .. 4 /\ tasks[t].pi \in tasks[t].pending
  BY <1>0, <1>4 DEF TaskOK, Busy
<1>3. f \in FaultSet BY <1>2 DEF Deref
<1>5. rest \in Seq(RegWrite) BY <1>4 DEF TaskRec
<1> HIDE DEF rest
<1>6. Head(rest) \in RegWrite /\ Tail(rest) \in Seq(RegWrite) /\ Len(Tail(rest)) = Len(rest) - 1
  BY <1>2, <1>5
<1>7. PICK w \in RegWrite : link' = Append(link, w)
  <2>1. CASE Len(rest) = 1 BY <2>1, <1>1, <1>6
  <2>2. CASE Len(rest) # 1
    <3>1. 6 - Len(rest) \in 1 .. 5
      <4>1. PICK n \in 1 .. 4 : n = Len(rest) BY <1>2
      <4>2. 6 - n \in 1 .. 5 OBVIOUS
      <4> QED BY <4>1, <4>2
    <3>2. ArmWrites(f)[6 - Len(rest)] \in RegWrite BY <3>1, <1>3, ArmWriteOf
    <3>3. <<Head(rest)[1], ArmWrites(f)[6 - Len(rest)][2]>> \in RegWrite
      BY <3>2, <1>6 DEF RegWrite
    <3> QED BY <3>3, <2>2, <1>1
  <2> QED BY <2>1, <2>2
<1>8. BenchTypes' BY <1>0, <1>7, LinkGrows
<1>9. Len(link') \in Nat BY <1>8 DEF BenchTypes, FpgaTypes
<1>10. PICK n \in Nat : n = IF Len(rest) = 1 THEN Len(link') ELSE 0 BY <1>9
<1> DEFINE p == IF Len(rest) = 1 THEN "settle" ELSE "arm"
           r == [tasks[t] EXCEPT !.todo = Tail(rest), !.pc = p, !.ahead = n]
<1>11. Set(t, r) BY <1>0, <1>10 DEF rest
<1>12. p \in Busy /\ (p = "arm" => Len(Tail(rest)) \in 1 .. 4) /\ p \notin {"none", "new"}
  BY <1>2, <1>6 DEF Busy
<1> HIDE DEF p
<1>13. r \in TaskRec BY <1>4, <1>6, <1>12 DEF TaskRec
<1>14. /\ r.pc = p /\ r.pending = tasks[t].pending /\ r.total = tasks[t].total
      /\ r.done = tasks[t].done /\ r.pi = tasks[t].pi /\ r.f = tasks[t].f
      /\ r.todo = Tail(rest)
  BY <1>4 DEF TaskRec
<1>15. TaskOK(r) BY <1>2, <1>4, <1>12, <1>13, <1>14 DEF TaskOK
<1>16. TaskTypes' BY <1>11, <1>15, SetTypes DEF EspTypes
<1> QED BY <1>0, <1>8, <1>16, GattStays, LogStays DEF EspTypes, BenchTypes

LEMMA SettleTypes ==
  ASSUME EspTypes, NEW t \in Tasks, EspSettle(t)
  PROVE  EspTypes'
<1> DEFINE r == [tasks[t] EXCEPT !.pc = "send"]
<1>0. /\ Set(t, r) /\ tasks[t].pc = "settle"
      /\ UNCHANGED <<fpgaVars, dutVars>> /\ UNCHANGED <<buf, g_campaign, manual>>
      /\ UNCHANGED <<g_cov, log>>
  BY DEF EspSettle, gattVars
<1>1. TaskOK(tasks[t]) /\ tasks[t] \in TaskRec BY TaskOf
<1>2. r \in TaskRec /\ r.pc = "send" BY <1>1 DEF TaskRec, Busy
<1>3. TaskOK(r)
  <2>1. /\ r.pending = tasks[t].pending /\ r.total = tasks[t].total
        /\ r.done = tasks[t].done /\ r.pi = tasks[t].pi /\ r.f = tasks[t].f
    BY <1>1 DEF TaskRec
  <2> QED BY <2>1, <1>0, <1>1, <1>2 DEF TaskOK, Busy
<1>4. TaskTypes' BY <1>0, <1>3, SetTypes DEF EspTypes
<1> QED BY <1>0, <1>4, BenchStays, GattStays, LogStays DEF EspTypes, BenchTypes

LEMMA RunCmdType ==
  ASSUME NEW f \in FaultSet, NEW id \in Nat
  PROVE  RunCmd(f, id) \in Seq(Byte(Nat))
<1>1. f.proto \in {"spi", "i2c", "can"} BY FaultTypes DEF Protocols
<1>2. ProtoCmd(f.proto) \in {"S", "I", "C"}
  <2>1. CASE f.proto = "spi" BY <2>1 DEF ProtoCmd
  <2>2. CASE f.proto = "i2c" BY <2>2 DEF ProtoCmd
  <2>3. CASE f.proto = "can" BY <2>3 DEF ProtoCmd
  <2> QED BY <1>1, <2>1, <2>2, <2>3
<1>3. [c |-> ProtoCmd(f.proto), by |-> 0] \in Byte(Nat) BY <1>2 DEF Byte
<1>4. [c |-> "R", by |-> id] \in Byte(Nat) BY DEF Byte
<1> QED BY <1>3, <1>4 DEF RunCmd

LEMMA SendTypes ==
  ASSUME EspTypes, NEW t \in Tasks, EspSend(t)
  PROVE  EspTypes'
<1>0. /\ tasks[t].pc = "send" /\ UNCHANGED <<fpgaVars, dr, mode, phase, held, txn, lines, alive, presses>>
      /\ UNCHANGED <<buf, g_campaign, manual>> /\ UNCHANGED <<g_cov, log>>
  BY DEF EspSend, gattVars
<1>1. PICK f \in Deref(t) :
        /\ wireIn' = wireIn \o RunCmd(f, RunId(t, tasks[t].pi))
        /\ Set(t, [tasks[t] EXCEPT !.pc = "read", !.f = f])
  BY DEF EspSend
<1>2. TaskOK(tasks[t]) /\ tasks[t] \in TaskRec /\ t \in Nat BY TaskOf
<1>3. tasks[t].f \in FaultSet /\ tasks[t].pi \in tasks[t].pending /\ tasks[t].pi \in Nat
  BY <1>0, <1>2 DEF TaskOK, Busy, TaskRec
<1>4. f \in FaultSet BY <1>3 DEF Deref
<1>5. RunId(t, tasks[t].pi) \in Nat BY <1>2, <1>3 DEF RunId
<1>6. RunCmd(f, RunId(t, tasks[t].pi)) \in Seq(Byte(Nat)) BY <1>4, <1>5, RunCmdType
<1>7. wireIn' \in Seq(Byte(Nat)) BY <1>1, <1>6 DEF EspTypes, DutTypes
<1>8. BenchTypes' BY <1>0, <1>7 DEF EspTypes, BenchTypes, FpgaTypes, DutTypes, fpgaVars
<1> DEFINE r == [tasks[t] EXCEPT !.pc = "read", !.f = f]
<1>9. r \in TaskRec /\ r.pc = "read" BY <1>2, <1>4 DEF TaskRec, Busy
<1>10. TaskOK(r)
  <2>1. /\ r.pending = tasks[t].pending /\ r.total = tasks[t].total
        /\ r.done = tasks[t].done /\ r.pi = tasks[t].pi /\ r.f = f
    BY <1>2 DEF TaskRec
  <2> QED BY <2>1, <1>2, <1>3, <1>4, <1>9 DEF TaskOK, Busy
<1>11. TaskTypes' BY <1>1, <1>10, SetTypes DEF EspTypes
<1> QED BY <1>0, <1>8, <1>11, GattStays, LogStays DEF EspTypes, BenchTypes

\* What recording an answer does to the task and to the log.
LEMMA RecordTypes ==
  ASSUME EspTypes, NEW t \in Tasks, NEW x \in Answer(Nat), tasks[t].pc = "read",
         EspRecord(t, x)
  PROVE  TaskTypes' /\ LogTypes'
<1>1. PICK f \in Deref(t) :
        /\ \/ g_cov' = [g_cov EXCEPT ![Key(f)] = @ + 1]
           \/ UNCHANGED g_cov
        /\ log' = IF ~tasks[t].calm THEN log
                  ELSE Append(log, [t |-> t, idx |-> tasks[t].pi, f |-> tasks[t].f,
                                    pass |-> Evaluate(f, x.obs), txn |-> x])
        /\ Set(t, [tasks[t] EXCEPT !.pc = "head", !.done = tasks[t].done + 1,
                                   !.pending = @ \ {tasks[t].pi}])
  BY DEF EspRecord
<1>2. TaskOK(tasks[t]) /\ tasks[t] \in TaskRec BY TaskOf
<1>3. tasks[t].f \in FaultSet /\ tasks[t].pi \in tasks[t].pending /\ tasks[t].pi \in Nat
  BY <1>2 DEF TaskOK, Busy, TaskRec
<1>4. f \in FaultSet BY <1>3 DEF Deref
<1>5. g_cov' \in [Keys -> Nat]
  <2>1. g_cov \in [Keys -> Nat] /\ Key(f) \in Keys BY <1>4, KeyType DEF EspTypes, LogTypes
  <2> QED BY <1>1, <2>1
<1>6. log' \in Seq(Entry)
  <2>1. log \in Seq(Entry) BY DEF EspTypes, LogTypes
  <2>2. x.obs \in BOOLEAN BY DEF Answer
  <2>3. PICK p \in BOOLEAN : p = Evaluate(f, x.obs) BY <1>4, <2>2, EvaluateType
  <2>4. [t |-> t, idx |-> tasks[t].pi, f |-> tasks[t].f, pass |-> p, txn |-> x] \in Entry
    BY <1>3 DEF Entry
  <2>5. \/ log' = log
        \/ log' = Append(log, [t |-> t, idx |-> tasks[t].pi, f |-> tasks[t].f, pass |-> p, txn |-> x])
    BY <1>1, <2>3, Zenon
  <2> QED BY <2>1, <2>4, <2>5
<1> DEFINE r == [tasks[t] EXCEPT !.pc = "head", !.done = tasks[t].done + 1,
                                 !.pending = @ \ {tasks[t].pi}]
<1>7. r \in TaskRec
  <2>1. tasks[t].pending \ {tasks[t].pi} \in SUBSET Nat /\ tasks[t].done + 1 \in Nat
    BY <1>2 DEF TaskRec
  <2> QED BY <2>1, <1>2 DEF TaskRec
<1>8. /\ r.pc = "head" /\ r.pending = tasks[t].pending \ {tasks[t].pi}
      /\ r.total = tasks[t].total /\ r.done = tasks[t].done + 1
  BY <1>2 DEF TaskRec
<1>9. /\ IsFiniteSet(r.pending) /\ Cardinality(r.pending) = Cardinality(tasks[t].pending) - 1
      /\ Cardinality(tasks[t].pending) \in Nat
  <2>1. IsFiniteSet(tasks[t].pending) BY <1>2 DEF TaskOK
  <2> HIDE DEF r
  <2> QED BY <2>1, <1>3, <1>8, FS_RemoveElement, FS_CardinalityType
<1>10. TaskOK(r)
  <2>1. tasks[t].done \in Nat BY <1>2 DEF TaskRec
  <2>2. tasks[t].done + Cardinality(tasks[t].pending) = tasks[t].total BY <1>2 DEF TaskOK
  <2>3. r.done + Cardinality(r.pending) = r.total BY <2>1, <2>2, <1>8, <1>9
  <2> QED BY <2>3, <1>7, <1>8, <1>9 DEF TaskOK, Busy
<1>11. TaskTypes' BY <1>1, <1>10, SetTypes DEF EspTypes
<1> QED BY <1>5, <1>6, <1>11 DEF LogTypes

LEMMA ReceiveTypes ==
  ASSUME EspTypes, NEW t \in Tasks, EspReceive(t) \/ EspTimeout(t)
  PROVE  EspTypes'
<1>1. CASE EspReceive(t)
  <2>1. /\ lines # <<>> /\ EspRecord(t, Head(lines)) /\ tasks[t].pc = "read"
        /\ UNCHANGED <<fpgaVars, wireIn, dr, mode, phase, held, txn, alive, presses>>
        /\ UNCHANGED <<buf, g_campaign, manual>>
    BY <1>1 DEF EspReceive, gattVars
  <2>2. PICK k \in 1 .. Len(lines) : lines' = SubSeq(lines, k + 1, Len(lines))
    BY <1>1 DEF EspReceive
  <2>3. lines \in Seq(Answer(Nat)) BY DEF EspTypes, DutTypes
  <2>4. Head(lines) \in Answer(Nat) BY <2>1, <2>3
  <2>5. lines' \in Seq(Answer(Nat)) BY <2>2, <2>3
  <2>6. BenchTypes' BY <2>1, <2>5 DEF EspTypes, BenchTypes, FpgaTypes, DutTypes, fpgaVars
  <2>7. TaskTypes' /\ LogTypes' BY <2>1, <2>4, RecordTypes
  <2> QED BY <2>1, <2>6, <2>7, GattStays DEF EspTypes, BenchTypes
<1>2. CASE EspTimeout(t)
  <2>1. /\ EspRecord(t, NoTxn) /\ tasks[t].pc = "read"
        /\ UNCHANGED <<fpgaVars, dutVars>> /\ UNCHANGED <<buf, g_campaign, manual>>
    BY <1>2 DEF EspTimeout, gattVars
  <2>2. NoTxn \in Answer(Nat) BY NoAnswerType
  <2>3. TaskTypes' /\ LogTypes' BY <2>1, <2>2, RecordTypes
  <2> QED BY <2>1, <2>3, BenchStays, GattStays DEF EspTypes, BenchTypes
<1> QED BY <1>1, <1>2

LEMMA EndingTypes ==
  ASSUME EspTypes, NEW t \in Tasks, Done(t) \/ End(t)
  PROVE  EspTypes'
<1>0. PICK p \in {"done", "gone"} : Set(t, [tasks[t] EXCEPT !.pc = p])
  BY DEF Done, End
<1>1. /\ UNCHANGED <<fpgaVars, dutVars>> /\ UNCHANGED <<buf, g_campaign, manual>>
      /\ UNCHANGED <<g_cov, log>>
  BY DEF Done, End, gattVars
<1> DEFINE r == [tasks[t] EXCEPT !.pc = p]
<1>2. TaskOK(tasks[t]) /\ tasks[t] \in TaskRec BY TaskOf
<1>3. r \in TaskRec /\ r.pc = p BY <1>2 DEF TaskRec
<1>4. TaskOK(r)
  <2>1. /\ r.pending = tasks[t].pending /\ r.total = tasks[t].total /\ r.done = tasks[t].done
    BY <1>2 DEF TaskRec
  <2> QED BY <2>1, <1>2, <1>3 DEF TaskOK, Busy
<1>5. TaskTypes' BY <1>0, <1>4, SetTypes DEF EspTypes
<1> QED BY <1>1, <1>5, BenchStays, GattStays, LogStays DEF EspTypes, BenchTypes

\* What is left of the two links after a reset.
LEMMA Prefix ==
  ASSUME NEW S, NEW s \in Seq(S), NEW k \in 0 .. Len(s)
  PROVE  SubSeq(s, 1, k) \in Seq(S)
OBVIOUS

LEMMA RebootTypes ==
  ASSUME EspTypes, Reboot
  PROVE  EspTypes'
<1>1. PICK k \in 0 .. Len(link) : link' = SubSeq(link, 1, k) BY DEF Reboot
<1>2. PICK n \in 0 .. Len(wireIn) : wireIn' = SubSeq(wireIn, 1, n) BY DEF Reboot
<1>3. link' \in Seq(RegWrite) /\ wireIn' \in Seq(Byte(Nat))
  BY <1>1, <1>2, Prefix DEF EspTypes, FpgaTypes, DutTypes
<1>4. /\ UNCHANGED <<log, regs, dr, mode, phase, held, txn, lines, alive, presses>>
      /\ buf' = <<>> /\ g_campaign' = <<>> /\ manual' = <<>> /\ g_cov' = [key \in Keys |-> 0]
      /\ tasks' = [t \in Tasks |-> IF Alive(t) THEN [tasks[t] EXCEPT !.pc = "killed"]
                                   ELSE tasks[t]]
  BY DEF Reboot
<1>5. BenchTypes' BY <1>3, <1>4 DEF EspTypes, BenchTypes, FpgaTypes, DutTypes
<1>6. GattTypes' BY <1>4 DEF GattTypes
<1>7. LogTypes' BY <1>4 DEF EspTypes, LogTypes
<1>8. TaskTypes'
  <2>1. ASSUME NEW t \in Tasks PROVE TaskOK(tasks'[t])
    <3>1. TaskOK(tasks[t]) /\ tasks[t] \in TaskRec BY TaskOf
    <3> DEFINE r == [tasks[t] EXCEPT !.pc = "killed"]
    <3>2. r \in TaskRec /\ r.pc = "killed" BY <3>1 DEF TaskRec
    <3>3. /\ r.pending = tasks[t].pending /\ r.total = tasks[t].total
          /\ r.done = tasks[t].done
      BY <3>1 DEF TaskRec
    <3>4. TaskOK(r) BY <3>1, <3>2, <3>3 DEF TaskOK, Busy
    <3> QED BY <3>1, <3>4, <1>4
  <2>2. \A t \in Tasks : tasks'[t] \in TaskRec BY <2>1 DEF TaskOK
  <2>3. tasks' \in [Tasks -> TaskRec] BY <2>2, <1>4
  <2> QED BY <2>1, <2>3 DEF TaskTypes
<1> QED BY <1>5, <1>6, <1>7, <1>8 DEF EspTypes, BenchTypes

LEMMA ApplyTypes ==
  ASSUME EspTypes, EspApply
  PROVE  EspTypes'
<1>1. /\ RigNext /\ UNCHANGED <<buf, g_campaign, manual>> /\ UNCHANGED <<g_cov, log>>
      /\ tasks' = [t \in Tasks |-> IF tasks[t].ahead > 0 THEN [tasks[t] EXCEPT !.ahead = @ - 1]
                                   ELSE tasks[t]]
  BY DEF EspApply, RigNext, gattVars
<1>2. BenchTypes' BY <1>1, RigTypes DEF EspTypes, BenchTypes
<1>3. ASSUME NEW t \in Tasks PROVE SameWork(tasks[t], tasks'[t])
  <2>1. tasks[t] \in TaskRec BY TaskOf
  <2>2. CASE tasks[t].ahead > 0
    <3>1. tasks[t].ahead - 1 \in Nat BY <2>1, <2>2 DEF TaskRec
    <3>2. tasks'[t] = [tasks[t] EXCEPT !.ahead = tasks[t].ahead - 1] BY <2>2, <1>1
    <3> QED BY <2>1, <3>1, <3>2 DEF SameWork, TaskRec
  <2>3. CASE ~(tasks[t].ahead > 0)
    BY <2>1, <2>3, <1>1 DEF SameWork
  <2> QED BY <2>2, <2>3
<1>4. DOMAIN tasks' = Tasks /\ tasks' = [t \in Tasks |-> tasks'[t]] BY <1>1
<1>5. TaskTypes' BY <1>3, <1>4, AllSameWork DEF EspTypes
<1> QED BY <1>1, <1>2, <1>5, GattStays, LogStays DEF EspTypes, BenchTypes

\* Only the bench moves.
LEMMA DutTypesStep ==
  ASSUME EspTypes, DutStep, UNCHANGED espVars
  PROVE  EspTypes'
<1>1. RigNext BY DEF DutStep, RigNext
<1>2. BenchTypes' BY <1>1, RigTypes DEF EspTypes, BenchTypes
<1>3. UNCHANGED <<buf, g_campaign, manual>> /\ UNCHANGED <<g_cov, log>> /\ UNCHANGED tasks
  BY DEF espVars, gattVars
<1> QED BY <1>2, <1>3, GattStays, LogStays, TasksStay DEF EspTypes, BenchTypes

LEMMA OtherTypes ==
  ASSUME EspTypes, SplitLine \/ ManualWrite \/ Boot
  PROVE  EspTypes'
<1>1. CASE SplitLine
  <2>1. /\ lines' = Tail(lines) /\ lines # <<>>
        /\ UNCHANGED <<buf, g_campaign, manual>> /\ UNCHANGED <<g_cov, log>> /\ UNCHANGED tasks
        /\ UNCHANGED <<link, regs, wireIn, dr, mode, phase, held, txn, alive, presses>>
    BY <1>1 DEF SplitLine, espVars, gattVars, fpgaVars
  <2>2. lines' \in Seq(Answer(Nat)) BY <2>1 DEF EspTypes, DutTypes
  <2>3. BenchTypes' BY <2>1, <2>2 DEF EspTypes, BenchTypes, FpgaTypes, DutTypes
  <2> QED BY <2>1, <2>3, GattStays, LogStays, TasksStay DEF EspTypes, BenchTypes
<1>2. CASE ManualWrite
  <2>1. /\ manual # <<>> /\ link' = Append(link, Head(manual)) /\ manual' = Tail(manual)
        /\ UNCHANGED <<buf, g_campaign, regs, dutVars>> /\ UNCHANGED <<g_cov, log>>
        /\ UNCHANGED tasks
    BY <1>2 DEF ManualWrite
  <2>2. Head(manual) \in RegWrite /\ manual' \in Seq(RegWrite)
    BY <2>1 DEF EspTypes, GattTypes
  <2>3. BenchTypes' BY <2>1, <2>2, LinkGrows
  <2>4. GattTypes' BY <2>1, <2>2 DEF EspTypes, GattTypes
  <2> QED BY <2>1, <2>3, <2>4, LogStays, TasksStay DEF EspTypes, BenchTypes
<1>3. CASE Boot
  <2>1. /\ lines' = <<>> /\ UNCHANGED <<link, regs, wireIn, dr, mode, phase, held, txn, alive, presses>>
        /\ UNCHANGED <<buf, g_campaign, manual>> /\ UNCHANGED <<g_cov, log>> /\ UNCHANGED tasks
    BY <1>3 DEF Boot, fpgaVars
  <2>2. BenchTypes' BY <2>1 DEF EspTypes, BenchTypes, FpgaTypes, DutTypes
  <2> QED BY <2>1, <2>2, GattStays, LogStays, TasksStay DEF EspTypes, BenchTypes
<1> QED BY <1>1, <1>2, <1>3

LEMMA EspStepTypes ==
  ASSUME EspTypes, EspNext
  PROVE  EspTypes'
<1>1. CASE \E t \in Tasks : TaskStep(t)
  BY <1>1, BeginTypes, PickTypes, ArmWriteTypes, SettleTypes, SendTypes, ReceiveTypes,
     EndingTypes DEF TaskStep
<1>2. CASE \E t \in Tasks : Trap(t)
  BY <1>2, RebootTypes DEF Trap
<1>3. CASE SplitLine \/ ManualWrite \/ Boot
  BY <1>3, OtherTypes
<1>4. CASE EspApply
  BY <1>4, ApplyTypes
<1>5. CASE DutStep /\ UNCHANGED espVars
  BY <1>5, DutTypesStep
<1> QED BY <1>1, <1>2, <1>3, <1>4, <1>5 DEF EspNext

-----------------------------------------------------------------------------
(* The phone's steps and types                                             *)

LEMMA AppLeaves ==
  ASSUME EspTypes, UNCHANGED <<fpgaVars, dutVars>>, UNCHANGED <<buf, g_campaign, manual>>,
         UNCHANGED <<g_cov, log>>, UNCHANGED tasks
  PROVE  EspTypes'
BY BenchStays, GattStays, LogStays, TasksStay DEF EspTypes, BenchTypes

LEMMA ChunkTypes ==
  ASSUME EspTypes, NEW c \in Campaigns, NEW k \in 1 .. CHUNKS, Chunk(c, k)
  PROVE  EspTypes'
<1>1. /\ buf' = Append(buf, <<c, k>>) /\ UNCHANGED <<fpgaVars, dutVars>>
      /\ UNCHANGED <<g_campaign, manual>> /\ UNCHANGED <<g_cov, log>> /\ UNCHANGED tasks
  BY DEF Chunk
<1>2. GattTypes' BY <1>1 DEF EspTypes, GattTypes
<1> QED BY <1>1, <1>2, BenchStays, LogStays, TasksStay DEF EspTypes, BenchTypes

LEMMA DisturbedTypes ==
  ASSUME EspTypes, tasks' = Disturb
  PROVE  TaskTypes'
<1>1. /\ DOMAIN Disturb = Tasks /\ Disturb \in [Tasks -> TaskRec]
      /\ \A t \in Tasks : SameWork(tasks[t], Disturb[t])
  BY DisturbTypes DEF EspTypes
<1> QED BY <1>1, AllSameWork DEF EspTypes

LEMMA EndOfCampaignTypes ==
  ASSUME EspTypes, EndOfCampaign
  PROVE  EspTypes'
<1>1. CASE Throws(buf) BY <1>1, RebootTypes DEF EndOfCampaign
<1>2. CASE ~Throws(buf)
  <2>1. /\ g_campaign' = (IF buf = <<>> THEN <<>> ELSE buf[1][1]) /\ buf' = <<>>
        /\ tasks' = [t \in Tasks |-> [Disturb[t] EXCEPT !.stale = Alive(t)]]
        /\ UNCHANGED <<fpgaVars, dutVars>> /\ UNCHANGED manual /\ UNCHANGED <<g_cov, log>>
    BY <1>2 DEF EndOfCampaign
  <2>2. g_campaign' \in Campaigns \cup {<<>>}
    <3>1. CASE buf = <<>> BY <3>1, <2>1
    <3>2. CASE buf # <<>>
      <4>1. buf \in Seq(Campaigns \X (1 .. CHUNKS)) BY DEF EspTypes, GattTypes
      <4>2. buf[1] \in Campaigns \X (1 .. CHUNKS) BY <3>2, <4>1
      <4> QED BY <3>2, <4>2, <2>1
    <3> QED BY <3>1, <3>2
  <2>3. GattTypes' BY <2>1, <2>2 DEF EspTypes, GattTypes
  <2>4. ASSUME NEW t \in Tasks PROVE SameWork(tasks[t], tasks'[t])
    <3>1. SameWork(tasks[t], Disturb[t]) BY DisturbTypes DEF EspTypes
    <3>2. PICK b \in BOOLEAN : b = Alive(t) BY Zenon DEF Alive
    <3>3. tasks'[t] = [Disturb[t] EXCEPT !.stale = b] BY <2>1, <3>2, Zenon
    <3> QED BY <3>1, <3>3 DEF SameWork, TaskRec
  <2>5. DOMAIN tasks' = Tasks /\ tasks' = [t \in Tasks |-> tasks'[t]] BY <2>1
  <2>6. TaskTypes' BY <2>4, <2>5, AllSameWork DEF EspTypes
  <2> QED BY <2>1, <2>3, <2>6, BenchStays, LogStays DEF EspTypes, BenchTypes
<1> QED BY <1>1, <1>2

\* The task that START creates.
Fresh(b) == [NoTask EXCEPT !.pc = "new", !.calm = b]

LEMMA FreshOK ==
  ASSUME NEW b \in BOOLEAN
  PROVE  TaskOK(Fresh(b)) /\ Fresh(b).pc = "new" /\ Fresh(b).calm = b
<1>1. NoTask \in TaskRec /\ IsFiniteSet(NoTask.pending)
      /\ NoTask.done + Cardinality(NoTask.pending) = NoTask.total
  BY NoTaskOK DEF TaskOK
<1>2. Fresh(b) \in TaskRec BY <1>1 DEF TaskRec, Fresh
<1>3. /\ Fresh(b).pc = "new" /\ Fresh(b).calm = b /\ Fresh(b).pending = NoTask.pending
      /\ Fresh(b).total = NoTask.total /\ Fresh(b).done = NoTask.done /\ NoTask.done = 0
  BY DEF Fresh, NoTask
<1> QED BY <1>1, <1>2, <1>3 DEF TaskOK, Busy

LEMMA StartTypes ==
  ASSUME EspTypes, OnStart
  PROVE  EspTypes'
<1>1. /\ UNCHANGED <<fpgaVars, dutVars>> /\ UNCHANGED <<buf, g_campaign, manual>>
      /\ UNCHANGED <<g_cov, log>>
  BY DEF OnStart
<1>2. CASE ~g_running /\ g_campaign # <<>>
  <2>1. PICK t \in Unused :
          tasks' = [Disturb EXCEPT ![t] = [NoTask EXCEPT !.pc = "new",
                                                         !.calm = Others(t) = {} /\ AtRest]]
    BY <1>2 DEF OnStart
  <2>2. PICK b \in BOOLEAN : b = (Others(t) = {} /\ AtRest) BY Zenon
  <2>3. tasks' = [Disturb EXCEPT ![t] = Fresh(b)] BY <2>1, <2>2, Zenon DEF Fresh
  <2>4. /\ DOMAIN Disturb = Tasks /\ Disturb \in [Tasks -> TaskRec]
        /\ \A u \in Tasks : SameWork(tasks[u], Disturb[u])
    BY DisturbTypes DEF EspTypes
  <2>5. TaskOK(Fresh(b)) BY FreshOK
  <2>6. ASSUME NEW u \in Tasks PROVE TaskOK(tasks'[u])
    <3>1. TaskOK(Disturb[u]) BY <2>4, TaskOf, SameWorkOK
    <3>2. tasks'[u] = Disturb[u] \/ tasks'[u] = Fresh(b) BY <2>3, <2>4
    <3> QED BY <3>1, <3>2, <2>5
  <2>7. \A u \in Tasks : tasks'[u] \in TaskRec BY <2>6 DEF TaskOK
  <2>8. tasks' \in [Tasks -> TaskRec] BY <2>3, <2>4, <2>7
  <2>9. TaskTypes' BY <2>6, <2>8 DEF TaskTypes
  <2> QED BY <1>1, <2>9, BenchStays, GattStays, LogStays DEF EspTypes, BenchTypes
<1>3. CASE ~(~g_running /\ g_campaign # <<>>)
  <2>1. UNCHANGED tasks BY <1>3 DEF OnStart
  <2> QED BY <1>1, <2>1, AppLeaves
<1> QED BY <1>2, <1>3

LEMMA StopTypes ==
  ASSUME EspTypes, OnStop
  PROVE  EspTypes'
<1>1. /\ UNCHANGED <<fpgaVars, dutVars>> /\ UNCHANGED <<buf, g_campaign, manual>>
      /\ UNCHANGED <<g_cov, log>>
      /\ tasks' = [t \in Tasks |-> [tasks[t] EXCEPT !.stopped = @ \/ Alive(t)]]
  BY DEF OnStop
<1>2. ASSUME NEW t \in Tasks PROVE SameWork(tasks[t], tasks'[t])
  <2>1. tasks[t] \in TaskRec BY TaskOf
  <2>2. PICK b \in BOOLEAN : b = (tasks[t].stopped \/ Alive(t)) BY Zenon
  <2>3. tasks'[t] = [tasks[t] EXCEPT !.stopped = b] BY <1>1, <2>2, Zenon
  <2> QED BY <2>1, <2>3 DEF SameWork, TaskRec
<1>3. DOMAIN tasks' = Tasks /\ tasks' = [t \in Tasks |-> tasks'[t]] BY <1>1
<1>4. TaskTypes' BY <1>2, <1>3, AllSameWork DEF EspTypes
<1> QED BY <1>1, <1>4, BenchStays, GattStays, LogStays DEF EspTypes, BenchTypes

LEMMA AppStepTypes ==
  ASSUME EspTypes, AppTypes, App
  PROVE  EspTypes'
<1>1. CASE AppConnect \/ PushAndRun \/ PushFails \/ Hear \/ OpenRun \/ Back \/ Drop \/ Restart
  <2>1. /\ UNCHANGED <<fpgaVars, dutVars>> /\ UNCHANGED <<buf, g_campaign, manual>>
        /\ UNCHANGED <<g_cov, log>> /\ UNCHANGED tasks
    BY <1>1 DEF AppConnect, PushAndRun, PushFails, Hear, OpenRun, Back, Drop, Restart, Connect,
                Disconnect, espVars, gattVars
  <2> QED BY <2>1, AppLeaves
<1>2. CASE Write
  <2>1. screen = "push" /\ step.n \in 1 .. CHUNKS + 2 /\ picked \in Campaigns
    <3>1. screen = "push" BY <1>2 DEF Write
    <3>2. step.n \in 0 .. CHUNKS + 2 /\ step.n # 0 /\ picked \in Campaigns
      BY <3>1 DEF AppTypes
    <3> QED BY <3>1, <3>2
  <2>2. CASE step.n <= CHUNKS /\ Chunk(picked, step.n)
    <3>1. step.n \in 1 .. CHUNKS BY <2>1, <2>2, EspOK
    <3> QED BY <3>1, <2>1, <2>2, ChunkTypes
  <2> QED BY <1>2, <2>2, EndOfCampaignTypes, StartTypes DEF Write
<1>3. CASE PressStop
  BY <1>3, StopTypes DEF PressStop
<1>4. CASE ArmManual
  <2>1. PICK f \in Manual : OnControlArm(f) BY <1>4 DEF ArmManual
  <2>2. /\ manual' = ArmWrites(f) /\ tasks' = Disturb /\ UNCHANGED <<fpgaVars, dutVars>>
        /\ UNCHANGED <<buf, g_campaign>> /\ UNCHANGED <<g_cov, log>>
    BY <2>1 DEF OnControlArm
  <2>3. manual' \in Seq(RegWrite) BY <2>2, ArmWritesType, StandaloneOK
  <2>4. GattTypes' BY <2>2, <2>3 DEF EspTypes, GattTypes
  <2> QED BY <2>2, <2>4, DisturbedTypes, BenchStays, LogStays DEF EspTypes, BenchTypes
<1> QED BY <1>1, <1>2, <1>3, <1>4 DEF App

\* The app's own variables.
LEMMA AppKeepsTypes ==
  ASSUME AppTypes, App
  PROVE  AppTypes'
<1> USE DEF AppTypes
<1>c. CHUNKS \in Nat \ {0} BY EspOK
<1>0. [n |-> 0, sent |-> FALSE] \in [n : 0 .. CHUNKS + 2, sent : BOOLEAN]
      /\ [n |-> 1, sent |-> FALSE] \in [n : 0 .. CHUNKS + 2, sent : BOOLEAN]
  BY <1>c
<1>1. CASE AppConnect \/ OpenRun \/ PressStop \/ Back \/ ArmManual
  BY <1>1 DEF AppConnect, OpenRun, PressStop, Back, ArmManual
<1>2. CASE PushAndRun
  BY <1>0, <1>2 DEF PushAndRun
<1>3. CASE Write
  BY <1>3 DEF Write
<1>4. CASE PushFails \/ Restart
  <2>1. screen' \in {"campaign", "connect"} /\ step' = [n |-> 0, sent |-> FALSE]
    BY <1>4 DEF PushFails, Restart
  <2>2. step'.n = 0 /\ screen' # "push" BY <2>1
  <2> QED BY <1>0, <2>1, <2>2
<1>5. CASE Drop
  BY <1>5 DEF Drop
<1>6. CASE Hear
  <2>1. /\ UNCHANGED picked
        /\ \/ UNCHANGED <<screen, step>>
           \/ screen = "push" /\ screen' = "opening" /\ step' = [n |-> 0, sent |-> FALSE]
           \/ /\ screen = "push" /\ screen' = screen /\ step.n # CHUNKS + 2
              /\ step' = [n |-> step.n + 1, sent |-> FALSE]
    BY <1>6 DEF Hear
  <2>2. CASE UNCHANGED <<screen, step>> BY <2>1, <2>2
  <2>3. CASE screen = "push" /\ screen' = "opening" /\ step' = [n |-> 0, sent |-> FALSE]
    BY <2>1, <2>3, <1>0
  <2>4. CASE /\ screen = "push" /\ screen' = screen /\ step.n # CHUNKS + 2
             /\ step' = [n |-> step.n + 1, sent |-> FALSE]
    <3>1. step.n \in 0 .. CHUNKS + 2 /\ step.n # 0 BY <2>4
    <3>2. step.n + 1 \in 0 .. CHUNKS + 2 /\ step.n + 1 # 0 BY <1>c, <2>4, <3>1
    <3>3. step' \in [n : 0 .. CHUNKS + 2, sent : BOOLEAN] /\ step'.n # 0 BY <2>4, <3>2
    <3> QED BY <2>1, <2>4, <3>3
  <2> QED BY <2>1, <2>2, <2>3, <2>4
<1> QED BY <1>1, <1>2, <1>3, <1>4, <1>5, <1>6 DEF App

\* The flags of the controller are raised and lowered, nothing else.
SameFlag(v, w) == w = v \/ w = TRUE \/ w = FALSE
FlagsMove == SameFlag(on, on') /\ SameFlag(g_running, g_running') /\ SameFlag(g_conn, g_conn')

LEMMA FlagTypes ==
  ASSUME NEW v \in BOOLEAN, NEW w, SameFlag(v, w)
  PROVE  w \in BOOLEAN
BY Zenon DEF SameFlag

LEMMA FlagStep ==
  ASSUME App \/ EspNext
  PROVE  FlagsMove
<1>1. CASE App
  <2>1. CASE AppConnect BY <2>1, Zenon DEF AppConnect, Connect, FlagsMove, SameFlag
  <2>2. CASE PushAndRun \/ PushFails \/ OpenRun \/ Back \/ Restart \/ Hear
    <3>1. UNCHANGED <<on, g_running, g_conn>>
      BY <2>2, Zenon DEF PushAndRun, PushFails, OpenRun, Back, Restart, Hear, espVars, gattVars
    <3> QED BY <3>1, Zenon DEF FlagsMove, SameFlag
  <2>3. CASE Write
    <3>1. Chunk(picked, step.n) => UNCHANGED <<on, g_running, g_conn>>
      BY Zenon DEF Chunk
    <3>2. EndOfCampaign /\ ~Throws(buf) => UNCHANGED <<on, g_running, g_conn>>
      BY Zenon DEF EndOfCampaign
    <3>3. EndOfCampaign /\ Throws(buf) => on' = FALSE /\ g_running' = FALSE /\ g_conn' = FALSE
      BY Zenon DEF EndOfCampaign, Reboot
    <3>4. OnStart => (g_running' = TRUE \/ g_running' = g_running) /\ UNCHANGED <<on, g_conn>>
      BY Zenon DEF OnStart
    <3> QED BY <2>3, <3>1, <3>2, <3>3, <3>4, Zenon DEF Write, FlagsMove, SameFlag
  <2>4. CASE PressStop BY <2>4, Zenon DEF PressStop, OnStop, FlagsMove, SameFlag
  <2>5. CASE ArmManual BY <2>5, Zenon DEF ArmManual, OnControlArm, FlagsMove, SameFlag
  <2>6. CASE Drop BY <2>6, Zenon DEF Drop, Disconnect, FlagsMove, SameFlag
  <2> QED BY <1>1, <2>1, <2>2, <2>3, <2>4, <2>5, <2>6 DEF App
<1>2. CASE EspNext
  <2>1. CASE \E t \in Tasks : TaskStep(t)
    <3>1. PICK t \in Tasks : TaskStep(t) BY <2>1
    <3>2. End(t) => g_running' = FALSE /\ UNCHANGED <<on, g_conn>> BY Zenon DEF End
    <3>3. TaskStep(t) /\ ~End(t) => UNCHANGED <<on, g_running, g_conn>>
      BY Zenon DEF TaskStep, Begin, Pick, ArmWrite, EspSettle, EspSend, EspReceive, EspTimeout,
                   Done, gattVars
    <3> QED BY <3>1, <3>2, <3>3, Zenon DEF FlagsMove, SameFlag
  <2>2. CASE \E t \in Tasks : Trap(t)
    BY <2>2, Zenon DEF Trap, Reboot, FlagsMove, SameFlag
  <2>3. CASE Boot BY <2>3, Zenon DEF Boot, FlagsMove, SameFlag
  <2>4. CASE SplitLine \/ ManualWrite \/ EspApply \/ (DutStep /\ UNCHANGED espVars)
    <3>1. UNCHANGED <<on, g_running, g_conn>>
      BY <2>4, Zenon DEF SplitLine, ManualWrite, EspApply, espVars, gattVars
    <3> QED BY <3>1, Zenon DEF FlagsMove, SameFlag
  <2> QED BY <1>2, <2>1, <2>2, <2>3, <2>4 DEF EspNext
<1> QED BY <1>1, <1>2

LEMMA InitTypes == Init => EspTypes /\ AppTypes
<1> SUFFICES ASSUME Init PROVE EspTypes /\ AppTypes OBVIOUS
<1> USE DEF Init, RigInit, EspInit
<1>1. FpgaTypes BY DEF FpgaTypes
<1>2. DutTypes(Nat)
  <2>1. NoTxn \in Answer(Nat) BY NoAnswerType
  <2>2. 0 \in 0 .. MaxPress BY RigOK
  <2>3. /\ wireIn = <<>> /\ dr = <<>> /\ mode = "spi" /\ phase = "loop" /\ txn = NoTxn
        /\ lines = <<>> /\ presses = 0
    OBVIOUS
  <2>4. held \in BOOLEAN /\ alive \in BOOLEAN BY Zenon
  <2>5. wireIn \in Seq(Byte(Nat)) /\ lines \in Seq(Answer(Nat)) BY <2>3
  <2> QED BY <2>1, <2>2, <2>3, <2>4, <2>5, Zenon DEF DutTypes
<1>3. GattTypes BY DEF GattTypes
<1>4. TaskTypes
  <2>1. tasks = [t \in Tasks |-> NoTask] BY DEF TaskTypes
  <2>2. NoTask \in TaskRec BY NoTaskOK DEF TaskOK
  <2> QED BY <2>1, <2>2, NoTaskOK DEF TaskTypes
<1>5. LogTypes BY DEF LogTypes
<1>6. AppTypes BY EspOK DEF AppTypes
<1> QED BY <1>1, <1>2, <1>3, <1>4, <1>5, <1>6 DEF EspTypes

Types == EspTypes /\ AppTypes

LEMMA TypesInvariant == Spec => []Types
<1>1. Init => Types
  BY InitTypes DEF Types
<1>2. Types /\ [Next]_vars => Types'
  <2> SUFFICES ASSUME Types, [Next]_vars PROVE Types' OBVIOUS
  <2>1. CASE App BY <2>1, AppStepTypes, AppKeepsTypes DEF Types
  <2>2. CASE EspNext /\ UNCHANGED appVars
    <3>1. AppTypes' BY <2>2 DEF Types, AppTypes, appVars
    <3> QED BY <3>1, <2>2, EspStepTypes DEF Types
  <2>3. CASE UNCHANGED vars
    <3>1. /\ UNCHANGED <<fpgaVars, dutVars>> /\ UNCHANGED <<buf, g_campaign, manual>>
          /\ UNCHANGED <<g_cov, log>> /\ UNCHANGED tasks
      BY <2>3 DEF vars, espVars, gattVars
    <3>2. AppTypes' BY <2>3 DEF Types, AppTypes, appVars, vars
    <3> QED BY <3>1, <3>2, AppLeaves DEF Types
  <2> QED BY <2>1, <2>2, <2>3 DEF Next
<1> QED BY <1>1, <1>2, PTL DEF Spec

\* Everything the controller, the bench and the app hold keeps its type, whatever is
\* pushed, overlapped, armed by hand, lost or reset; a task's scenarios done and still
\* pending always add up to its total.
THEOREM TypeCorrect == Spec => []TypeOK
<1> DEFINE FlagOK == on \in BOOLEAN /\ g_running \in BOOLEAN /\ g_conn \in BOOLEAN
<1>1. Init => FlagOK
  BY Zenon DEF Init, EspInit
<1>2. FlagOK /\ [Next]_vars => FlagOK'
  <2> SUFFICES ASSUME FlagOK, [Next]_vars PROVE FlagOK' OBVIOUS
  <2>1. CASE Next
    <3>1. FlagsMove BY <2>1, FlagStep DEF Next
    <3> QED BY <3>1, FlagTypes, Zenon DEF FlagsMove
  <2>2. CASE UNCHANGED vars
    <3>1. UNCHANGED <<on, g_running, g_conn>> BY <2>2, Zenon DEF vars, espVars, gattVars
    <3> QED BY <3>1, Zenon
  <2> QED BY <2>1, <2>2
<1>3. Types /\ FlagOK => TypeOK
  <2> SUFFICES ASSUME Types, FlagOK PROVE TypeOK OBVIOUS
  <2>1. \A i \in DOMAIN link : link[i] \in (0 .. 4) \X (0 .. 255)
    BY DEF Types, EspTypes, FpgaTypes, RegWrite
  <2>2. regs \in [0 .. 4 -> 0 .. 255] BY DEF Types, EspTypes, FpgaTypes
  <2>3. g_campaign \in Campaigns \cup {<<>>} /\ g_cov \in [Keys -> Nat]
    BY DEF Types, EspTypes, GattTypes, LogTypes
  <2>4. \A i \in DOMAIN buf : buf[i] \in Campaigns \X (1 .. CHUNKS)
    BY DEF Types, EspTypes, GattTypes
  <2>5. ASSUME NEW t \in Tasks
        PROVE  /\ tasks[t].pc \in {"none", "new", "head", "arm", "settle", "send", "read",
                                   "done", "gone", "killed"}
               /\ tasks[t].done + Cardinality(tasks[t].pending) = tasks[t].total
    BY TaskOf DEF Types, TaskOK, TaskRec, Busy
  <2>6. /\ screen \in {"connect", "campaign", "push", "opening", "run"}
        /\ step.n \in 0 .. CHUNKS + 2 /\ (step.n = 0 <=> screen # "push")
    BY DEF Types, AppTypes
  <2> HIDE DEF FlagOK
  <2>7. on \in BOOLEAN /\ g_running \in BOOLEAN /\ g_conn \in BOOLEAN BY Zenon DEF FlagOK
  <2> QED BY <2>1, <2>2, <2>3, <2>4, <2>5, <2>6, <2>7, Zenon DEF TypeOK
<1> HIDE DEF FlagOK
<1> QED BY <1>1, <1>2, <1>3, TypesInvariant, PTL DEF Spec
-----------------------------------------------------------------------------
(* What each step of a task does to its record                             *)

LEMMA SetOthers ==
  ASSUME EspTypes, NEW u \in Tasks, NEW r, Set(u, r)
  PROVE  tasks'[u] = r /\ \A t \in Tasks \ {u} : tasks'[t] = tasks[t]
BY DEF Set, EspTypes, TaskTypes

\* What no step of a task changes, and what its working steps do not.
Keeps(t) == tasks'[t].calm = tasks[t].calm /\ tasks'[t].stopped = tasks[t].stopped
KeepsWork(t) ==
  /\ Keeps(t) /\ tasks'[t].pending = tasks[t].pending /\ tasks'[t].total = tasks[t].total
  /\ tasks'[t].done = tasks[t].done

LEMMA BeginFields ==
  ASSUME EspTypes, NEW t \in Tasks, Begin(t)
  PROVE  /\ Keeps(t) /\ tasks'[t].pc = "head" /\ tasks'[t].pending = DOMAIN g_campaign
         /\ tasks'[t].total = Len(g_campaign) /\ tasks'[t].done = tasks[t].done
         /\ tasks'[t].stale = tasks[t].stale
<1> DEFINE r == [tasks[t] EXCEPT !.pc = "head", !.pending = DOMAIN g_campaign,
                                 !.total = Len(g_campaign)]
<1>1. tasks[t] \in TaskRec BY TaskOf
<1>2. /\ r.calm = tasks[t].calm /\ r.stopped = tasks[t].stopped /\ r.pc = "head"
      /\ r.pending = DOMAIN g_campaign /\ r.total = Len(g_campaign) /\ r.done = tasks[t].done
      /\ r.stale = tasks[t].stale
  BY <1>1 DEF TaskRec
<1>3. tasks'[t] = r BY SetOthers DEF Begin
<1> HIDE DEF r
<1> QED BY <1>2, <1>3 DEF Keeps

LEMMA PickFields ==
  ASSUME EspTypes, NEW t \in Tasks, Pick(t)
  PROVE  \E i \in tasks[t].pending, f \in FaultSet :
           /\ i \in DOMAIN g_campaign => f = g_campaign[i]
           /\ link' = Append(link, Head(ArmWrites(f)))
           /\ KeepsWork(t) /\ tasks'[t].pc = "arm" /\ tasks'[t].pi = i /\ tasks'[t].f = f
           /\ tasks'[t].todo = Tail(ArmWrites(f))
           /\ tasks'[t].stale = (i \notin DOMAIN g_campaign)
<1>1. PICK i \in tasks[t].pending :
        /\ \E f \in IF i \in DOMAIN g_campaign THEN {g_campaign[i]} ELSE FaultSet :
          /\ link' = Append(link, Head(ArmWrites(f)))
          /\ Set(t, [tasks[t] EXCEPT !.pc = "arm", !.pi = i, !.f = f,
                                     !.todo = Tail(ArmWrites(f)),
                                     !.stale = i \notin DOMAIN g_campaign])
  BY DEF Pick
<1>2. PICK f \in IF i \in DOMAIN g_campaign THEN {g_campaign[i]} ELSE FaultSet :
        /\ link' = Append(link, Head(ArmWrites(f)))
        /\ Set(t, [tasks[t] EXCEPT !.pc = "arm", !.pi = i, !.f = f,
                                   !.todo = Tail(ArmWrites(f)),
                                   !.stale = i \notin DOMAIN g_campaign])
  BY <1>1
<1>3. f \in FaultSet /\ (i \in DOMAIN g_campaign => f = g_campaign[i])
  BY CampaignShape DEF EspTypes
<1>4. tasks[t] \in TaskRec BY TaskOf
<1> DEFINE r == [tasks[t] EXCEPT !.pc = "arm", !.pi = i, !.f = f, !.todo = Tail(ArmWrites(f)),
                                 !.stale = i \notin DOMAIN g_campaign]
<1>5. tasks'[t] = r BY <1>2, SetOthers
<1>6. /\ r.calm = tasks[t].calm /\ r.stopped = tasks[t].stopped /\ r.pc = "arm"
      /\ r.pending = tasks[t].pending /\ r.total = tasks[t].total /\ r.done = tasks[t].done
      /\ r.pi = i /\ r.f = f /\ r.todo = Tail(ArmWrites(f))
      /\ r.stale = (i \notin DOMAIN g_campaign)
  BY <1>4 DEF TaskRec
<1> HIDE DEF r
<1> QED BY <1>1, <1>2, <1>3, <1>5, <1>6 DEF Keeps, KeepsWork

LEMMA ArmWriteFields ==
  ASSUME EspTypes, NEW t \in Tasks, ArmWrite(t)
  PROVE  /\ KeepsWork(t) /\ tasks'[t].pi = tasks[t].pi /\ tasks'[t].f = tasks[t].f
         /\ tasks'[t].stale = tasks[t].stale /\ tasks'[t].todo = Tail(tasks[t].todo)
         /\ tasks'[t].pc = (IF Len(tasks[t].todo) = 1 THEN "settle" ELSE "arm")
         /\ tasks'[t].ahead = (IF Len(tasks[t].todo) = 1 THEN Len(link') ELSE 0)
<1> DEFINE p == IF Len(tasks[t].todo) = 1 THEN "settle" ELSE "arm"
           n == IF Len(tasks[t].todo) = 1 THEN Len(link') ELSE 0
           r == [tasks[t] EXCEPT !.todo = Tail(tasks[t].todo), !.pc = p, !.ahead = n]
<1>1. tasks[t] \in TaskRec BY TaskOf
<1>2. tasks'[t] = r
  <2>1. Set(t, r) BY DEF ArmWrite
  <2> HIDE DEF r
  <2> QED BY <2>1, SetOthers
<1> HIDE DEF p, n
<1>3. /\ r.calm = tasks[t].calm /\ r.stopped = tasks[t].stopped /\ r.pc = p
      /\ r.pending = tasks[t].pending /\ r.total = tasks[t].total /\ r.done = tasks[t].done
      /\ r.pi = tasks[t].pi /\ r.f = tasks[t].f /\ r.todo = Tail(tasks[t].todo)
      /\ r.stale = tasks[t].stale /\ r.ahead = n
  BY <1>1 DEF TaskRec
<1> HIDE DEF r
<1> QED BY <1>2, <1>3 DEF Keeps, KeepsWork, p, n

LEMMA SettleFields ==
  ASSUME EspTypes, NEW t \in Tasks, EspSettle(t) \/ Done(t)
  PROVE  /\ KeepsWork(t) /\ tasks'[t].pi = tasks[t].pi /\ tasks'[t].f = tasks[t].f
         /\ tasks'[t].stale = tasks[t].stale
         /\ (EspSettle(t) => tasks'[t].pc = "send") /\ (Done(t) => tasks'[t].pc = "done")
<1>1. tasks[t] \in TaskRec BY TaskOf
<1>3. EspSettle(t) => tasks'[t] = [tasks[t] EXCEPT !.pc = "send"]
  BY SetOthers DEF EspSettle
<1>4. Done(t) => tasks'[t] = [tasks[t] EXCEPT !.pc = "done"]
  BY SetOthers DEF Done
<1>5. PICK p : /\ tasks'[t] = [tasks[t] EXCEPT !.pc = p]
               /\ (EspSettle(t) => p = "send") /\ (Done(t) => p = "done")
  <2>1. ~(EspSettle(t) /\ Done(t)) BY DEF EspSettle, Done
  <2> QED BY <1>3, <1>4, <2>1
<1> DEFINE r == [tasks[t] EXCEPT !.pc = p]
<1>6. /\ r.calm = tasks[t].calm /\ r.stopped = tasks[t].stopped /\ r.pc = p
      /\ r.pending = tasks[t].pending /\ r.total = tasks[t].total /\ r.done = tasks[t].done
      /\ r.pi = tasks[t].pi /\ r.f = tasks[t].f /\ r.stale = tasks[t].stale
  BY <1>1 DEF TaskRec
<1>7. tasks'[t] = r BY <1>5
<1> HIDE DEF r
<1> QED BY <1>5, <1>6, <1>7 DEF Keeps, KeepsWork

LEMMA SendFields ==
  ASSUME EspTypes, NEW t \in Tasks, EspSend(t)
  PROVE  \E f \in Deref(t) :
           /\ wireIn' = wireIn \o RunCmd(f, RunId(t, tasks[t].pi))
           /\ KeepsWork(t) /\ tasks'[t].pi = tasks[t].pi /\ tasks'[t].f = f
           /\ tasks'[t].stale = tasks[t].stale /\ tasks'[t].pc = "read"
<1>1. PICK f \in Deref(t) :
        /\ wireIn' = wireIn \o RunCmd(f, RunId(t, tasks[t].pi))
        /\ Set(t, [tasks[t] EXCEPT !.pc = "read", !.f = f])
  BY DEF EspSend
<1>2. tasks[t] \in TaskRec BY TaskOf
<1> DEFINE r == [tasks[t] EXCEPT !.pc = "read", !.f = f]
<1>3. tasks'[t] = r BY <1>1, SetOthers
<1>4. /\ r.calm = tasks[t].calm /\ r.stopped = tasks[t].stopped /\ r.pc = "read"
      /\ r.pending = tasks[t].pending /\ r.total = tasks[t].total /\ r.done = tasks[t].done
      /\ r.pi = tasks[t].pi /\ r.f = f /\ r.stale = tasks[t].stale
  BY <1>2 DEF TaskRec
<1> HIDE DEF r
<1> QED BY <1>1, <1>3, <1>4 DEF Keeps, KeepsWork

LEMMA RecordFields ==
  ASSUME EspTypes, NEW t \in Tasks, NEW x, EspRecord(t, x)
  PROVE  /\ Keeps(t) /\ tasks'[t].pc = "head" /\ tasks'[t].total = tasks[t].total
         /\ tasks'[t].done = tasks[t].done + 1 /\ tasks'[t].stale = tasks[t].stale
         /\ tasks'[t].pending = tasks[t].pending \ {tasks[t].pi}
         /\ \E f \in Deref(t) :
              log' = IF ~tasks[t].calm THEN log
                     ELSE Append(log, [t |-> t, idx |-> tasks[t].pi, f |-> tasks[t].f,
                                       pass |-> Evaluate(f, x.obs), txn |-> x])
<1>1. Set(t, [tasks[t] EXCEPT !.pc = "head", !.done = tasks[t].done + 1,
                              !.pending = tasks[t].pending \ {tasks[t].pi}])
  BY DEF EspRecord
<1>2. tasks[t] \in TaskRec BY TaskOf
<1> DEFINE r == [tasks[t] EXCEPT !.pc = "head", !.done = tasks[t].done + 1,
                                 !.pending = tasks[t].pending \ {tasks[t].pi}]
<1>3. tasks'[t] = r BY <1>1, SetOthers
<1>4. /\ r.calm = tasks[t].calm /\ r.stopped = tasks[t].stopped /\ r.pc = "head"
      /\ r.pending = tasks[t].pending \ {tasks[t].pi} /\ r.total = tasks[t].total
      /\ r.done = tasks[t].done + 1 /\ r.stale = tasks[t].stale
  BY <1>2 DEF TaskRec
<1> HIDE DEF r
<1>5. \E f \in Deref(t) :
        log' = IF ~tasks[t].calm THEN log
               ELSE Append(log, [t |-> t, idx |-> tasks[t].pi, f |-> tasks[t].f,
                                 pass |-> Evaluate(f, x.obs), txn |-> x])
  BY DEF EspRecord
<1> QED BY <1>3, <1>4, <1>5 DEF Keeps
-----------------------------------------------------------------------------
(* Calm tasks are alone                                                    *)

Calm(t) == Alive(t) /\ tasks[t].calm

\* A chip that is restarting has no tasks and no connection.
Asleep == ~on => ~g_conn /\ \A t \in Tasks : ~Alive(t)

\* Nobody else writes to the bench, the reference holds, the campaign is still the one
\* the task has read, and only a Stop has lowered the flag.
CalmTask(t) ==
  /\ Others(t) = {} /\ ~tasks[t].stale /\ manual = <<>>
  /\ tasks[t].stopped \/ g_running
  /\ tasks[t].pc # "new" => /\ tasks[t].pending \subseteq DOMAIN g_campaign
                            /\ tasks[t].total = Len(g_campaign)

Alone == Asleep /\ \A t \in Tasks : Calm(t) => CalmTask(t)

\* What can happen to a calm task: it is created,
Started(t) ==
  /\ tasks[t].pc = "none" /\ Others(t) = {} /\ AtRest /\ manual = <<>>
  /\ tasks'[t] = Fresh(TRUE) /\ \A u \in Tasks \ {t} : tasks'[u].pc = tasks[u].pc
  /\ g_running' = TRUE
  /\ UNCHANGED <<fpgaVars, dutVars>> /\ UNCHANGED <<g_campaign, manual, log>>

\* it takes a step of its own,
WorkStep(t) == \/ Begin(t) \/ Pick(t) \/ ArmWrite(t) \/ EspSettle(t) \/ EspSend(t)
               \/ EspReceive(t) \/ EspTimeout(t) \/ Done(t)

\* it is left alone, or told to stop; or the bench moves.
LeftAlone(t) ==
  /\ \/ tasks'[t] = tasks[t] /\ g_running' = g_running
     \/ tasks'[t] = [tasks[t] EXCEPT !.stopped = TRUE]
  /\ \A u \in Tasks : tasks'[u].pc = tasks[u].pc
  /\ UNCHANGED <<fpgaVars, dutVars>> /\ UNCHANGED <<g_campaign, manual, log>>

Moves(t) == WorkStep(t) \/ EspApply \/ (DutStep /\ UNCHANGED espVars) \/ LeftAlone(t)

LEMMA Disturbed ==
  ASSUME EspTypes, NEW t \in Tasks
  PROVE  Disturb[t].pc = tasks[t].pc /\ (Alive(t) => Disturb[t].calm = FALSE)
<1>1. tasks[t] \in TaskRec BY TaskOf
<1>2. Alive(t) => Disturb[t] = [tasks[t] EXCEPT !.calm = FALSE] BY DEF Disturb
<1>3. ~Alive(t) => Disturb[t] = tasks[t] BY DEF Disturb
<1>4. [tasks[t] EXCEPT !.calm = FALSE].calm = FALSE /\ [tasks[t] EXCEPT !.calm = FALSE].pc = tasks[t].pc
  BY <1>1 DEF TaskRec
<1> QED BY <1>2, <1>3, <1>4

LEMMA RebootKills ==
  ASSUME EspTypes, Reboot, NEW t \in Tasks
  PROVE  ~Alive(t)'
<1>1. tasks[t] \in TaskRec BY TaskOf
<1>2. tasks'[t] = IF Alive(t) THEN [tasks[t] EXCEPT !.pc = "killed"] ELSE tasks[t]
  BY DEF Reboot
<1>3. [tasks[t] EXCEPT !.pc = "killed"].pc = "killed" BY <1>1 DEF TaskRec
<1> QED BY <1>2, <1>3 DEF Alive

LEMMA WorkerAlive ==
  ASSUME NEW u, TaskStep(u)
  PROVE  Alive(u)
BY DEF TaskStep, Begin, Pick, ArmWrite, EspSettle, EspSend, EspReceive, EspTimeout, Done, End,
       Alive

\* A step of a task leaves the others as they are.
LEMMA WorkerSets ==
  ASSUME NEW u, TaskStep(u)
  PROVE  \E r : Set(u, r)
<1>1. CASE EspReceive(u) \/ EspTimeout(u)
  <2>1. \E x : EspRecord(u, x) BY <1>1 DEF EspReceive, EspTimeout
  <2> QED BY <2>1 DEF EspRecord
<1>2. CASE Pick(u) BY <1>2 DEF Pick
<1>3. CASE EspSend(u) BY <1>3 DEF EspSend
<1>4. CASE Begin(u) BY <1>4 DEF Begin
<1>5. CASE ArmWrite(u) BY <1>5 DEF ArmWrite
<1>6. CASE EspSettle(u) \/ Done(u) \/ End(u) BY <1>6 DEF EspSettle, Done, End
<1> QED BY <1>1, <1>2, <1>3, <1>4, <1>5, <1>6 DEF TaskStep

LEMMA CalmEspStep ==
  ASSUME EspTypes, Alone, EspNext, NEW t \in Tasks, Calm(t)'
  PROVE  Calm(t) /\ CalmTask(t) /\ Moves(t)
<1>1. CASE \E u \in Tasks : TaskStep(u)
  <2>1. PICK u \in Tasks : TaskStep(u) BY <1>1
  <2>2. PICK r : Set(u, r) BY <2>1, WorkerSets
  <2>3. tasks'[u] = r /\ \A v \in Tasks \ {u} : tasks'[v] = tasks[v] BY <2>2, SetOthers
  <2>4. Alive(u) BY <2>1, WorkerAlive
  <2>5. CASE u # t
    <3>1. Calm(t) BY <2>3, <2>5 DEF Calm, Alive
    <3>2. Others(t) = {} BY <3>1 DEF Alone, CalmTask
    <3> QED BY <2>4, <2>5, <3>2 DEF Others
  <2>6. CASE u = t
    <3>1. ~End(t)
      <4>1. tasks[t] \in TaskRec BY TaskOf
      <4>2. [tasks[t] EXCEPT !.pc = "gone"].pc = "gone" BY <4>1 DEF TaskRec
      <4>3. End(t) => tasks'[t] = [tasks[t] EXCEPT !.pc = "gone"] BY SetOthers DEF End
      <4> QED BY <4>2, <4>3 DEF Calm, Alive
    <3>2. WorkStep(t) BY <2>1, <2>6, <3>1 DEF TaskStep, WorkStep
    <3>3. tasks'[t].calm = tasks[t].calm
      <4>1. CASE EspReceive(t) \/ EspTimeout(t)
        <5>1. \E x : EspRecord(t, x) BY <4>1 DEF EspReceive, EspTimeout
        <5> QED BY <5>1, RecordFields DEF Keeps
      <4> QED BY <3>2, <4>1, BeginFields, PickFields, ArmWriteFields, SettleFields, SendFields
              DEF WorkStep, Keeps, KeepsWork
    <3>4. Calm(t) BY <2>4, <2>6, <3>3 DEF Calm
    <3> QED BY <3>2, <3>4 DEF Alone, Moves
  <2> QED BY <2>5, <2>6
<1>2. CASE \E u \in Tasks : Trap(u)
  BY <1>2, RebootKills DEF Trap, Calm
<1>3. CASE SplitLine
  <2>1. Calm(t) BY <1>3 DEF SplitLine, espVars, Calm, Alive
  <2>2. Others(t) = {} BY <2>1 DEF Alone, CalmTask
  <2> DEFINE R == {u \in Tasks : tasks[u].pc = "read"}
  <2>3. R = {} \/ R = {t} BY <2>2 DEF Others, Alive
  <2>4. Cardinality(R) = 0 \/ Cardinality(R) = 1 BY <2>3, FS_EmptySet, FS_Singleton
  <2>5. Cardinality(R) > 1 BY <1>3 DEF SplitLine
  <2> HIDE DEF R
  <2> QED BY <2>4, <2>5
<1>4. CASE ManualWrite
  <2>1. Calm(t) /\ manual # <<>> BY <1>4 DEF ManualWrite, Calm, Alive
  <2> QED BY <2>1 DEF Alone, CalmTask
<1>5. CASE Boot
  <2>1. Calm(t) /\ ~on BY <1>5 DEF Boot, Calm, Alive
  <2> QED BY <2>1 DEF Alone, Asleep, Calm
<1>6. CASE EspApply
  <2>1. tasks[t] \in TaskRec BY TaskOf
  <2>2. tasks'[t] = IF tasks[t].ahead > 0 THEN [tasks[t] EXCEPT !.ahead = @ - 1] ELSE tasks[t]
    BY <1>6 DEF EspApply
  <2>3. tasks'[t].pc = tasks[t].pc /\ tasks'[t].calm = tasks[t].calm
    BY <2>1, <2>2 DEF TaskRec
  <2>4. Calm(t) BY <2>3 DEF Calm, Alive
  <2> QED BY <1>6, <2>4 DEF Alone, Moves
<1>7. CASE DutStep /\ UNCHANGED espVars
  <2>1. Calm(t) BY <1>7 DEF espVars, Calm, Alive
  <2> QED BY <1>7, <2>1 DEF Alone, Moves
<1> QED BY <1>1, <1>2, <1>3, <1>4, <1>5, <1>6, <1>7 DEF EspNext

LEMMA CalmAppStep ==
  ASSUME EspTypes, Alone, App, NEW t \in Tasks, Calm(t)'
  PROVE  Started(t) \/ (Calm(t) /\ CalmTask(t) /\ Moves(t))
<1>0. ASSUME UNCHANGED <<fpgaVars, dutVars>>, UNCHANGED <<g_campaign, manual, log>>,
             UNCHANGED <<tasks, g_running>>
      PROVE  Calm(t) /\ CalmTask(t) /\ Moves(t)
  <2>1. Calm(t) BY <1>0 DEF Calm, Alive
  <2> QED BY <1>0, <2>1 DEF Alone, Moves, LeftAlone
<1>1. CASE AppConnect \/ PushAndRun \/ PushFails \/ Hear \/ OpenRun \/ Back \/ Drop \/ Restart
  <2>1. /\ UNCHANGED <<fpgaVars, dutVars>> /\ UNCHANGED <<g_campaign, manual, log>>
        /\ UNCHANGED <<tasks, g_running>>
    BY <1>1 DEF AppConnect, PushAndRun, PushFails, Hear, OpenRun, Back, Drop, Restart, Connect,
                Disconnect, espVars, gattVars
  <2> QED BY <2>1, <1>0
<1>2. CASE Write
  <2>1. CASE Chunk(picked, step.n)
    <3>1. /\ UNCHANGED <<fpgaVars, dutVars>> /\ UNCHANGED <<g_campaign, manual, log>>
          /\ UNCHANGED <<tasks, g_running>>
      BY <2>1 DEF Chunk
    <3> QED BY <3>1, <1>0
  <2>2. CASE EndOfCampaign
    <3>1. CASE Throws(buf) BY <2>2, <3>1, RebootKills DEF EndOfCampaign, Calm
    <3>2. CASE ~Throws(buf)
      <4>1. tasks'[t] = [Disturb[t] EXCEPT !.stale = Alive(t)]
        BY <2>2, <3>2 DEF EndOfCampaign
      <4>2. tasks'[t].pc = Disturb[t].pc /\ tasks'[t].calm = Disturb[t].calm
        <5>1. SameWork(tasks[t], Disturb[t]) BY DisturbTypes DEF EspTypes
        <5> QED BY <4>1, <5>1 DEF SameWork, TaskRec
      <4> QED BY <4>2, Disturbed DEF Calm, Alive
    <3> QED BY <3>1, <3>2
  <2>3. CASE OnStart
    <3>1. /\ UNCHANGED <<fpgaVars, dutVars>> /\ UNCHANGED <<g_campaign, manual, log>>
          /\ manual = <<>>
      BY <2>3 DEF OnStart, GattReady
    <3>2. CASE ~g_running /\ g_campaign # <<>>
      <4>1. g_running' = TRUE BY <2>3, <3>2 DEF OnStart
      <4>2. PICK u \in Unused :
              tasks' = [Disturb EXCEPT ![u] = [NoTask EXCEPT !.pc = "new",
                                                             !.calm = Others(u) = {} /\ AtRest]]
        BY <2>3, <3>2 DEF OnStart
      <4>3. PICK b \in BOOLEAN : b = (Others(u) = {} /\ AtRest) BY Zenon
      <4>4. tasks' = [Disturb EXCEPT ![u] = Fresh(b)] BY <4>2, <4>3, Zenon DEF Fresh
      <4>5. u \in Tasks /\ tasks[u].pc = "none" BY DEF Unused
      <4>6. DOMAIN Disturb = Tasks BY DisturbTypes DEF EspTypes
      <4>7. tasks'[u] = Fresh(b) /\ \A v \in Tasks \ {u} : tasks'[v] = Disturb[v]
        BY <4>4, <4>5, <4>6
      <4>8. \A v \in Tasks \ {u} : tasks'[v].pc = tasks[v].pc BY <4>7, Disturbed
      <4>9. t = u
        <5> SUFFICES ASSUME t # u PROVE FALSE OBVIOUS
        <5>1. tasks'[t] = Disturb[t] BY <4>7
        <5> QED BY <5>1, Disturbed DEF Calm, Alive
      <4>10. b = TRUE
        <5>1. tasks'[t].calm BY DEF Calm
        <5>2. Fresh(b).calm = b BY FreshOK
        <5>3. CASE b = FALSE BY <4>7, <4>9, <5>1, <5>2, <5>3
        <5>4. CASE b = TRUE BY <5>4
        <5> QED BY <5>3, <5>4
      <4>11. Others(t) = {} /\ AtRest BY <4>3, <4>9, <4>10
      <4>12. tasks'[t] = Fresh(TRUE) BY <4>7, <4>9, <4>10
      <4> QED BY <3>1, <4>1, <4>5, <4>8, <4>9, <4>11, <4>12 DEF Started
    <3>3. CASE ~(~g_running /\ g_campaign # <<>>)
      <4>1. UNCHANGED <<tasks, g_running>> BY <2>3, <3>3, Zenon DEF OnStart
      <4> QED BY <3>1, <4>1, <1>0
    <3> QED BY <3>2, <3>3
  <2> QED BY <1>2, <2>1, <2>2, <2>3 DEF Write
<1>3. CASE PressStop
  <2>1. /\ UNCHANGED <<fpgaVars, dutVars>> /\ UNCHANGED <<g_campaign, manual, log>>
        /\ tasks' = [u \in Tasks |-> [tasks[u] EXCEPT !.stopped = @ \/ Alive(u)]]
    BY <1>3 DEF PressStop, OnStop
  <2>2. ASSUME NEW u \in Tasks
        PROVE  tasks'[u].pc = tasks[u].pc /\ tasks'[u].calm = tasks[u].calm
    <3>1. tasks[u] \in TaskRec BY TaskOf
    <3> QED BY <2>1, <3>1 DEF TaskRec
  <2>3. Calm(t) BY <2>2 DEF Calm, Alive
  <2>4. tasks'[t] = [tasks[t] EXCEPT !.stopped = TRUE]
    <3>1. (tasks[t].stopped \/ Alive(t)) = TRUE BY <2>3 DEF Calm
    <3>2. tasks'[t] = [tasks[t] EXCEPT !.stopped = (tasks[t].stopped \/ Alive(t))] BY <2>1
    <3> QED BY <3>1, <3>2
  <2> QED BY <2>1, <2>2, <2>3, <2>4 DEF Alone, Moves, LeftAlone
<1>4. CASE ArmManual
  <2>1. tasks' = Disturb BY <1>4 DEF ArmManual, OnControlArm
  <2> QED BY <2>1, Disturbed DEF Calm, Alive
<1> QED BY <1>1, <1>2, <1>3, <1>4 DEF App

LEMMA AsleepStep ==
  ASSUME EspTypes, Asleep, Next
  PROVE  Asleep'
<1>1. CASE Reboot
  BY <1>1, RebootKills DEF Reboot, Asleep
<1>2. ASSUME UNCHANGED <<on, tasks>>, on \/ UNCHANGED g_conn PROVE Asleep'
  <2>1. \A t \in Tasks : Alive(t)' <=> Alive(t) BY <1>2 DEF Alive
  <2> QED BY <1>2, <2>1 DEF Asleep
<1>3. ASSUME UNCHANGED on, on PROVE Asleep'
  BY <1>3 DEF Asleep
<1>4. g_conn => on BY DEF Asleep
<1>5. CASE EspNext
  <2>1. CASE \E t \in Tasks : TaskStep(t)
    <3>1. on BY <2>1, WorkerAlive DEF Asleep
    <3>2. UNCHANGED on
      BY <2>1 DEF TaskStep, Begin, Pick, ArmWrite, EspSettle, EspSend, EspReceive, EspTimeout,
                  Done, End, gattVars
    <3> QED BY <3>1, <3>2, <1>3
  <2>2. CASE \E t \in Tasks : Trap(t) BY <2>2, <1>1 DEF Trap
  <2>3. CASE Boot BY <2>3, Zenon DEF Boot, Asleep
  <2>4. CASE SplitLine \/ ManualWrite \/ (DutStep /\ UNCHANGED espVars)
    <3>1. UNCHANGED <<on, tasks>> /\ UNCHANGED g_conn
      BY <2>4 DEF SplitLine, ManualWrite, espVars, gattVars
    <3> QED BY <3>1, <1>2
  <2>5. CASE EspApply
    <3>1. UNCHANGED <<on, g_conn>> BY <2>5 DEF EspApply, gattVars
    <3>2. ASSUME NEW t \in Tasks PROVE tasks'[t].pc = tasks[t].pc
      <4>1. tasks[t] \in TaskRec BY TaskOf
      <4>2. tasks'[t] = IF tasks[t].ahead > 0 THEN [tasks[t] EXCEPT !.ahead = @ - 1] ELSE tasks[t]
        BY <2>5 DEF EspApply
      <4> QED BY <4>1, <4>2 DEF TaskRec
    <3> QED BY <3>1, <3>2 DEF Asleep, Alive
  <2> QED BY <1>5, <2>1, <2>2, <2>3, <2>4, <2>5 DEF EspNext
<1>6. CASE App
  <2>1. CASE PushAndRun \/ PushFails \/ Hear \/ OpenRun \/ Back \/ Restart
    <3>1. UNCHANGED <<on, tasks>> /\ UNCHANGED g_conn
      BY <2>1 DEF PushAndRun, PushFails, Hear, OpenRun, Back, Restart, espVars, gattVars
    <3> QED BY <3>1, <1>2
  <2>2. CASE AppConnect
    <3>1. on /\ UNCHANGED on BY <2>2 DEF AppConnect, Connect
    <3> QED BY <3>1, <1>3
  <2>3. CASE Write \/ PressStop \/ ArmManual \/ Drop
    <3>1. g_conn
      BY <2>3 DEF Write, PressStop, ArmManual, Drop, Disconnect, OnStop, OnControlArm, GattReady
    <3>2. UNCHANGED on \/ Reboot
      BY <2>3 DEF Write, PressStop, ArmManual, Drop, Disconnect, OnStop, OnControlArm, OnStart,
                  Chunk, EndOfCampaign
    <3> QED BY <3>1, <3>2, <1>1, <1>3, <1>4
  <2> QED BY <1>6, <2>1, <2>2, <2>3 DEF App
<1> QED BY <1>5, <1>6 DEF Next

LEMMA WorkAlone ==
  ASSUME EspTypes, NEW t \in Tasks, Calm(t), CalmTask(t), WorkStep(t)
  PROVE  CalmTask(t)'
<1>1. UNCHANGED <<g_campaign, g_running, manual>>
  BY DEF WorkStep, Begin, Pick, ArmWrite, EspSettle, EspSend, EspReceive, EspTimeout, Done,
         gattVars
<1>2. Others(t)' = {}
  <2>1. PICK r : Set(t, r) BY WorkerSets DEF WorkStep, TaskStep
  <2>2. \A u \in Tasks \ {t} : tasks'[u] = tasks[u] BY <2>1, SetOthers
  <2> QED BY <2>2 DEF CalmTask, Others, Alive
<1>3. /\ tasks[t].pc # "new" => /\ tasks[t].pending \subseteq DOMAIN g_campaign
                                /\ tasks[t].total = Len(g_campaign)
      /\ ~tasks[t].stale
  BY DEF CalmTask
<1>4. /\ tasks'[t].stopped = tasks[t].stopped /\ ~tasks'[t].stale
      /\ tasks'[t].pending \subseteq DOMAIN g_campaign /\ tasks'[t].total = Len(g_campaign)
  <2>1. CASE Begin(t) BY <2>1, <1>3, BeginFields DEF Keeps
  <2>2. CASE Pick(t)
    <3>1. tasks[t].pc = "head" BY <2>2 DEF Pick
    <3> QED BY <2>2, <3>1, <1>3, PickFields DEF Keeps, KeepsWork
  <2>3. CASE ArmWrite(t) \/ EspSettle(t) \/ EspSend(t) \/ Done(t)
    <3>1. tasks[t].pc # "new" BY <2>3 DEF ArmWrite, EspSettle, EspSend, Done
    <3> QED BY <2>3, <3>1, <1>3, ArmWriteFields, SettleFields, SendFields DEF Keeps, KeepsWork
  <2>4. CASE EspReceive(t) \/ EspTimeout(t)
    <3>1. tasks[t].pc # "new" BY <2>4 DEF EspReceive, EspTimeout
    <3>2. \E x : EspRecord(t, x) BY <2>4 DEF EspReceive, EspTimeout
    <3> QED BY <3>1, <3>2, <1>3, RecordFields DEF Keeps
  <2> QED BY <2>1, <2>2, <2>3, <2>4 DEF WorkStep
<1>5. (tasks'[t].stopped \/ g_running')
  <2>1. tasks[t].stopped \/ g_running BY DEF CalmTask
  <2>2. tasks'[t].stopped = tasks[t].stopped /\ g_running' = g_running BY <1>1, <1>4
  <2> QED BY <2>1, <2>2
<1> QED BY <1>1, <1>2, <1>4, <1>5 DEF CalmTask

LEMMA AloneStep ==
  ASSUME EspTypes, Alone, Next
  PROVE  Alone'
<1>1. Asleep' BY AsleepStep DEF Alone
<1>2. ASSUME NEW t \in Tasks, Calm(t)' PROVE CalmTask(t)'
  <2>1. Started(t) \/ (Calm(t) /\ CalmTask(t) /\ Moves(t))
    BY <1>2, CalmAppStep, CalmEspStep DEF Next
  <2>2. CASE Started(t)
    <3>1. Fresh(TRUE).pc = "new" /\ ~Fresh(TRUE).stale BY DEF Fresh, NoTask
    <3>2. Others(t)' = {} BY <2>2 DEF Started, Others, Alive
    <3> QED BY <2>2, <3>1, <3>2 DEF Started, CalmTask
  <2>3. CASE Calm(t) /\ CalmTask(t) /\ WorkStep(t) BY <2>3, WorkAlone
  <2>4. CASE Calm(t) /\ CalmTask(t) /\ EspApply
    <3>1. UNCHANGED <<g_campaign, g_running, manual>> BY <2>4 DEF EspApply, gattVars
    <3>2. ASSUME NEW u \in Tasks
          PROVE  /\ tasks'[u].pc = tasks[u].pc /\ tasks'[u].stale = tasks[u].stale
                 /\ tasks'[u].stopped = tasks[u].stopped /\ tasks'[u].pending = tasks[u].pending
                 /\ tasks'[u].total = tasks[u].total
      <4>1. tasks[u] \in TaskRec BY TaskOf
      <4>2. tasks'[u] = IF tasks[u].ahead > 0 THEN [tasks[u] EXCEPT !.ahead = @ - 1] ELSE tasks[u]
        BY <2>4 DEF EspApply
      <4> QED BY <4>1, <4>2 DEF TaskRec
    <3>3. Others(t)' = {} BY <2>4, <3>2 DEF CalmTask, Others, Alive
    <3>4. tasks[t].stopped \/ g_running BY <2>4 DEF CalmTask
    <3>5. tasks'[t].stopped \/ g_running' BY <3>1, <3>2, <3>4
    <3> QED BY <2>4, <3>1, <3>2, <3>3, <3>5 DEF CalmTask
  <2>5. CASE Calm(t) /\ CalmTask(t) /\ DutStep /\ UNCHANGED espVars
    <3>1. UNCHANGED <<g_campaign, g_running, manual, tasks>> BY <2>5 DEF espVars, gattVars
    <3> QED BY <2>5, <3>1 DEF CalmTask, Others, Alive
  <2>6. CASE Calm(t) /\ CalmTask(t) /\ LeftAlone(t)
    <3>1. tasks[t] \in TaskRec BY TaskOf
    <3>2. /\ tasks'[t].pc = tasks[t].pc /\ tasks'[t].stale = tasks[t].stale
          /\ tasks'[t].pending = tasks[t].pending /\ tasks'[t].total = tasks[t].total
      BY <2>6, <3>1 DEF LeftAlone, TaskRec
    <3>3. tasks'[t].stopped \/ g_running'
      <4>1. CASE tasks'[t] = tasks[t] /\ g_running' = g_running
        BY <2>6, <4>1 DEF CalmTask
      <4>2. CASE tasks'[t] = [tasks[t] EXCEPT !.stopped = TRUE]
        BY <4>2, <3>1 DEF TaskRec
      <4> QED BY <2>6, <4>1, <4>2 DEF LeftAlone
    <3>4. Others(t)' = {} BY <2>6 DEF LeftAlone, CalmTask, Others, Alive
    <3> QED BY <2>6, <3>2, <3>3, <3>4 DEF LeftAlone, CalmTask
  <2> QED BY <2>1, <2>2, <2>3, <2>4, <2>5, <2>6 DEF Moves
<1> QED BY <1>1, <1>2 DEF Alone

LEMMA AloneInvariant == Spec => []Alone
<1>1. Init => Alone
  BY DEF Init, EspInit, Alone, Asleep, Calm, Alive, NoTask
<1>2. Types /\ Alone /\ [Next]_vars => Alone'
  <2> SUFFICES ASSUME Types, Alone, [Next]_vars PROVE Alone' OBVIOUS
  <2>1. CASE Next BY <2>1, AloneStep DEF Types
  <2>2. CASE UNCHANGED vars
    <3>1. UNCHANGED <<on, g_conn, g_running, g_campaign, manual, tasks>>
      BY <2>2 DEF vars, espVars, gattVars
    <3> QED BY <3>1 DEF Alone, Asleep, Calm, CalmTask, Others, Alive
  <2> QED BY <2>1, <2>2
<1> QED BY <1>1, <1>2, TypesInvariant, PTL DEF Spec
-----------------------------------------------------------------------------
(* Every scenario once                                                     *)

Mine(t) == {q \in DOMAIN log : log[q].t = t}
Ran(t)  == {log[q].idx : q \in Mine(t)}

\* A calm task's verdicts so far are about the scenarios no longer pending, one each;
\* it ends with none pending unless it was told to stop.
Records(t) ==
  /\ tasks[t].pc \in {"none", "new"} => Mine(t) = {}
  /\ tasks[t].calm /\ tasks[t].pc \in Busy \cup {"head", "done", "gone"} =>
       /\ tasks[t].pending \subseteq 1 .. tasks[t].total
       /\ Ran(t) = (1 .. tasks[t].total) \ tasks[t].pending
       /\ Cardinality(Mine(t)) = tasks[t].done
  /\ tasks[t].calm /\ ~tasks[t].stopped /\ tasks[t].pc \in {"done", "gone"} =>
       tasks[t].pending = {}

AllRecords == \A t \in Tasks : Records(t)

\* A task that was left alone, disturbed or stopped has the same record.
SameRecord(t) ==
  /\ tasks'[t].pc = tasks[t].pc /\ tasks'[t].pending = tasks[t].pending
  /\ tasks'[t].total = tasks[t].total /\ tasks'[t].done = tasks[t].done
  /\ tasks'[t].calm => tasks[t].calm
  /\ tasks'[t].stopped = tasks[t].stopped \/ tasks'[t].stopped

LEMMA SameRecordKept ==
  ASSUME NEW t \in Tasks, Records(t), SameRecord(t), Mine(t)' = Mine(t), Ran(t)' = Ran(t)
  PROVE  Records(t)'
<1> DEFINE r == tasks[t]
           s == tasks'[t]
           M == Mine(t)
           R == Ran(t)
<1>1. /\ r.pc \in {"none", "new"} => M = {}
      /\ r.calm /\ r.pc \in Busy \cup {"head", "done", "gone"} =>
           /\ r.pending \subseteq 1 .. r.total /\ R = (1 .. r.total) \ r.pending
           /\ Cardinality(M) = r.done
      /\ r.calm /\ ~r.stopped /\ r.pc \in {"done", "gone"} => r.pending = {}
  BY DEF Records
<1>2. /\ s.pc = r.pc /\ s.pending = r.pending /\ s.total = r.total /\ s.done = r.done
      /\ s.calm => r.calm
      /\ ~s.stopped => ~r.stopped
  BY DEF SameRecord
<1>3. Mine(t)' = M /\ Ran(t)' = R OBVIOUS
<1> HIDE DEF r, M, R
<1>4. /\ s.pc \in {"none", "new"} => M = {}
      /\ s.calm /\ s.pc \in Busy \cup {"head", "done", "gone"} =>
           /\ s.pending \subseteq 1 .. s.total /\ R = (1 .. s.total) \ s.pending
           /\ Cardinality(M) = s.done
      /\ s.calm /\ ~s.stopped /\ s.pc \in {"done", "gone"} => s.pending = {}
  BY <1>1, <1>2
<1> QED BY <1>3, <1>4 DEF Records

LEMMA LogSame ==
  ASSUME UNCHANGED log, NEW t
  PROVE  Mine(t)' = Mine(t) /\ Ran(t)' = Ran(t)
BY DEF Mine, Ran

LEMMA LogGrows ==
  ASSUME EspTypes, NEW e \in Entry, log' = Append(log, e), NEW t \in Tasks
  PROVE  /\ e.t # t => Mine(t)' = Mine(t) /\ Ran(t)' = Ran(t)
         /\ e.t = t => /\ Ran(t)' = Ran(t) \cup {e.idx}
                       /\ Cardinality(Mine(t)') = Cardinality(Mine(t)) + 1
<1> DEFINE n == Len(log)
<1>1. log \in Seq(Entry) /\ n \in Nat /\ DOMAIN log = 1 .. n
  BY DEF EspTypes, LogTypes
<1>2. /\ DOMAIN log' = 1 .. n + 1 /\ (\A q \in 1 .. n : log'[q] = log[q]) /\ log'[n + 1] = e
  BY <1>1
<1> HIDE DEF n
<1>3. CASE e.t # t
  <2>1. Mine(t)' = Mine(t) BY <1>1, <1>2, <1>3 DEF Mine
  <2>2. Ran(t)' = Ran(t) BY <1>1, <1>2, <2>1 DEF Ran, Mine
  <2> QED BY <1>3, <2>1, <2>2
<1>4. CASE e.t = t
  <2>1. Mine(t)' = Mine(t) \cup {n + 1} BY <1>1, <1>2, <1>4 DEF Mine
  <2>2. Mine(t) \subseteq 1 .. n /\ n + 1 \notin Mine(t) BY <1>1 DEF Mine
  <2>3. IsFiniteSet(Mine(t))
    <3>1. IsFiniteSet(1 .. n)
      <4>1. 1 \in Int /\ n \in Int BY <1>1
      <4> QED BY <4>1, FS_Interval
    <3> QED BY <2>2, <3>1, FS_Subset
  <2>4. Cardinality(Mine(t) \cup {n + 1}) = Cardinality(Mine(t)) + 1
    BY <2>2, <2>3, FS_AddElement
  <2>5. Ran(t)' = Ran(t) \cup {e.idx}
    <3>1. Ran(t)' = {log'[q].idx : q \in Mine(t) \cup {n + 1}} BY <2>1 DEF Ran
    <3>2. \A q \in Mine(t) : log'[q].idx = log[q].idx BY <1>2, <2>2
    <3>3. log'[n + 1].idx = e.idx BY <1>2
    <3> QED BY <3>1, <3>2, <3>3 DEF Ran
  <2> QED BY <1>4, <2>1, <2>4, <2>5
<1> QED BY <1>3, <1>4

\* A verdict is added by the task that reached it.
LEMMA RecordLogs ==
  ASSUME EspTypes, NEW t \in Tasks, NEW x \in Answer(Nat), tasks[t].pc = "read",
         EspRecord(t, x)
  PROVE  /\ ~tasks[t].calm => log' = log
         /\ tasks[t].calm => \E e \in Entry :
              /\ log' = Append(log, e) /\ e.t = t /\ e.idx = tasks[t].pi /\ e.f = tasks[t].f
              /\ e.txn = x /\ \E f \in Deref(t) : e.pass = Evaluate(f, x.obs)
<1>1. PICK f \in Deref(t) :
        log' = IF ~tasks[t].calm THEN log
               ELSE Append(log, [t |-> t, idx |-> tasks[t].pi, f |-> tasks[t].f,
                                 pass |-> Evaluate(f, x.obs), txn |-> x])
  BY DEF EspRecord
<1>2. TaskOK(tasks[t]) /\ tasks[t] \in TaskRec BY TaskOf
<1>3. tasks[t].f \in FaultSet /\ tasks[t].pi \in Nat
  BY <1>2 DEF TaskOK, Busy, TaskRec
<1>4. f \in FaultSet BY <1>3 DEF Deref
<1>5. PICK p \in BOOLEAN : p = Evaluate(f, x.obs)
  BY <1>4, EvaluateType DEF Answer
<1> DEFINE e == [t |-> t, idx |-> tasks[t].pi, f |-> tasks[t].f, pass |-> p, txn |-> x]
<1>6. e \in Entry BY <1>3 DEF Entry
<1>7. tasks[t].calm => log' = Append(log, e) BY <1>1, <1>5
<1>8. e.t = t /\ e.idx = tasks[t].pi /\ e.f = tasks[t].f /\ e.txn = x /\ e.pass = p OBVIOUS
<1> HIDE DEF e
<1> QED BY <1>1, <1>5, <1>6, <1>7, <1>8

LEMMA AnswerTypes ==
  ASSUME EspTypes, NEW t \in Tasks, EspReceive(t) \/ EspTimeout(t)
  PROVE  /\ tasks[t].pc = "read"
         /\ EspReceive(t) => Head(lines) \in Answer(Nat) /\ EspRecord(t, Head(lines))
         /\ EspTimeout(t) => NoTxn \in Answer(Nat) /\ EspRecord(t, NoTxn)
<1>1. lines \in Seq(Answer(Nat)) BY DEF EspTypes, DutTypes
<1>2. EspReceive(t) => Head(lines) \in Answer(Nat) BY <1>1 DEF EspReceive
<1> QED BY <1>2, NoAnswerType DEF EspReceive, EspTimeout

\* What the steps of a task do to the log.
LEMMA WorkLogs ==
  ASSUME EspTypes, NEW u \in Tasks, TaskStep(u)
  PROVE  log' = log \/ \E e \in Entry : log' = Append(log, e) /\ e.t = u
<1>1. CASE EspReceive(u) \/ EspTimeout(u)
  <2>1. PICK x \in Answer(Nat) : EspRecord(u, x) BY <1>1, AnswerTypes
  <2>2. tasks[u].pc = "read" BY <1>1, AnswerTypes
  <2>3. tasks[u].calm \/ ~tasks[u].calm OBVIOUS
  <2> QED BY <2>1, <2>2, <2>3, RecordLogs
<1>2. CASE ~(EspReceive(u) \/ EspTimeout(u))
  BY <1>2 DEF TaskStep, Begin, Pick, ArmWrite, EspSettle, EspSend, Done, End
<1> QED BY <1>1, <1>2

LEMMA OwnRecords ==
  ASSUME EspTypes, Alone, NEW t \in Tasks, Records(t), TaskStep(t)
  PROVE  Records(t)'
<1>1. CASE Begin(t)
  <2>1. tasks[t].pc = "new" /\ UNCHANGED log BY <1>1 DEF Begin
  <2>2. TaskOK(tasks[t]) BY TaskOf
  <2>3. tasks[t].done = 0 BY <2>1, <2>2 DEF TaskOK
  <2>4. Mine(t)' = {} /\ Ran(t)' = {} BY <2>1, LogSame DEF Records, Ran
  <2>5. /\ tasks'[t].pc = "head" /\ tasks'[t].pending = 1 .. Len(g_campaign)
        /\ tasks'[t].total = Len(g_campaign) /\ tasks'[t].done = 0
    BY <1>1, <2>3, BeginFields, CampaignShape DEF EspTypes
  <2>6. Cardinality({}) = 0 BY FS_EmptySet
  <2> QED BY <2>4, <2>5, <2>6 DEF Records, Busy
<1>2. CASE Pick(t) \/ ArmWrite(t) \/ EspSettle(t) \/ EspSend(t)
  <2>1. /\ tasks[t].pc \in Busy \cup {"head"} /\ UNCHANGED log
    BY <1>2 DEF Pick, ArmWrite, EspSettle, EspSend, Busy
  <2>2. KeepsWork(t) /\ tasks'[t].pc \in Busy
    <3>1. CASE Pick(t) BY <3>1, PickFields DEF Busy
    <3>2. CASE ArmWrite(t) BY <3>2, ArmWriteFields DEF Busy
    <3>3. CASE EspSettle(t) BY <3>3, SettleFields DEF Busy
    <3>4. CASE EspSend(t) BY <3>4, SendFields DEF Busy
    <3> QED BY <1>2, <3>1, <3>2, <3>3, <3>4
  <2>3. Mine(t)' = Mine(t) /\ Ran(t)' = Ran(t) BY <2>1, LogSame
  <2>4. tasks'[t].pc \notin {"none", "new", "done", "gone"} BY <2>2 DEF Busy
  <2> QED BY <2>1, <2>2, <2>3, <2>4 DEF Records, KeepsWork, Keeps
<1>3. CASE EspReceive(t) \/ EspTimeout(t)
  <2>1. PICK x \in Answer(Nat) : EspRecord(t, x) BY <1>3, AnswerTypes
  <2>2. tasks[t].pc = "read" BY <1>3, AnswerTypes
  <2>3. TaskOK(tasks[t]) /\ tasks[t] \in TaskRec BY TaskOf
  <2>4. tasks[t].pi \in tasks[t].pending BY <2>2, <2>3 DEF TaskOK, Busy
  <2>5. /\ tasks'[t].calm = tasks[t].calm /\ tasks'[t].pc = "head"
        /\ tasks'[t].total = tasks[t].total /\ tasks'[t].done = tasks[t].done + 1
        /\ tasks'[t].pending = tasks[t].pending \ {tasks[t].pi}
    BY <2>1, RecordFields DEF Keeps
  <2>6. CASE ~tasks[t].calm
    BY <2>5, <2>6 DEF Records
  <2>7. CASE tasks[t].calm
    <3>1. PICK e \in Entry : log' = Append(log, e) /\ e.t = t /\ e.idx = tasks[t].pi
      BY <2>1, <2>2, <2>7, RecordLogs
    <3>2. Ran(t)' = Ran(t) \cup {tasks[t].pi} /\ Cardinality(Mine(t)') = Cardinality(Mine(t)) + 1
      BY <3>1, LogGrows
    <3>3. /\ tasks[t].pending \subseteq 1 .. tasks[t].total
          /\ Ran(t) = (1 .. tasks[t].total) \ tasks[t].pending
          /\ Cardinality(Mine(t)) = tasks[t].done
      BY <2>2, <2>7 DEF Records, Busy
    <3>4. /\ tasks'[t].pending \subseteq 1 .. tasks'[t].total
          /\ Ran(t)' = (1 .. tasks'[t].total) \ tasks'[t].pending
          /\ Cardinality(Mine(t)') = tasks'[t].done
      BY <2>4, <2>5, <3>2, <3>3
    <3> QED BY <2>5, <3>4 DEF Records
  <2> QED BY <2>6, <2>7
<1>4. CASE Done(t)
  <2>1. tasks[t].pc = "head" /\ (tasks[t].pending = {} \/ ~g_running) /\ UNCHANGED log
    BY <1>4 DEF Done
  <2>2. KeepsWork(t) /\ tasks'[t].pc = "done" BY <1>4, SettleFields
  <2>3. Mine(t)' = Mine(t) /\ Ran(t)' = Ran(t) BY <2>1, LogSame
  <2>4. ASSUME tasks[t].calm, ~tasks[t].stopped PROVE tasks[t].pending = {}
    <3>1. Calm(t) BY <2>1, <2>4 DEF Calm, Alive
    <3>2. g_running BY <3>1, <2>4 DEF Alone, CalmTask
    <3> QED BY <2>1, <3>2
  <2> QED BY <2>1, <2>2, <2>3, <2>4 DEF Records, KeepsWork, Keeps
<1>5. CASE End(t)
  <2>1. tasks[t].pc = "done" /\ UNCHANGED log BY <1>5 DEF End
  <2>2. tasks'[t] = [tasks[t] EXCEPT !.pc = "gone"] BY <1>5, SetOthers DEF End
  <2>3. tasks[t] \in TaskRec BY TaskOf
  <2>4. KeepsWork(t) /\ tasks'[t].pc = "gone" BY <2>2, <2>3 DEF KeepsWork, Keeps, TaskRec
  <2>5. Mine(t)' = Mine(t) /\ Ran(t)' = Ran(t) BY <2>1, LogSame
  <2> QED BY <2>1, <2>4, <2>5 DEF Records, KeepsWork, Keeps
<1> QED BY <1>1, <1>2, <1>3, <1>4, <1>5 DEF TaskStep

LEMMA KilledRecords ==
  ASSUME EspTypes, NEW t \in Tasks, Records(t), Reboot
  PROVE  Records(t)'
<1>1. UNCHANGED log
      /\ tasks'[t] = IF Alive(t) THEN [tasks[t] EXCEPT !.pc = "killed"] ELSE tasks[t]
  BY DEF Reboot
<1>2. tasks[t] \in TaskRec BY TaskOf
<1>3. CASE Alive(t)
  <2>1. tasks'[t].pc = "killed" BY <1>1, <1>2, <1>3 DEF TaskRec
  <2> QED BY <2>1 DEF Records, Busy
<1>4. CASE ~Alive(t)
  <2>1. SameRecord(t) BY <1>1, <1>4 DEF SameRecord
  <2> QED BY <1>1, <2>1, LogSame, SameRecordKept
<1> QED BY <1>3, <1>4

LEMMA EspRecords ==
  ASSUME EspTypes, Alone, NEW t \in Tasks, Records(t), EspNext
  PROVE  Records(t)'
<1>1. CASE \E u \in Tasks : TaskStep(u)
  <2>1. PICK u \in Tasks : TaskStep(u) BY <1>1
  <2>2. CASE u = t BY <2>1, <2>2, OwnRecords
  <2>3. CASE u # t
    <3>1. PICK r : Set(u, r) BY <2>1, WorkerSets
    <3>2. tasks'[t] = tasks[t] BY <2>3, <3>1, SetOthers
    <3>3. SameRecord(t) BY <3>2 DEF SameRecord
    <3>4. Mine(t)' = Mine(t) /\ Ran(t)' = Ran(t) BY <2>1, <2>3, WorkLogs, LogSame, LogGrows
    <3> QED BY <3>3, <3>4, SameRecordKept
  <2> QED BY <2>2, <2>3
<1>2. CASE \E u \in Tasks : Trap(u) BY <1>2, KilledRecords DEF Trap
<1>3. CASE SplitLine \/ ManualWrite \/ Boot \/ (DutStep /\ UNCHANGED espVars)
  <2>1. UNCHANGED log /\ tasks'[t] = tasks[t]
    BY <1>3 DEF SplitLine, ManualWrite, Boot, espVars
  <2>2. SameRecord(t) BY <2>1 DEF SameRecord
  <2> QED BY <2>1, <2>2, LogSame, SameRecordKept
<1>4. CASE EspApply
  <2>1. tasks[t] \in TaskRec BY TaskOf
  <2>2. /\ UNCHANGED log
        /\ tasks'[t] = IF tasks[t].ahead > 0 THEN [tasks[t] EXCEPT !.ahead = @ - 1] ELSE tasks[t]
    BY <1>4 DEF EspApply
  <2>3. SameRecord(t) BY <2>1, <2>2 DEF SameRecord, TaskRec
  <2> QED BY <2>2, <2>3, LogSame, SameRecordKept
<1> QED BY <1>1, <1>2, <1>3, <1>4 DEF EspNext

LEMMA DisturbedRecord ==
  ASSUME EspTypes, NEW t \in Tasks, tasks'[t] = Disturb[t]
  PROVE  SameRecord(t)
<1>1. tasks[t] \in TaskRec BY TaskOf
<1>2. CASE Alive(t)
  <2>1. tasks'[t] = [tasks[t] EXCEPT !.calm = FALSE] BY <1>2 DEF Disturb
  <2> QED BY <1>1, <2>1 DEF SameRecord, TaskRec
<1>3. CASE ~Alive(t)
  BY <1>3 DEF Disturb, SameRecord
<1> QED BY <1>2, <1>3

LEMMA AppRecords ==
  ASSUME EspTypes, NEW t \in Tasks, Records(t), App
  PROVE  Records(t)'
<1>1. CASE AppConnect \/ PushAndRun \/ PushFails \/ Hear \/ OpenRun \/ Back \/ Drop \/ Restart
  <2>1. UNCHANGED <<tasks, log>>
    BY <1>1 DEF AppConnect, PushAndRun, PushFails, Hear, OpenRun, Back, Drop, Restart, Connect,
                Disconnect, espVars, gattVars
  <2>2. SameRecord(t) BY <2>1 DEF SameRecord
  <2> QED BY <2>1, <2>2, LogSame, SameRecordKept
<1>2. CASE Write
  <2>1. CASE Chunk(picked, step.n)
    <3>1. UNCHANGED <<tasks, log>> BY <2>1 DEF Chunk
    <3>2. SameRecord(t) BY <3>1 DEF SameRecord
    <3> QED BY <3>1, <3>2, LogSame, SameRecordKept
  <2>2. CASE EndOfCampaign
    <3>1. CASE Throws(buf) BY <2>2, <3>1, KilledRecords DEF EndOfCampaign
    <3>2. CASE ~Throws(buf)
      <4>1. UNCHANGED log /\ tasks'[t] = [Disturb[t] EXCEPT !.stale = Alive(t)]
        BY <2>2, <3>2 DEF EndOfCampaign
      <4>2. tasks[t] \in TaskRec BY TaskOf
      <4>3. SameRecord(t)
        <5>1. CASE Alive(t)
          <6>1. tasks'[t] = [[tasks[t] EXCEPT !.calm = FALSE] EXCEPT !.stale = Alive(t)]
            BY <4>1, <5>1 DEF Disturb
          <6> QED BY <4>2, <6>1 DEF SameRecord, TaskRec
        <5>2. CASE ~Alive(t)
          <6>1. tasks'[t] = [tasks[t] EXCEPT !.stale = Alive(t)] BY <4>1, <5>2 DEF Disturb
          <6> QED BY <4>2, <6>1 DEF SameRecord, TaskRec
        <5> QED BY <5>1, <5>2
      <4> QED BY <4>1, <4>3, LogSame, SameRecordKept
    <3> QED BY <3>1, <3>2
  <2>3. CASE OnStart
    <3>1. UNCHANGED log BY <2>3 DEF OnStart
    <3>2. CASE ~g_running /\ g_campaign # <<>>
      <4>1. PICK u \in Unused :
              tasks' = [Disturb EXCEPT ![u] = [NoTask EXCEPT !.pc = "new",
                                                             !.calm = Others(u) = {} /\ AtRest]]
        BY <2>3, <3>2 DEF OnStart
      <4>2. u \in Tasks /\ tasks[u].pc = "none" BY DEF Unused
      <4>3. DOMAIN Disturb = Tasks BY DisturbTypes DEF EspTypes
      <4>4. CASE u = t
        <5>1. tasks'[t].pc = "new" BY <4>1, <4>3, <4>4 DEF NoTask
        <5>2. Mine(t)' = {} BY <3>1, <4>2, <4>4, LogSame DEF Records
        <5> QED BY <5>1, <5>2 DEF Records, Busy
      <4>5. CASE u # t
        <5>1. tasks'[t] = Disturb[t] BY <4>1, <4>3, <4>5
        <5> QED BY <3>1, <5>1, DisturbedRecord, LogSame, SameRecordKept
      <4> QED BY <4>4, <4>5
    <3>3. CASE ~(~g_running /\ g_campaign # <<>>)
      <4>1. tasks' = tasks BY <2>3, <3>3 DEF OnStart
      <4>2. SameRecord(t) BY <4>1 DEF SameRecord
      <4> QED BY <3>1, <4>2, LogSame, SameRecordKept
    <3> QED BY <3>2, <3>3
  <2> QED BY <1>2, <2>1, <2>2, <2>3 DEF Write
<1>3. CASE PressStop
  <2>1. UNCHANGED log /\ tasks'[t] = [tasks[t] EXCEPT !.stopped = @ \/ Alive(t)]
    BY <1>3 DEF PressStop, OnStop
  <2>2. tasks[t] \in TaskRec BY TaskOf
  <2>3. SameRecord(t) BY <2>1, <2>2 DEF SameRecord, TaskRec
  <2> QED BY <2>1, <2>3, LogSame, SameRecordKept
<1>4. CASE ArmManual
  <2>1. UNCHANGED log /\ tasks' = Disturb BY <1>4 DEF ArmManual, OnControlArm
  <2> QED BY <2>1, DisturbedRecord, LogSame, SameRecordKept
<1> QED BY <1>1, <1>2, <1>3, <1>4 DEF App

\* main.cpp's loop: a task that nothing crossed and nobody stopped ends with every
\* scenario of the campaign it read evaluated once, and none twice.
THEOREM CalmRunsAllTheorem == Spec => []CalmRunsAll
<1>1. Init => AllRecords
  <2> SUFFICES ASSUME Init, NEW t \in Tasks PROVE Records(t) BY DEF AllRecords
  <2>1. log = <<>> /\ tasks[t] = NoTask BY DEF Init, EspInit
  <2>2. Mine(t) = {} /\ tasks[t].pc = "none" BY <2>1 DEF Mine, NoTask
  <2> QED BY <2>2 DEF Records, Busy
<1>2. Types /\ Alone /\ AllRecords /\ [Next]_vars => AllRecords'
  <2> SUFFICES ASSUME Types, Alone, AllRecords, [Next]_vars, NEW t \in Tasks
               PROVE  Records(t)'
    BY DEF AllRecords
  <2>1. EspTypes /\ Records(t) BY DEF Types, AllRecords
  <2>2. CASE App BY <2>1, <2>2, AppRecords
  <2>3. CASE EspNext BY <2>1, <2>3, EspRecords
  <2>4. CASE UNCHANGED vars
    <3>1. UNCHANGED <<tasks, log>> BY <2>4 DEF vars, espVars
    <3>2. SameRecord(t) BY <3>1 DEF SameRecord
    <3> QED BY <2>1, <3>1, <3>2, LogSame, SameRecordKept
  <2> QED BY <2>2, <2>3, <2>4 DEF Next
<1>3. Types /\ AllRecords => CalmRunsAll
  <2> SUFFICES ASSUME Types, AllRecords, NEW t \in Tasks,
                      tasks[t].pc \in {"done", "gone"}, tasks[t].calm, ~tasks[t].stopped
               PROVE  /\ tasks[t].done = tasks[t].total
                      /\ Cardinality(Mine(t)) = tasks[t].total /\ Ran(t) = 1 .. tasks[t].total
    BY DEF CalmRunsAll, Mine, Ran
  <2>1. Records(t) BY DEF AllRecords
  <2>2. TaskOK(tasks[t]) /\ tasks[t] \in TaskRec BY TaskOf DEF Types
  <2>3. tasks[t].pending = {} BY <2>1 DEF Records
  <2>4. /\ Ran(t) = (1 .. tasks[t].total) \ tasks[t].pending
        /\ Cardinality(Mine(t)) = tasks[t].done
    BY <2>1 DEF Records
  <2>5. tasks[t].done = tasks[t].total
    <3>1. Cardinality({}) = 0 BY FS_EmptySet
    <3>2. tasks[t].done + Cardinality(tasks[t].pending) = tasks[t].total BY <2>2 DEF TaskOK
    <3>3. tasks[t].done \in Nat BY <2>2 DEF TaskRec
    <3> QED BY <2>3, <3>1, <3>2, <3>3
  <2> QED BY <2>3, <2>4, <2>5
<1> QED BY <1>1, <1>2, <1>3, TypesInvariant, AloneInvariant, PTL DEF Spec
-----------------------------------------------------------------------------
(* Armed whole                                                             *)

\* w is the last write to its register: on its way, or arrived.
Lands(w) ==
  \/ \E i \in 1 .. Len(link) : link[i] = w /\ \A j \in i + 1 .. Len(link) : link[j][1] # w[1]
  \/ regs[w[1]] = w[2] /\ \A j \in 1 .. Len(link) : link[j][1] # w[1]

\* The first n writes of arm() are out, in order and not overwritten.
Out(r, n) ==
  /\ Len(r.todo) = 5 - n /\ \A j \in 1 .. 5 - n : r.todo[j] = ArmWrites(r.f)[n + j]
  /\ \A k \in 1 .. n : Lands(ArmWrites(r.f)[k])

Arming(t) ==
  LET r == tasks[t] IN
  /\ r.pc = "arm" => \E n \in 1 .. 4 : Out(r, n)
  /\ r.pc = "settle" => r.ahead = Len(link) /\ \A k \in 1 .. 5 : Lands(ArmWrites(r.f)[k])
  /\ r.pc \in {"send", "read"} => link = <<>> /\ Injecting(regs) = Wants(r.f)

LEMMA LandsSent ==
  ASSUME FpgaTypes, NEW w \in RegWrite, link' = Append(link, w), UNCHANGED regs
  PROVE  /\ Lands(w)'
         /\ \A v \in RegWrite : Lands(v) /\ v[1] # w[1] => Lands(v)'
<1>1. link \in Seq(RegWrite) BY DEF FpgaTypes
<1>2. /\ Len(link) \in Nat /\ Len(link') = Len(link) + 1 /\ link'[Len(link) + 1] = w
      /\ \A i \in 1 .. Len(link) : link'[i] = link[i]
  BY <1>1
<1>3. Lands(w)' BY <1>2 DEF Lands
<1>4. ASSUME NEW v \in RegWrite, Lands(v), v[1] # w[1] PROVE Lands(v)'
  <2>1. CASE \E i \in 1 .. Len(link) :
               link[i] = v /\ \A j \in i + 1 .. Len(link) : link[j][1] # v[1]
    <3>1. PICK i \in 1 .. Len(link) :
            link[i] = v /\ \A j \in i + 1 .. Len(link) : link[j][1] # v[1]
      BY <2>1
    <3>2. i \in 1 .. Len(link') /\ link'[i] = v BY <1>2, <3>1
    <3>3. ASSUME NEW j \in i + 1 .. Len(link') PROVE link'[j][1] # v[1]
      <4>1. j \in i + 1 .. Len(link) \/ j = Len(link) + 1 BY <1>2
      <4>2. CASE j = Len(link) + 1 BY <4>2, <1>2, <1>4
      <4>3. CASE j \in i + 1 .. Len(link)
        <5>1. j \in 1 .. Len(link) BY <4>3, <1>2
        <5> QED BY <4>3, <5>1, <1>2, <3>1
      <4> QED BY <4>1, <4>2, <4>3
    <3> QED BY <3>2, <3>3 DEF Lands
  <2>2. CASE regs[v[1]] = v[2] /\ \A j \in 1 .. Len(link) : link[j][1] # v[1]
    <3>1. ASSUME NEW j \in 1 .. Len(link') PROVE link'[j][1] # v[1]
      <4>1. j \in 1 .. Len(link) \/ j = Len(link) + 1 BY <1>2
      <4> QED BY <4>1, <1>2, <1>4, <2>2
    <3> QED BY <2>2, <3>1 DEF Lands
  <2> QED BY <1>4, <2>1, <2>2 DEF Lands
<1> QED BY <1>3, <1>4

LEMMA LandsApplied ==
  ASSUME FpgaTypes, Apply, NEW v \in RegWrite, Lands(v)
  PROVE  Lands(v)'
<1>1. link \in Seq(RegWrite) /\ regs \in [0 .. 4 -> 0 .. 255] /\ link # <<>>
  BY DEF FpgaTypes, Apply
<1>2. /\ Len(link) \in Nat \ {0} /\ link' = Tail(link) /\ Len(link') = Len(link) - 1
      /\ \A i \in 1 .. Len(link) - 1 : link'[i] = link[i + 1]
  BY <1>1 DEF Apply
<1>3. Head(link) = link[1] /\ regs' = [regs EXCEPT ![link[1][1]] = link[1][2]]
  <2>1. Head(link) = link[1] BY <1>1
  <2> QED BY <2>1 DEF Apply
<1>4. v[1] \in 0 .. 4 BY DEF RegWrite
<1>5. CASE \E i \in 1 .. Len(link) :
             link[i] = v /\ \A j \in i + 1 .. Len(link) : link[j][1] # v[1]
  <2>1. PICK i \in 1 .. Len(link) :
          link[i] = v /\ \A j \in i + 1 .. Len(link) : link[j][1] # v[1]
    BY <1>5
  <2>2. CASE i = 1
    <3>1. regs'[v[1]] = v[2] BY <1>1, <1>3, <1>4, <2>1, <2>2
    <3>2. ASSUME NEW j \in 1 .. Len(link') PROVE link'[j][1] # v[1]
      <4>1. j \in 1 .. Len(link) - 1 /\ j + 1 \in i + 1 .. Len(link) BY <1>2, <2>2
      <4> QED BY <4>1, <1>2, <2>1
    <3> QED BY <3>1, <3>2 DEF Lands
  <2>3. CASE i # 1
    <3>1. i - 1 \in 1 .. Len(link') /\ link'[i - 1] = v BY <1>2, <2>1, <2>3
    <3>2. ASSUME NEW j \in i - 1 + 1 .. Len(link') PROVE link'[j][1] # v[1]
      <4>1. j \in 1 .. Len(link) - 1 /\ j + 1 \in i + 1 .. Len(link) BY <1>2, <2>3
      <4> QED BY <4>1, <1>2, <2>1
    <3> QED BY <3>1, <3>2 DEF Lands
  <2> QED BY <2>2, <2>3
<1>6. CASE regs[v[1]] = v[2] /\ \A j \in 1 .. Len(link) : link[j][1] # v[1]
  <2>1. link[1][1] # v[1] BY <1>2, <1>6
  <2>2. regs'[v[1]] = v[2] BY <1>1, <1>3, <1>4, <1>6, <2>1
  <2>3. ASSUME NEW j \in 1 .. Len(link') PROVE link'[j][1] # v[1]
    <3>1. j \in 1 .. Len(link) - 1 /\ j + 1 \in 1 .. Len(link) BY <1>2
    <3> QED BY <3>1, <1>2, <1>6
  <2> QED BY <2>2, <2>3 DEF Lands
<1> QED BY <1>5, <1>6 DEF Lands

LEMMA LandsStays ==
  ASSUME UNCHANGED fpgaVars, NEW v, Lands(v)
  PROVE  Lands(v)'
BY DEF Lands, fpgaVars

\* The five writes go to five registers.
LEMMA ArmAddresses ==
  ASSUME NEW f \in FaultSet, NEW k \in 1 .. 5, NEW m \in 1 .. 5, k # m
  PROVE  ArmWrites(f)[k][1] # ArmWrites(f)[m][1]
<1>1. PICK w1, w2, w3, w4 \in (1 .. 4) \X (0 .. 255) :
        /\ ArmWrites(f) = <<w1, w2, w3, w4, <<0, 1>>>>
        /\ w1[1] # w2[1] /\ w1[1] # w3[1] /\ w1[1] # w4[1]
        /\ w2[1] # w3[1] /\ w2[1] # w4[1] /\ w3[1] # w4[1]
  BY ArmShape
<1>2. w1[1] # 0 /\ w2[1] # 0 /\ w3[1] # 0 /\ w4[1] # 0 OBVIOUS
<1> DEFINE s == ArmWrites(f)
<1>3. s[1] = w1 /\ s[2] = w2 /\ s[3] = w3 /\ s[4] = w4 /\ s[5][1] = 0 BY <1>1
<1> HIDE DEF s
<1>4. s[k][1] # s[m][1] BY <1>1, <1>2, <1>3
<1> QED BY <1>4 DEF s

\* Once they have all arrived, the bench injects what the fault wants.
LEMMA ArmedInjects ==
  ASSUME FpgaTypes, NEW f \in FaultSet, link = <<>>, \A k \in 1 .. 5 : Lands(ArmWrites(f)[k])
  PROVE  Injecting(regs) = Wants(f)
<1>1. PICK w1, w2, w3, w4 \in (1 .. 4) \X (0 .. 255) :
        /\ ArmWrites(f) = <<w1, w2, w3, w4, <<0, 1>>>>
        /\ \A r \in [0 .. 4 -> 0 .. 255] :
             /\ r[w1[1]] = w1[2] /\ r[w2[1]] = w2[2] /\ r[w3[1]] = w3[2]
             /\ r[w4[1]] = w4[2] /\ r[0] = 1
             => Injecting(r) = Wants(f)
  BY ArmShape
<1>2. Len(link) = 0 OBVIOUS
<1>3. \A v : Lands(v) => regs[v[1]] = v[2] BY <1>2 DEF Lands
<1> DEFINE s == ArmWrites(f)
<1>4. s[1] = w1 /\ s[2] = w2 /\ s[3] = w3 /\ s[4] = w4 /\ s[5] = <<0, 1>> BY <1>1
<1>5. Lands(s[1]) /\ Lands(s[2]) /\ Lands(s[3]) /\ Lands(s[4]) /\ Lands(s[5]) OBVIOUS
<1> HIDE DEF s
<1>6. Lands(w1) /\ Lands(w2) /\ Lands(w3) /\ Lands(w4) /\ Lands(<<0, 1>>) BY <1>4, <1>5
<1>7. /\ regs[w1[1]] = w1[2] /\ regs[w2[1]] = w2[2] /\ regs[w3[1]] = w3[2]
      /\ regs[w4[1]] = w4[2] /\ regs[0] = 1
  <2>1. regs[<<0, 1>>[1]] = <<0, 1>>[2] BY <1>3, <1>6
  <2> QED BY <1>3, <1>6, <2>1
<1>8. regs \in [0 .. 4 -> 0 .. 255] BY DEF FpgaTypes
<1> QED BY <1>1, <1>7, <1>8

\* A task on its own reads the fault it picked.
LEMMA OwnFault ==
  ASSUME EspTypes, NEW t \in Tasks, CalmTask(t), tasks[t].pc \in Busy
  PROVE  Deref(t) = {tasks[t].f} /\ tasks[t].f \in FaultSet /\ tasks[t].pi \in Nat
<1>1. TaskOK(tasks[t]) /\ tasks[t] \in TaskRec BY TaskOf
<1> QED BY <1>1 DEF Deref, CalmTask, TaskOK, TaskRec

LEMMA ArmWriteArming ==
  ASSUME EspTypes, NEW t \in Tasks, CalmTask(t), Arming(t), ArmWrite(t)
  PROVE  Arming(t)'
<1> DEFINE rest == tasks[t].todo
<1>0. tasks[t].pc = "arm" /\ UNCHANGED regs BY DEF ArmWrite
<1>1. PICK f \in FaultSet : f = tasks[t].f /\ Deref(t) = {f} BY <1>0, OwnFault DEF Busy
<1>2. PICK n \in 1 .. 4 : Out(tasks[t], n) BY <1>0 DEF Arming
<1>3. /\ Len(rest) = 5 - n /\ (\A j \in 1 .. 5 - n : rest[j] = ArmWrites(f)[n + j])
      /\ \A k \in 1 .. n : Lands(ArmWrites(f)[k])
  BY <1>1, <1>2 DEF Out
<1>4. rest \in Seq(RegWrite)
  <2>1. tasks[t] \in TaskRec BY TaskOf
  <2> QED BY <2>1 DEF TaskRec
<1>5. link' = Append(link, IF Len(rest) = 1 THEN Head(rest)
                           ELSE <<Head(rest)[1], ArmWrites(f)[6 - Len(rest)][2]>>)
  <2>1. PICK g \in Deref(t) :
          link' = Append(link, IF Len(rest) = 1 THEN Head(rest)
                               ELSE <<Head(rest)[1], ArmWrites(g)[6 - Len(rest)][2]>>)
    BY DEF ArmWrite
  <2> QED BY <1>1, <2>1
<1>6. /\ tasks'[t].f = f /\ tasks'[t].todo = Tail(rest)
      /\ tasks'[t].pc = (IF Len(rest) = 1 THEN "settle" ELSE "arm")
      /\ tasks'[t].ahead = (IF Len(rest) = 1 THEN Len(link') ELSE 0)
  BY <1>1, ArmWriteFields
<1> HIDE DEF rest
<1>w. PICK w \in RegWrite : w = ArmWrites(f)[n + 1]
  <2>1. n + 1 \in 1 .. 5 OBVIOUS
  <2> QED BY <2>1, ArmWriteOf
<1>7. Head(rest) = w /\ 6 - Len(rest) = n + 1
  <2>1. n + 1 \in 1 .. 5 /\ 1 \in 1 .. 5 - n OBVIOUS
  <2>2. rest # <<>> /\ Head(rest) = rest[1] BY <1>3, <1>4, <2>1
  <2> QED BY <2>1, <2>2, <1>3, <1>w
<1>8. link' = Append(link, w)
  <2>1. <<w[1], w[2]>> = w BY DEF RegWrite
  <2> QED BY <1>5, <1>7, <1>w, <2>1
<1>9. \A k \in 1 .. n + 1 : Lands(ArmWrites(f)[k])'
  <2>1. Lands(w)' /\ \A v \in RegWrite : Lands(v) /\ v[1] # w[1] => Lands(v)'
    BY <1>0, <1>8, LandsSent DEF EspTypes
  <2>2. ASSUME NEW k \in 1 .. n PROVE Lands(ArmWrites(f)[k])'
    <3>1. k \in 1 .. 5 /\ n + 1 \in 1 .. 5 /\ k # n + 1 OBVIOUS
    <3>2. PICK v \in RegWrite : v = ArmWrites(f)[k] BY <3>1, ArmWriteOf
    <3>3. v[1] # w[1] BY <1>w, <3>1, <3>2, ArmAddresses
    <3>4. Lands(v) BY <1>3, <3>2
    <3> QED BY <2>1, <3>2, <3>3, <3>4
  <2>3. ASSUME NEW k \in 1 .. n + 1 PROVE Lands(ArmWrites(f)[k])'
    <3>1. k \in 1 .. n \/ k = n + 1 OBVIOUS
    <3> QED BY <1>w, <2>1, <2>2, <3>1
  <2> QED BY <2>3
<1>10. CASE n = 4
  <2>1. Len(rest) = 1 BY <1>3, <1>10
  <2>2. tasks'[t].pc = "settle" /\ tasks'[t].ahead = Len(link') BY <1>6, <2>1
  <2>3. \A k \in 1 .. 5 : Lands(ArmWrites(f)[k])' BY <1>9, <1>10
  <2> QED BY <1>6, <2>2, <2>3 DEF Arming
<1>11. CASE n # 4
  <2>1. Len(rest) # 1 /\ n + 1 \in 1 .. 4 BY <1>3, <1>11
  <2>2. tasks'[t].pc = "arm" BY <1>6, <2>1
  <2>3. /\ Len(Tail(rest)) = 5 - (n + 1)
        /\ \A j \in 1 .. 5 - (n + 1) : Tail(rest)[j] = ArmWrites(f)[n + 1 + j]
    <3>1. Len(Tail(rest)) = Len(rest) - 1 /\ \A j \in 1 .. Len(rest) - 1 : Tail(rest)[j] = rest[j + 1]
      BY <1>3, <1>4
    <3>2. ASSUME NEW j \in 1 .. 5 - (n + 1) PROVE Tail(rest)[j] = ArmWrites(f)[n + 1 + j]
      <4>1. j \in 1 .. Len(rest) - 1 /\ j + 1 \in 1 .. 5 - n /\ n + (j + 1) = n + 1 + j
        BY <1>3
      <4> QED BY <4>1, <3>1, <1>3
    <3> QED BY <1>3, <3>1, <3>2
  <2>4. Out(tasks[t], n + 1)' BY <1>6, <1>9, <2>3 DEF Out
  <2> QED BY <2>1, <2>2, <2>4 DEF Arming
<1> QED BY <1>10, <1>11

LEMMA PickArming ==
  ASSUME EspTypes, NEW t \in Tasks, Pick(t)
  PROVE  Arming(t)'
<1>1. PICK f \in FaultSet :
        /\ link' = Append(link, Head(ArmWrites(f)))
        /\ tasks'[t].pc = "arm" /\ tasks'[t].f = f /\ tasks'[t].todo = Tail(ArmWrites(f))
  BY PickFields
<1> DEFINE s == ArmWrites(f)
<1>2. s \in Seq(RegWrite) /\ Len(s) = 5 BY ArmWritesType
<1> HIDE DEF s
<1>3. /\ Head(s) = s[1] /\ Len(Tail(s)) = 4
      /\ \A j \in 1 .. 4 : Tail(s)[j] = s[j + 1]
  BY <1>2
<1>4. s[1] \in RegWrite BY ArmWriteOf DEF s
<1>5. link' = Append(link, s[1]) /\ UNCHANGED regs BY <1>1, <1>3 DEF Pick, s
<1>6. Lands(s[1])' BY <1>4, <1>5, LandsSent DEF EspTypes
<1>7. /\ Len(Tail(s)) = 5 - 1 /\ \A j \in 1 .. 5 - 1 : Tail(s)[j] = s[1 + j]
  BY <1>3
<1>8. \A k \in 1 .. 1 : Lands(s[k])' BY <1>6
<1>9. Out(tasks[t], 1)' BY <1>1, <1>7, <1>8 DEF Out, s
<1> QED BY <1>1, <1>9 DEF Arming

LEMMA ArmingStays ==
  ASSUME NEW t, Arming(t), UNCHANGED fpgaVars, tasks'[t].pc = tasks[t].pc,
         tasks'[t].f = tasks[t].f, tasks'[t].todo = tasks[t].todo,
         tasks'[t].ahead = tasks[t].ahead
  PROVE  Arming(t)'
<1>1. \A v : Lands(v) => Lands(v)' BY LandsStays
<1>2. \A n : Out(tasks[t], n) => Out(tasks[t], n)' BY <1>1 DEF Out
<1> QED BY <1>1, <1>2 DEF Arming, fpgaVars

LEMMA ApplyArming ==
  ASSUME EspTypes, NEW t \in Tasks, Arming(t), EspApply
  PROVE  Arming(t)'
<1>1. TaskOK(tasks[t]) /\ tasks[t] \in TaskRec BY TaskOf
<1>2. Apply /\ tasks'[t] = IF tasks[t].ahead > 0 THEN [tasks[t] EXCEPT !.ahead = tasks[t].ahead - 1]
                           ELSE tasks[t]
  BY DEF EspApply
<1>3. /\ tasks'[t].pc = tasks[t].pc /\ tasks'[t].f = tasks[t].f /\ tasks'[t].todo = tasks[t].todo
      /\ tasks[t].ahead > 0 => tasks'[t].ahead = tasks[t].ahead - 1
  BY <1>1, <1>2 DEF TaskRec
<1>4. link # <<>> /\ Len(link) \in Nat \ {0} /\ Len(link') = Len(link) - 1
  <2>1. link \in Seq(RegWrite) /\ link # <<>> /\ link' = Tail(link)
    BY <1>2 DEF EspTypes, FpgaTypes, Apply
  <2> QED BY <2>1
<1>5. \A v \in RegWrite : Lands(v) => Lands(v)' BY <1>2, LandsApplied DEF EspTypes
<1>6. tasks[t].pc \in Busy => tasks[t].f \in FaultSet BY <1>1 DEF TaskOK
<1>f. PICK f : f = tasks[t].f /\ f = tasks'[t].f BY <1>3
<1>7. CASE tasks[t].pc = "arm"
  <2>1. PICK n \in 1 .. 4 : Out(tasks[t], n) BY <1>7 DEF Arming
  <2>2. ASSUME NEW k \in 1 .. n PROVE Lands(ArmWrites(f)[k])'
    <3>1. k \in 1 .. 5 OBVIOUS
    <3>2. PICK v \in RegWrite : v = ArmWrites(f)[k]
      BY <1>6, <1>7, <1>f, <3>1, ArmWriteOf DEF Busy
    <3>3. Lands(v) BY <1>f, <2>1, <3>2 DEF Out
    <3> QED BY <1>5, <3>2, <3>3
  <2>3. Out(tasks[t], n)' BY <1>3, <1>f, <2>1, <2>2 DEF Out
  <2> QED BY <1>3, <1>7, <2>3 DEF Arming
<1>8. CASE tasks[t].pc = "settle"
  <2>1. tasks[t].ahead = Len(link) BY <1>8 DEF Arming
  <2>2. tasks'[t].ahead = Len(link') BY <1>3, <1>4, <2>1
  <2>3. ASSUME NEW k \in 1 .. 5 PROVE Lands(ArmWrites(f)[k])'
    <3>1. PICK v \in RegWrite : v = ArmWrites(f)[k]
      BY <1>6, <1>8, <1>f, ArmWriteOf DEF Busy
    <3>2. Lands(v) BY <1>8, <1>f, <3>1 DEF Arming
    <3> QED BY <1>5, <3>1, <3>2
  <2> QED BY <1>3, <1>8, <1>f, <2>2, <2>3 DEF Arming
<1>9. CASE tasks[t].pc \notin {"arm", "settle"}
  BY <1>3, <1>4, <1>9 DEF Arming
<1> QED BY <1>7, <1>8, <1>9

LEMMA ArmingStep ==
  ASSUME EspTypes, Alone, Next, NEW t \in Tasks, Calm(t)', Calm(t) => Arming(t)
  PROVE  Arming(t)'
<1>1. Started(t) \/ (Calm(t) /\ CalmTask(t) /\ Moves(t))
  BY CalmAppStep, CalmEspStep DEF Next
<1>2. CASE Started(t)
  <2>1. tasks'[t].pc = "new" BY <1>2 DEF Started, Fresh, NoTask
  <2> QED BY <2>1 DEF Arming
<1>3. CASE Calm(t) /\ CalmTask(t) /\ WorkStep(t)
  <2>1. Arming(t) BY <1>3
  <2>2. CASE Begin(t) \/ EspReceive(t) \/ EspTimeout(t) \/ Done(t)
    <3>1. tasks'[t].pc \in {"head", "done"}
      <4>1. CASE EspReceive(t) \/ EspTimeout(t)
        <5>1. \E x : EspRecord(t, x) BY <4>1 DEF EspReceive, EspTimeout
        <5> QED BY <5>1, RecordFields
      <4> QED BY <2>2, <4>1, BeginFields, SettleFields
    <3> QED BY <3>1 DEF Arming
  <2>3. CASE Pick(t) BY <2>3, PickArming
  <2>4. CASE ArmWrite(t) BY <1>3, <2>1, <2>4, ArmWriteArming
  <2>5. CASE EspSettle(t)
    <3>1. tasks[t].pc = "settle" /\ tasks[t].ahead = 0 /\ UNCHANGED fpgaVars
      BY <2>5 DEF EspSettle
    <3>2. Len(link) = 0 /\ \A k \in 1 .. 5 : Lands(ArmWrites(tasks[t].f)[k])
      BY <2>1, <3>1 DEF Arming
    <3>3. link = <<>>
      <4>1. link \in Seq(RegWrite) BY DEF EspTypes, FpgaTypes
      <4> QED BY <3>2, <4>1, EmptySeq
    <3>4. tasks[t].f \in FaultSet BY <1>3, <3>1, OwnFault DEF Busy
    <3>5. Injecting(regs) = Wants(tasks[t].f) BY <3>2, <3>3, <3>4, ArmedInjects DEF EspTypes
    <3>6. tasks'[t].pc = "send" /\ tasks'[t].f = tasks[t].f BY <2>5, SettleFields
    <3> QED BY <3>1, <3>3, <3>5, <3>6 DEF Arming, fpgaVars
  <2>6. CASE EspSend(t)
    <3>1. tasks[t].pc = "send" /\ UNCHANGED fpgaVars BY <2>6 DEF EspSend
    <3>2. tasks'[t].pc = "read" /\ tasks'[t].f = tasks[t].f
      BY <1>3, <2>6, <3>1, SendFields, OwnFault DEF Busy
    <3> QED BY <2>1, <3>1, <3>2 DEF Arming, fpgaVars
  <2> QED BY <1>3, <2>2, <2>3, <2>4, <2>5, <2>6 DEF WorkStep
<1>4. CASE Calm(t) /\ EspApply BY <1>4, ApplyArming
<1>5. CASE Calm(t) /\ DutStep /\ UNCHANGED espVars
  <2>1. UNCHANGED <<fpgaVars, tasks>>
    BY <1>5 DEF DutStep, ByteArrives, ReadCommand, ButtonPress, Strike, Result, ButtonRelease,
                espVars
  <2> QED BY <1>5, <2>1, ArmingStays
<1>6. CASE Calm(t) /\ LeftAlone(t)
  <2>1. tasks[t] \in TaskRec BY TaskOf
  <2>2. UNCHANGED fpgaVars /\ (tasks'[t] = tasks[t] \/ tasks'[t] = [tasks[t] EXCEPT !.stopped = TRUE])
    BY <1>6 DEF LeftAlone
  <2>3. /\ tasks'[t].pc = tasks[t].pc /\ tasks'[t].f = tasks[t].f
        /\ tasks'[t].todo = tasks[t].todo /\ tasks'[t].ahead = tasks[t].ahead
    BY <2>1, <2>2 DEF TaskRec
  <2> QED BY <1>6, <2>2, <2>3, ArmingStays
<1> QED BY <1>1, <1>2, <1>3, <1>4, <1>5, <1>6 DEF Moves

ArmingOK == \A t \in Tasks : Calm(t) => Arming(t)

\* A calm task's writes reach the injector whole: it is set to the task's fault from
\* the end of the delay after arm() until the answer is recorded.
LEMMA ArmingInvariant == Spec => []ArmingOK
<1>1. Init => ArmingOK
  BY DEF Init, EspInit, ArmingOK, Calm, Alive, NoTask
<1>2. Types /\ Alone /\ ArmingOK /\ [Next]_vars => ArmingOK'
  <2> SUFFICES ASSUME Types, Alone, ArmingOK, [Next]_vars, NEW t \in Tasks, Calm(t)'
               PROVE  Arming(t)'
    BY DEF ArmingOK
  <2>1. EspTypes /\ (Calm(t) => Arming(t)) BY DEF Types, ArmingOK
  <2>2. CASE Next BY <2>1, <2>2, ArmingStep
  <2>3. CASE UNCHANGED vars
    <3>1. UNCHANGED <<fpgaVars, tasks>> BY <2>3 DEF vars, espVars
    <3>2. Calm(t) BY <3>1 DEF Calm, Alive
    <3> QED BY <2>1, <3>1, <3>2, ArmingStays
  <2> QED BY <2>2, <2>3
<1> QED BY <1>1, <1>2, TypesInvariant, AloneInvariant, PTL DEF Spec
-----------------------------------------------------------------------------
(* Its own verdict                                                         *)

\* Without the button, and from a STM32 that is not there, nothing else is heard.
Bench == /\ presses = 0 => ~held
         /\ ~alive => dr = <<>> /\ phase = "loop" /\ lines = <<>>

\* While a calm task does not wait for an answer the bench is silent; while it waits,
\* the one command pair is its own.
BenchOf(t) ==
  presses = 0 /\ alive =>
    /\ tasks[t].pc # "read" => Silent
    /\ tasks[t].pc = "read" => Answering(tasks[t].f, RunId(t, tasks[t].pi))

OwnVerdict(r) ==
  IF alive
  THEN /\ r.txn.by = RunId(r.t, r.idx) /\ r.txn.cfg = Wants(r.f)
       /\ r.pass = ((Wants(r.f) \in Shows) = (r.f.expect = "detected"))
  ELSE r.txn = NoTxn

VerdictInv ==
  /\ Bench /\ \A t \in Tasks : Calm(t) => BenchOf(t)
  /\ presses = 0 => \A q \in DOMAIN log : OwnVerdict(log[q])

LEMMA BenchStep ==
  ASSUME EspTypes, Bench, Next
  PROVE  /\ Bench' /\ alive' = alive /\ (presses' = 0 => presses = 0)
<1>p. presses \in Nat BY RigOK DEF EspTypes, DutTypes
<1>1. ASSUME UNCHANGED <<dr, phase, held, alive, presses>>, lines' = lines \/ lines' = <<>> \/ lines # <<>>
      PROVE  /\ Bench' /\ alive' = alive /\ (presses' = 0 => presses = 0)
  BY <1>1 DEF Bench
<1>2. CASE DutStep
  <2>1. CASE ButtonPress
    <3>1. alive' = alive /\ presses' = presses + 1 /\ alive
      BY <2>1 DEF ButtonPress
    <3> QED BY <1>p, <3>1 DEF Bench
  <2>2. CASE ByteArrives BY <2>2 DEF ByteArrives, Bench
  <2>3. CASE ReadCommand BY <2>3 DEF ReadCommand, Bench
  <2>4. CASE Strike BY <2>4 DEF Strike, Bench
  <2>5. CASE Result BY <2>5 DEF Result, Bench
  <2>6. CASE ButtonRelease BY <2>6 DEF ButtonRelease, Bench
  <2> QED BY <1>2, <2>1, <2>2, <2>3, <2>4, <2>5, <2>6 DEF DutStep
<1>3. CASE EspNext /\ ~DutStep
  <2>1. /\ UNCHANGED <<dr, phase, held, alive, presses>>
        /\ lines' = lines \/ lines' = <<>> \/ lines # <<>>
    <3>1. CASE \E t \in Tasks : TaskStep(t)
      BY <3>1 DEF TaskStep, Begin, Pick, ArmWrite, EspSettle, EspSend, EspReceive, EspTimeout,
                  Done, End, dutVars
    <3>2. CASE \E t \in Tasks : Trap(t) BY <3>2 DEF Trap, Reboot
    <3>3. CASE SplitLine \/ ManualWrite \/ Boot \/ EspApply
      BY <3>3 DEF SplitLine, ManualWrite, Boot, EspApply, Apply, dutVars
    <3> QED BY <1>3, <3>1, <3>2, <3>3 DEF EspNext
  <2> QED BY <2>1, <1>1
<1>4. CASE App
  <2>1. CASE AppConnect \/ PushAndRun \/ PushFails \/ Hear \/ OpenRun \/ Back \/ Drop \/ Restart
    <3>1. UNCHANGED <<dr, phase, held, alive, presses>> /\ lines' = lines
      BY <2>1 DEF AppConnect, PushAndRun, PushFails, Hear, OpenRun, Back, Drop, Restart, Connect,
                  Disconnect, dutVars
    <3> QED BY <3>1, <1>1
  <2>2. CASE Write \/ PressStop \/ ArmManual
    <3>1. UNCHANGED <<dr, phase, held, alive, presses>> /\ lines' = lines
      BY <2>2 DEF Write, Chunk, EndOfCampaign, Reboot, OnStart, PressStop, OnStop, ArmManual,
                  OnControlArm, dutVars
    <3> QED BY <3>1, <1>1
  <2> QED BY <1>4, <2>1, <2>2 DEF App
<1> QED BY <1>2, <1>3, <1>4 DEF Next

LEMMA BenchKept ==
  ASSUME NEW t, BenchOf(t), UNCHANGED dutVars, tasks'[t].pc = tasks[t].pc,
         tasks'[t].f = tasks[t].f, tasks'[t].pi = tasks[t].pi
  PROVE  BenchOf(t)'
<1>0. UNCHANGED <<wireIn, dr, mode, phase, txn, lines, alive, presses>> BY DEF dutVars
<1>1. PICK f, id : /\ f = tasks[t].f /\ f = tasks'[t].f
                   /\ id = RunId(t, tasks[t].pi) /\ id = RunId(t, tasks'[t].pi)
  OBVIOUS
<1>2. Answering(f, id) => Answering(f, id)' BY <1>0, AnswerStays
<1>3. Silent => Silent' BY <1>0 DEF Silent
<1> SUFFICES ASSUME presses' = 0, alive'
             PROVE  /\ tasks'[t].pc # "read" => Silent'
                    /\ tasks'[t].pc = "read" => Answering(tasks[t].f, RunId(t, tasks[t].pi))'
  BY DEF BenchOf
<1>4. presses = 0 /\ alive BY <1>0
<1>5. CASE tasks[t].pc # "read"
  <2>1. Silent BY <1>4, <1>5 DEF BenchOf
  <2> QED BY <1>3, <1>5, <2>1
<1>6. CASE tasks[t].pc = "read"
  <2>1. Answering(f, id) BY <1>1, <1>4, <1>6 DEF BenchOf
  <2>2. Answering(f, id)' BY <1>2, <2>1
  <2>3. Answering(tasks[t].f, RunId(t, tasks[t].pi))' BY <1>1, <2>2
  <2> QED BY <1>6, <2>3
<1> QED BY <1>5, <1>6

LEMMA QuietBench ==
  ASSUME NEW t, BenchOf(t), UNCHANGED dutVars, tasks[t].pc # "read", tasks'[t].pc # "read"
  PROVE  BenchOf(t)'
<1>0. UNCHANGED <<wireIn, dr, mode, phase, txn, lines, alive, presses>> BY DEF dutVars
<1> QED BY <1>0 DEF BenchOf, Silent

LEMMA OwnBench ==
  ASSUME EspTypes, Alone, Bench, Next, NEW t \in Tasks, Calm(t)',
         Calm(t) => Arming(t) /\ BenchOf(t)
  PROVE  BenchOf(t)'
<1>1. Started(t) \/ (Calm(t) /\ CalmTask(t) /\ Moves(t))
  BY CalmAppStep, CalmEspStep DEF Next
<1>2. alive' = alive /\ (presses' = 0 => presses = 0) BY BenchStep
<1> SUFFICES ASSUME presses' = 0, alive'
             PROVE  /\ tasks'[t].pc # "read" => Silent'
                    /\ tasks'[t].pc = "read" => Answering(tasks[t].f, RunId(t, tasks[t].pi))'
  BY DEF BenchOf
<1>3. presses = 0 /\ alive /\ ~held BY <1>2 DEF Bench
<1>4. CASE Started(t)
  <2>1. tasks'[t].pc = "new" BY <1>4 DEF Started, Fresh, NoTask
  <2>2. Silent' BY <1>3, <1>4 DEF Started, AtRest, Silent, dutVars
  <2> QED BY <2>1, <2>2
<1>5. CASE Calm(t) /\ CalmTask(t) /\ WorkStep(t)
  <2>1. BenchOf(t) BY <1>5
  <2>2. CASE Begin(t) \/ Pick(t) \/ ArmWrite(t) \/ EspSettle(t) \/ Done(t)
    <3>1. tasks[t].pc # "read" /\ UNCHANGED dutVars
      BY <2>2 DEF Begin, Pick, ArmWrite, EspSettle, Done
    <3>2. tasks'[t].pc # "read"
      BY <2>2, BeginFields, PickFields, ArmWriteFields, SettleFields
    <3>3. BenchOf(t)' BY <2>1, <3>1, <3>2, QuietBench
    <3> QED BY <1>3, <3>3 DEF BenchOf
  <2>3. CASE EspSend(t)
    <3>1. tasks[t].pc = "send" /\ UNCHANGED <<dr, mode, phase, held, txn, lines, alive, presses>>
      BY <2>3 DEF EspSend
    <3>2. PICK f \in FaultSet : f = tasks[t].f /\ Deref(t) = {f}
      BY <1>5, <3>1, OwnFault DEF Busy
    <3>3. /\ wireIn' = wireIn \o RunCmd(f, RunId(t, tasks[t].pi))
          /\ tasks'[t].f = f /\ tasks'[t].pi = tasks[t].pi /\ tasks'[t].pc = "read"
      BY <2>3, <3>2, SendFields
    <3>4. PICK id : id = RunId(t, tasks[t].pi) OBVIOUS
    <3>5. Silent BY <1>3, <2>1, <3>1 DEF BenchOf
    <3>6. Answering(f, id)' BY <3>1, <3>3, <3>4, <3>5, AnswerSent
    <3>7. Answering(tasks[t].f, RunId(t, tasks[t].pi))' BY <3>3, <3>4, <3>6
    <3> QED BY <3>3, <3>7
  <2>4. CASE EspReceive(t)
    <3>1. /\ tasks[t].pc = "read" /\ lines # <<>>
          /\ UNCHANGED <<wireIn, dr, mode, phase, held, txn, alive, presses>>
          /\ \E k \in 1 .. Len(lines) : lines' = SubSeq(lines, k + 1, Len(lines))
      BY <2>4 DEF EspReceive
    <3>2. PICK f, id : Answering(f, id) BY <1>3, <2>1, <3>1 DEF BenchOf
    <3>3. wireIn = <<>> /\ dr = <<>> /\ phase = "loop" /\ lines' = <<>>
      BY <3>1, <3>2, AnswerRead
    <3>4. Silent' BY <3>1, <3>3 DEF Silent
    <3>5. \E x : EspRecord(t, x) BY <2>4 DEF EspReceive
    <3>6. tasks'[t].pc = "head" BY <3>5, RecordFields
    <3> QED BY <3>4, <3>6
  <2>5. CASE EspTimeout(t)
    <3>1. tasks[t].pc = "read" /\ (~alive \/ held \/ Silent \/ Others(t) # {})
      BY <2>5 DEF EspTimeout
    <3>2. ~Silent BY <1>3, <2>1, <3>1, NeverSilent DEF BenchOf
    <3> QED BY <1>3, <1>5, <3>1, <3>2 DEF CalmTask
  <2> QED BY <1>5, <2>2, <2>3, <2>4, <2>5 DEF WorkStep
<1>6. CASE Calm(t) /\ EspApply
  <2>1. tasks[t] \in TaskRec BY TaskOf
  <2>2. /\ UNCHANGED dutVars
        /\ tasks'[t] = IF tasks[t].ahead > 0 THEN [tasks[t] EXCEPT !.ahead = tasks[t].ahead - 1]
                       ELSE tasks[t]
    BY <1>6 DEF EspApply, Apply
  <2>3. tasks'[t].pc = tasks[t].pc /\ tasks'[t].f = tasks[t].f /\ tasks'[t].pi = tasks[t].pi
    BY <2>1, <2>2 DEF TaskRec
  <2>4. BenchOf(t)' BY <1>6, <2>2, <2>3, BenchKept
  <2> QED BY <1>3, <2>4 DEF BenchOf
<1>7. CASE Calm(t) /\ CalmTask(t) /\ DutStep /\ UNCHANGED espVars
  <2>1. BenchOf(t) /\ Arming(t) /\ UNCHANGED tasks BY <1>7 DEF espVars
  <2>2. PICK f, id : f = tasks[t].f /\ id = RunId(t, tasks[t].pi) OBVIOUS
  <2>3. f = tasks'[t].f /\ id = RunId(t, tasks'[t].pi) BY <2>1, <2>2
  <2>4. ~ButtonRelease BY <1>3 DEF ButtonRelease
  <2>5. ~ButtonPress
    <3>1. presses \in Nat BY RigOK DEF EspTypes, DutTypes
    <3> QED BY <1>3, <3>1 DEF ButtonPress
  <2>6. ByteArrives \/ ReadCommand \/ Strike \/ Result BY <1>7, <2>4, <2>5 DEF DutStep
  <2>7. CASE tasks[t].pc # "read"
    <3>1. Silent BY <1>3, <2>1, <2>7 DEF BenchOf
    <3> QED BY <2>6, <3>1 DEF Silent, ByteArrives, ReadCommand, Strike, Result
  <2>8. CASE tasks[t].pc = "read"
    <3>1. Answering(f, id) BY <1>3, <2>1, <2>2, <2>8 DEF BenchOf
    <3>2. Injecting(regs) = Wants(f) BY <2>1, <2>2, <2>8 DEF Arming
    <3>3. f \in FaultSet BY <1>7, <2>2, <2>8, OwnFault DEF Busy
    <3>4. DutTypes(Nat) BY DEF EspTypes
    <3>5. Answering(f, id)' BY <1>3, <2>6, <3>1, <3>2, <3>3, <3>4, AnswerStep
    <3>6. Answering(tasks[t].f, RunId(t, tasks[t].pi))' BY <2>3, <3>5
    <3> QED BY <2>1, <2>8, <3>6
  <2> QED BY <2>7, <2>8
<1>8. CASE Calm(t) /\ LeftAlone(t)
  <2>1. tasks[t] \in TaskRec BY TaskOf
  <2>2. UNCHANGED dutVars /\ (tasks'[t] = tasks[t] \/ tasks'[t] = [tasks[t] EXCEPT !.stopped = TRUE])
    BY <1>8 DEF LeftAlone
  <2>3. tasks'[t].pc = tasks[t].pc /\ tasks'[t].f = tasks[t].f /\ tasks'[t].pi = tasks[t].pi
    BY <2>1, <2>2 DEF TaskRec
  <2>4. BenchOf(t)' BY <1>8, <2>2, <2>3, BenchKept
  <2> QED BY <1>3, <2>4 DEF BenchOf
<1> QED BY <1>1, <1>4, <1>5, <1>6, <1>7, <1>8 DEF Moves

\* The verdict a calm task adds to the log.
LEMMA RecordOwn ==
  ASSUME EspTypes, Alone, Bench, NEW u \in Tasks, TaskStep(u), presses = 0,
         Calm(u) => BenchOf(u)
  PROVE  log' = log \/ \E e \in Entry : log' = Append(log, e) /\ OwnVerdict(e)
<1>1. CASE ~(EspReceive(u) \/ EspTimeout(u))
  BY <1>1 DEF TaskStep, Begin, Pick, ArmWrite, EspSettle, EspSend, Done, End
<1>2. CASE (EspReceive(u) \/ EspTimeout(u)) /\ ~tasks[u].calm
  BY <1>2, AnswerTypes, RecordLogs
<1>3. CASE (EspReceive(u) \/ EspTimeout(u)) /\ tasks[u].calm
  <2>1. tasks[u].pc = "read" /\ Calm(u) BY <1>3, AnswerTypes DEF Calm, Alive
  <2>2. CalmTask(u) /\ BenchOf(u) /\ ~held BY <2>1 DEF Alone, Bench
  <2>3. PICK f \in FaultSet : f = tasks[u].f /\ Deref(u) = {f} BY <2>1, <2>2, OwnFault DEF Busy
  <2>4. PICK id : id = RunId(u, tasks[u].pi) OBVIOUS
  <2>5. alive => Answering(f, id) BY <2>1, <2>2, <2>3, <2>4 DEF BenchOf
  <2>6. CASE EspReceive(u)
    <3>1. lines # <<>> BY <2>6 DEF EspReceive
    <3>2. alive BY <3>1 DEF Bench
    <3>3. PICK x \in Answer(Nat) : x = Head(lines) /\ EspRecord(u, x) BY <2>6, AnswerTypes
    <3>4. Own(x, f, id) BY <2>5, <3>1, <3>2, <3>3, AnswerRead
    <3>5. PICK e \in Entry :
            /\ log' = Append(log, e) /\ e.t = u /\ e.idx = tasks[u].pi /\ e.f = f
            /\ e.txn = x /\ e.pass = Evaluate(f, x.obs)
      BY <1>3, <2>1, <2>3, <3>3, RecordLogs
    <3>6. x.obs \in BOOLEAN BY DEF Answer
    <3>7. Evaluate(f, x.obs) = ((Wants(f) \in Shows) = (f.expect = "detected"))
      BY <3>4, <3>6, EvaluateOwn DEF Own
    <3>8. OwnVerdict(e) BY <2>4, <3>2, <3>4, <3>5, <3>7 DEF OwnVerdict, Own
    <3> QED BY <3>5, <3>8
  <2>7. CASE EspTimeout(u)
    <3>1. ~alive
      <4>1. ~alive \/ held \/ Silent \/ Others(u) # {} BY <2>7 DEF EspTimeout
      <4>2. alive => ~Silent BY <2>5, NeverSilent
      <4> QED BY <2>2, <4>1, <4>2 DEF CalmTask
    <3>2. PICK e \in Entry : log' = Append(log, e) /\ e.txn = NoTxn
      BY <1>3, <2>1, <2>7, AnswerTypes, RecordLogs
    <3> QED BY <3>1, <3>2 DEF OwnVerdict
  <2> QED BY <1>3, <2>6, <2>7
<1> QED BY <1>1, <1>2, <1>3

LEMMA LogOwn ==
  ASSUME EspTypes, Alone, VerdictInv, Next, presses' = 0
  PROVE  \A q \in DOMAIN log' : OwnVerdict(log[q])'
<1>1. alive' = alive /\ presses = 0 BY BenchStep DEF VerdictInv
<1>2. \A r : OwnVerdict(r)' <=> OwnVerdict(r) BY <1>1 DEF OwnVerdict
<1>3. \A q \in DOMAIN log : OwnVerdict(log[q]) BY <1>1 DEF VerdictInv
<1>4. log' = log \/ \E e \in Entry : log' = Append(log, e) /\ OwnVerdict(e)
  <2>1. CASE App
    <3>1. log' = log
      BY <2>1 DEF App, AppConnect, PushAndRun, PushFails, Hear, OpenRun, Back, Drop, Restart,
                  Connect, Disconnect, Write, Chunk, EndOfCampaign, Reboot, OnStart, PressStop,
                  OnStop, ArmManual, OnControlArm, espVars
    <3> QED BY <3>1
  <2>2. CASE EspNext
    <3>1. CASE \E u \in Tasks : TaskStep(u)
      BY <1>1, <3>1, RecordOwn DEF VerdictInv
    <3>2. CASE \E u \in Tasks : Trap(u) BY <3>2 DEF Trap, Reboot
    <3>3. CASE SplitLine \/ ManualWrite \/ Boot \/ EspApply \/ (DutStep /\ UNCHANGED espVars)
      BY <3>3 DEF SplitLine, ManualWrite, Boot, EspApply, espVars
    <3> QED BY <2>2, <3>1, <3>2, <3>3 DEF EspNext
  <2> QED BY <2>1, <2>2 DEF Next
<1>5. log \in Seq(Entry) BY DEF EspTypes, LogTypes
<1>6. CASE log' = log BY <1>2, <1>3, <1>6
<1>7. CASE \E e \in Entry : log' = Append(log, e) /\ OwnVerdict(e)
  <2>1. PICK e \in Entry : log' = Append(log, e) /\ OwnVerdict(e) BY <1>7
  <2>2. /\ DOMAIN log = 1 .. Len(log) /\ Len(log) \in Nat /\ DOMAIN log' = 1 .. Len(log) + 1
        /\ (\A q \in 1 .. Len(log) : log'[q] = log[q]) /\ log'[Len(log) + 1] = e
    BY <1>5, <2>1
  <2>3. ASSUME NEW q \in DOMAIN log' PROVE OwnVerdict(log[q])'
    <3>1. PICK r : r = log'[q] OBVIOUS
    <3>2. OwnVerdict(r)
      <4>1. q \in 1 .. Len(log) \/ q = Len(log) + 1 BY <2>2
      <4>2. CASE q \in 1 .. Len(log) BY <4>2, <1>3, <2>2, <3>1
      <4>3. CASE q = Len(log) + 1 BY <4>3, <2>1, <2>2, <3>1
      <4> QED BY <4>1, <4>2, <4>3
    <3> QED BY <1>2, <3>1, <3>2
  <2> QED BY <2>3
<1> QED BY <1>4, <1>6, <1>7

\* campaign_task with SerialDutRunner: as long as nobody presses the STM32's button, a
\* task that started on a bench at rest and that nothing crossed reaches each verdict
\* from the RESULT line of its own command, run with its own fault injected; with no
\* STM32 there it records that no line came.
THEOREM CalmVerdictTheorem == Spec => []CalmVerdictOwn
<1>1. Init => VerdictInv
  <2> SUFFICES ASSUME Init PROVE VerdictInv OBVIOUS
  <2>1. /\ ~held /\ dr = <<>> /\ phase = "loop" /\ lines = <<>> /\ log = <<>>
        /\ \A t \in Tasks : ~Calm(t)
    BY DEF Init, RigInit, EspInit, Calm, Alive, NoTask
  <2> QED BY <2>1 DEF VerdictInv, Bench
<1>2. Types /\ Alone /\ ArmingOK /\ VerdictInv /\ [Next]_vars => VerdictInv'
  <2> SUFFICES ASSUME Types, Alone, ArmingOK, VerdictInv, [Next]_vars PROVE VerdictInv'
    OBVIOUS
  <2>1. EspTypes BY DEF Types
  <2>2. CASE Next
    <3>1. Bench' BY <2>1, <2>2, BenchStep DEF VerdictInv
    <3>2. ASSUME NEW t \in Tasks, Calm(t)' PROVE BenchOf(t)'
      BY <2>1, <2>2, <3>2, OwnBench DEF VerdictInv, ArmingOK
    <3>3. presses' = 0 => \A q \in DOMAIN log' : OwnVerdict(log[q])'
      BY <2>1, <2>2, LogOwn
    <3> QED BY <3>1, <3>2, <3>3 DEF VerdictInv
  <2>3. CASE UNCHANGED vars
    <3>1. UNCHANGED <<dutVars, tasks, log>> BY <2>3 DEF vars, espVars
    <3>2. Bench' BY <3>1 DEF VerdictInv, Bench, dutVars
    <3>3. ASSUME NEW t \in Tasks, Calm(t)' PROVE BenchOf(t)'
      <4>1. Calm(t) BY <3>1, <3>3 DEF Calm, Alive
      <4>2. BenchOf(t) BY <4>1 DEF VerdictInv
      <4> QED BY <3>1, <4>2, BenchKept
    <3>4. alive' = alive /\ presses' = presses /\ log' = log BY <3>1 DEF dutVars
    <3>5. presses' = 0 => \A q \in DOMAIN log' : OwnVerdict(log[q])'
      BY <3>4 DEF VerdictInv, OwnVerdict
    <3> QED BY <3>2, <3>3, <3>5 DEF VerdictInv
  <2> QED BY <2>2, <2>3
<1>3. VerdictInv => CalmVerdictOwn
  BY DEF VerdictInv, CalmVerdictOwn, OwnVerdict
<1> QED BY <1>1, <1>2, <1>3, TypesInvariant, AloneInvariant, ArmingInvariant, PTL DEF Spec
=============================================================================
