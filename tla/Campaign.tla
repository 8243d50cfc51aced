------------------------------ MODULE Campaign ------------------------------
(***************************************************************************)
(* The host engine: CampaignRunner with its Scheduler, CoverageTracker,    *)
(* RegClient and SerialDutRunner, as `hardfuzz run` drives the bench of    *)
(* Rig (live), or prints the plan without touching it (dry).               *)
(*                                                                         *)
(* run() is one thread; it is cut where it waits for the world: after_arm  *)
(* (the settle time), the write of {protocol,'R'}, and the read loop.      *)
(***************************************************************************)
EXTENDS Rig

CONSTANT MaxFaults   \* bound: scenarios in a campaign

ASSUME MaxFaultsOK == MaxFaults \in Nat

VARIABLES
  faults,    \* the campaign
  dry,       \* --dry-run
  pc,        \* where run() is: "pick", "settle", "send", "read", "done"
  pending,   \* indices still to run
  cur,       \* index being run, 0 when none
  cov,       \* CoverageTracker: key -> times marked
  results    \* the ScenarioResults, with the transaction each verdict came from

hostVars == <<faults, dry, pc, pending, cur, cov, results>>
vars == <<fpgaVars, dutVars, hostVars>>

Init ==
  /\ RigInit
  /\ \E n \in 0 .. MaxFaults : faults \in [1 .. n -> FaultSet]
  /\ dry \in BOOLEAN
  /\ pc = "pick" /\ pending = DOMAIN faults /\ cur = 0
  /\ cov = [k \in Keys |-> 0] /\ results = <<>>

-----------------------------------------------------------------------------
\* CoverageTracker.count.
Count(i) == cov[Key(faults[i])]

\* Mutant: ties go to the latest index.
IsNextLatest(i) ==
  /\ i \in pending
  /\ \A j \in pending : Count(i) < Count(j) \/ (Count(i) = Count(j) /\ j <= i)

IsNext(i) == LeastCovered(faults, pending, cov, i)

Mark(i) == cov' = [cov EXCEPT ![Key(faults[i])] = @ + 1]

\* cmd_dry: the same loop without arming or running.
PlanDry ==
  /\ dry /\ pc = "pick"
  /\ \E i \in pending :
       /\ IsNext(i)
       /\ results' = Append(results, [idx |-> i, cov |-> Count(i), ran |-> FALSE,
                                      pass |-> FALSE, txn |-> NoTxn])
       /\ Mark(i) /\ pending' = pending \ {i}
  /\ UNCHANGED <<fpgaVars, dutVars, faults, dry, pc, cur>>

\* Pick a fault and send its arming writes.
PickAndArm ==
  /\ ~dry /\ pc = "pick"
  /\ \E i \in pending : IsNext(i) /\ cur' = i /\ link' = link \o ArmWrites(faults[i])
  /\ pc' = "settle"
  /\ UNCHANGED <<regs, dutVars, faults, dry, pending, cov, results>>

\* Mutant: after_arm() is not called.
NoSettle ==
  /\ pc = "settle" /\ pc' = "send"
  /\ UNCHANGED <<fpgaVars, dutVars, faults, dry, pending, cur, cov, results>>

\* after_arm(): 40 ms, some 30 times what the 15 bytes take on the line.
Settle ==
  /\ pc = "settle" /\ link = <<>> /\ pc' = "send"
  /\ UNCHANGED <<fpgaVars, dutVars, faults, dry, pending, cur, cov, results>>

\* SerialDutRunner.run: {protocol, 'R'} in one send.
SendRun ==
  /\ pc = "send" /\ pc' = "read"
  /\ wireIn' = wireIn \o RunCmd(faults[cur], cur)
  /\ UNCHANGED <<fpgaVars, dr, mode, phase, held, txn, lines, alive, presses,
                 faults, dry, pending, cur, cov, results>>

\* Mutant: no disarm() after the run.
RecordArmed(t) ==
  /\ results' = Append(results, [idx |-> cur, cov |-> Count(cur), ran |-> TRUE,
                                 pass |-> Evaluate(faults[cur], t.obs), txn |-> t])
  /\ Mark(cur) /\ pending' = pending \ {cur} /\ cur' = 0 /\ pc' = "pick"
  /\ UNCHANGED link

\* disarm, mark, evaluate, record, erase.
Record(t) ==
  /\ link' = Append(link, DisarmWrite)
  /\ results' = Append(results, [idx |-> cur, cov |-> Count(cur), ran |-> TRUE,
                                 pass |-> Evaluate(faults[cur], t.obs), txn |-> t])
  /\ Mark(cur) /\ pending' = pending \ {cur} /\ cur' = 0 /\ pc' = "pick"

\* The first RESULT line decides; lines read in the same chunk go with it.
Receive ==
  /\ pc = "read" /\ lines # <<>>
  /\ Record(Head(lines))
  /\ \E k \in 1 .. Len(lines) : lines' = SubSeq(lines, k + 1, Len(lines))
  /\ UNCHANGED <<regs, wireIn, dr, mode, phase, held, txn, alive, presses, faults, dry>>

\* Mutant: the number of empty reads is not bounded.
ReadForever == FALSE /\ UNCHANGED vars

\* 400 empty reads: 200 s, against some 30 ms from command to RESULT line.
Timeout ==
  /\ pc = "read" /\ lines = <<>> /\ (~alive \/ held \/ Silent)
  /\ Record(NoTxn)
  /\ UNCHANGED <<regs, dutVars, faults, dry>>

Finish ==
  /\ pc = "pick" /\ pending = {} /\ pc' = "done"
  /\ UNCHANGED <<fpgaVars, dutVars, faults, dry, pending, cur, cov, results>>

Host == PlanDry \/ PickAndArm \/ Settle \/ SendRun \/ Receive \/ Timeout \/ Finish

Next == Host \/ (RigNext /\ UNCHANGED hostVars)

Spec == Init /\ [][Next]_vars

FairSpec == Spec /\ RigFairness /\ WF_vars(Host)
-----------------------------------------------------------------------------
(* Properties                                                              *)

Txn == [by : 0 .. MaxFaults, cfg : {<<>>} \cup (Protocols \X Nat \X Nat), obs : BOOLEAN]
DutByte == [c : {"S", "I", "C", "R"}, by : 0 .. MaxFaults]
ScenarioResult == [idx : 1 .. MaxFaults, cov : Nat, ran : BOOLEAN, pass : BOOLEAN, txn : Txn]

FpgaTypeOK == link \in Seq((0 .. 4) \X (0 .. 255)) /\ regs \in [0 .. 4 -> 0 .. 255]

DutTypeOK ==
  /\ wireIn \in Seq(DutByte) /\ (dr = <<>> \/ \E b \in DutByte : dr = <<b>>)
  /\ mode \in {"spi", "i2c"} /\ phase \in {"loop", "run", "struck"}
  /\ held \in BOOLEAN /\ alive \in BOOLEAN /\ presses \in 0 .. MaxPress
  /\ txn \in Txn /\ lines \in Seq(Txn)

HostTypeOK ==
  /\ \E n \in 0 .. MaxFaults : faults \in [1 .. n -> FaultSet]
  /\ dry \in BOOLEAN /\ pc \in {"pick", "settle", "send", "read", "done"}
  /\ pending \subseteq DOMAIN faults
  /\ cur \in DOMAIN faults \cup {0} /\ (cur = 0 <=> pc \in {"pick", "done"})
  /\ cov \in [Keys -> Nat] /\ results \in Seq(ScenarioResult)

\* Every variable keeps its type; a register holds a byte.
TypeOK == FpgaTypeOK /\ DutTypeOK /\ HostTypeOK

\* The order of the campaign, live or planned, is by how often the same tuple
\* occurs before a scenario and then by its place in the file, each once; and
\* coverage_at_run is that number of earlier occurrences.
Rank(i) == Cardinality({j \in 1 .. i - 1 : Key(faults[j]) = Key(faults[i])})

ScheduleByCoverage ==
  /\ \A q \in DOMAIN results :
       /\ results[q].cov = Rank(results[q].idx)
       /\ \A p \in 1 .. q - 1 :
            LET i == results[p].idx  j == results[q].idx
            IN Rank(i) < Rank(j) \/ (Rank(i) = Rank(j) /\ i < j)
  /\ pc = "done" => Len(results) = Len(faults)

\* No torn arming: whatever the registers are being changed to, an enabled
\* injector has the whole setting of the scenario being run, and no other write
\* than the one that disarms it can be the next to reach it.
ArmedWhole ==
  Enabled(regs) =>
    /\ \E i \in DOMAIN faults :
         /\ Injecting(regs) = Wants(faults[i])
         /\ cur # 0 => (cur = i \/ link # <<>>)
    /\ link # <<>> => Head(link) = DisarmWrite

\* Once the campaign has ended and its last write has arrived, nothing injects.
EndsDisarmed == pc = "done" /\ link = <<>> => ~Enabled(regs)

\* Unless someone presses the button, a live verdict is about its own scenario:
\* the transaction it was read from was started for it, met exactly the injection
\* it armed, and the timeout is taken only when the STM32 is dead.
VerdictOwn ==
  presses = 0 =>
    \A q \in DOMAIN results :
      LET r == results[q]  f == faults[r.idx] IN
      r.ran =>
        IF alive
        THEN /\ r.txn.by = r.idx /\ r.txn.cfg = Wants(f)
             /\ r.pass = ((Wants(f) \in Shows) = (f.expect = "detected"))
        ELSE r.txn = NoTxn

\* The campaign ends, with a dead DUT and with a button held down too.
CampaignTerminates == <>(pc = "done")
=============================================================================
