--------------------------- MODULE CampaignProofs ---------------------------
(***************************************************************************)
(* Theorems about a campaign on the bench, for every set of faults, every  *)
(* campaign over it and any number of button presses.                      *)
(***************************************************************************)
EXTENDS Campaign, RigProofs, SequenceTheorems, FiniteSetTheorems, TLAPS

\* The types of the bench, with the scenarios' indices as names.
LEMMA BenchTypes ==
  /\ FpgaTypeOK <=> FpgaTypes
  /\ DutTypeOK <=> DutTypes(0 .. MaxFaults)
  /\ Txn = Answer(0 .. MaxFaults) /\ DutByte = Byte(0 .. MaxFaults) /\ 0 \in 0 .. MaxFaults
<1>1. Txn = Answer(0 .. MaxFaults) /\ DutByte = Byte(0 .. MaxFaults)
  BY DEF Txn, Answer, DutByte, Byte
<1>2. FpgaTypeOK <=> FpgaTypes
  BY DEF FpgaTypeOK, FpgaTypes, RegWrite
<1>3. DutTypeOK <=> DutTypes(0 .. MaxFaults)
  BY <1>1, Zenon DEF DutTypeOK, DutTypes
<1>4. QED
  BY <1>1, <1>2, <1>3, MaxFaultsOK DEF MaxFaultsOK

LEMMA NoTxnType == NoTxn \in Txn
  BY BenchTypes, NoAnswerType

\* What the steps of the bench do to the types.
LEMMA RigKeepsTypes ==
  ASSUME TypeOK, RigNext
  PROVE  FpgaTypeOK' /\ DutTypeOK'
<1>1. FpgaTypes' /\ DutTypes(0 .. MaxFaults)'
  BY BenchTypes, RigTypes DEF TypeOK
<1>2. FpgaTypeOK'
  BY <1>1 DEF FpgaTypeOK, FpgaTypes, RegWrite
<1>3. DutTypeOK'
  BY <1>1, BenchTypes, Zenon DEF DutTypeOK, DutTypes
<1>4. QED
  BY <1>2, <1>3

\* The scenario index the host works on names a fault of the campaign.
LEMMA IndexTypes ==
  ASSUME HostTypeOK, NEW i \in DOMAIN faults
  PROVE  i \in 1 .. MaxFaults /\ faults[i] \in FaultSet /\ i # 0 /\ Count(i) \in Nat
<1>1. PICK n \in 0 .. MaxFaults : faults \in [1 .. n -> FaultSet]
  BY DEF HostTypeOK
<1>2. i \in 1 .. MaxFaults /\ faults[i] \in FaultSet /\ i # 0
  BY <1>1, MaxFaultsOK DEF MaxFaultsOK
<1>3. QED
  BY <1>2, KeyType DEF Count, HostTypeOK

LEMMA MarkType ==
  ASSUME HostTypeOK, NEW i \in DOMAIN faults, Mark(i)
  PROVE  cov' \in [Keys -> Nat]
<1>1. faults[i] \in FaultSet /\ Key(faults[i]) \in Keys
  BY IndexTypes, KeyType
<1>2. QED
  BY <1>1 DEF Mark, HostTypeOK

LEMMA RecordTypes ==
  ASSUME TypeOK, cur \in DOMAIN faults, NEW t \in Txn, Record(t), UNCHANGED <<faults, dry, regs>>
  PROVE  FpgaTypeOK' /\ HostTypeOK'
<1> USE DEF TypeOK
<1>1. cur \in 1 .. MaxFaults /\ faults[cur] \in FaultSet /\ Count(cur) \in Nat
  BY IndexTypes
<1>2. Evaluate(faults[cur], t.obs) \in BOOLEAN
  BY <1>1, EvaluateType DEF Txn
<1>3. cov' \in [Keys -> Nat]
  BY MarkType DEF Record
<1> DEFINE r == [idx |-> cur, cov |-> Count(cur), ran |-> TRUE,
                 pass |-> Evaluate(faults[cur], t.obs), txn |-> t]
<1>4. r \in ScenarioResult
  BY <1>1, <1>2 DEF ScenarioResult
<1>5. results' \in Seq(ScenarioResult)
  <2>1. results' = Append(results, r)
    BY DEF Record
  <2> HIDE DEF r
  <2>2. QED
    BY <1>4, <2>1 DEF HostTypeOK
<1>6. link' \in Seq((0 .. 4) \X (0 .. 255))
  BY DEF Record, DisarmWrite, FpgaTypeOK
<1>7. cur' = 0 /\ pc' = "pick" /\ pending' \subseteq DOMAIN faults'
  BY DEF Record, HostTypeOK
<1>8. FpgaTypeOK'
  BY <1>6 DEF FpgaTypeOK
<1>9. HostTypeOK'
  BY <1>3, <1>5, <1>7 DEF HostTypeOK
<1>10. QED
  BY <1>8, <1>9

\* Every reachable state of the engine and the bench has its types.
THEOREM TypeCorrect == Spec => []TypeOK
<1>1. Init => TypeOK
  <2> SUFFICES ASSUME Init PROVE TypeOK
    OBVIOUS
  <2>1. FpgaTypeOK
    BY DEF Init, RigInit, FpgaTypeOK
  <2>2. DutTypeOK
    <3>1. MaxPress \in Nat
      BY RigOK DEF RigOK
    <3>3. wireIn = <<>> /\ dr = <<>> /\ mode = "spi" /\ phase = "loop" /\ held = FALSE
          /\ txn = NoTxn /\ lines = <<>> /\ alive \in BOOLEAN /\ presses = 0
      BY DEF Init, RigInit
    <3>4. wireIn \in Seq(DutByte) /\ lines \in Seq(Txn) /\ txn \in Txn
      BY <3>3, NoTxnType
    <3>5. held \in BOOLEAN /\ alive \in BOOLEAN
      BY <3>3, Zenon
    <3>6. presses \in 0 .. MaxPress /\ mode \in {"spi", "i2c"}
          /\ phase \in {"loop", "run", "struck"} /\ dr = <<>>
      BY <3>1, <3>3
    <3>7. QED
      BY <3>4, <3>5, <3>6, Zenon DEF DutTypeOK
  <2>3. HostTypeOK
    BY DEF Init, HostTypeOK
  <2>4. QED
    BY <2>1, <2>2, <2>3 DEF TypeOK
<1>2. TypeOK /\ [Next]_vars => TypeOK'
  <2> SUFFICES ASSUME TypeOK, [Next]_vars PROVE TypeOK'
    OBVIOUS
  <2> USE DEF TypeOK
  <2>1. CASE PlanDry
    <3>1. PICK i \in pending :
            /\ results' = Append(results, [idx |-> i, cov |-> Count(i), ran |-> FALSE,
                                           pass |-> FALSE, txn |-> NoTxn])
            /\ Mark(i) /\ pending' = pending \ {i}
      BY <2>1 DEF PlanDry
    <3>2. i \in DOMAIN faults /\ i \in 1 .. MaxFaults /\ Count(i) \in Nat
      BY IndexTypes DEF HostTypeOK
    <3>3. [idx |-> i, cov |-> Count(i), ran |-> FALSE, pass |-> FALSE, txn |-> NoTxn]
            \in ScenarioResult
      BY <3>2, NoTxnType DEF ScenarioResult
    <3>4. results' \in Seq(ScenarioResult)
      BY <3>1, <3>3 DEF HostTypeOK
    <3>5. cov' \in [Keys -> Nat]
      BY <3>1, <3>2, MarkType
    <3>6. HostTypeOK'
      BY <2>1, <3>1, <3>4, <3>5 DEF PlanDry, HostTypeOK
    <3>7. FpgaTypeOK' /\ DutTypeOK'
      BY <2>1 DEF PlanDry, fpgaVars, dutVars, FpgaTypeOK, DutTypeOK
    <3>8. QED
      BY <3>6, <3>7
  <2>2. CASE PickAndArm
    <3>1. PICK i \in pending : cur' = i /\ link' = link \o ArmWrites(faults[i])
      BY <2>2 DEF PickAndArm
    <3>2. i \in DOMAIN faults /\ faults[i] \in FaultSet /\ i # 0
      BY IndexTypes DEF HostTypeOK
    <3>3. ArmWrites(faults[i]) \in Seq((0 .. 4) \X (0 .. 255))
      BY <3>2, ArmWritesType DEF RegWrite
    <3>4. FpgaTypeOK'
      BY <2>2, <3>1, <3>3 DEF PickAndArm, FpgaTypeOK
    <3>5. HostTypeOK'
      BY <2>2, <3>1, <3>2 DEF PickAndArm, HostTypeOK
    <3>6. DutTypeOK'
      BY <2>2 DEF PickAndArm, dutVars, DutTypeOK
    <3>7. QED
      BY <3>4, <3>5, <3>6
  <2>3. CASE Settle
    BY <2>3 DEF Settle, fpgaVars, dutVars, FpgaTypeOK, DutTypeOK, HostTypeOK
  <2>4. CASE SendRun
    <3>1. cur \in DOMAIN faults /\ faults[cur] \in FaultSet /\ cur \in 1 .. MaxFaults
      BY <2>4, IndexTypes DEF SendRun, HostTypeOK
    <3>2. ProtoCmd(faults[cur].proto) \in {"S", "I", "C", "R"}
      <4>1. faults[cur].proto \in {"spi", "i2c", "can"}
        BY <3>1, FaultTypes DEF Protocols
      <4>2. QED
        BY <4>1, Zenon DEF ProtoCmd
    <3> DEFINE b1 == [c |-> ProtoCmd(faults[cur].proto), by |-> 0]
               b2 == [c |-> "R", by |-> cur]
    <3>3. b1 \in DutByte /\ b2 \in DutByte
      BY <3>1, <3>2, MaxFaultsOK DEF DutByte, MaxFaultsOK
    <3>4. wireIn' = wireIn \o <<b1, b2>>
      BY <2>4 DEF SendRun, RunCmd
    <3> HIDE DEF b1, b2
    <3>5. wireIn' \in Seq(DutByte)
      BY <3>3, <3>4 DEF DutTypeOK
    <3>6. DutTypeOK'
      BY <2>4, <3>5 DEF SendRun, DutTypeOK
    <3>7. FpgaTypeOK' /\ HostTypeOK'
      BY <2>4 DEF SendRun, fpgaVars, FpgaTypeOK, HostTypeOK
    <3>8. QED
      BY <3>6, <3>7
  <2>5. CASE Receive
    <3>1. Head(lines) \in Txn /\ cur \in DOMAIN faults
      BY <2>5 DEF Receive, DutTypeOK, HostTypeOK
    <3>2. FpgaTypeOK' /\ HostTypeOK'
      BY <2>5, <3>1, RecordTypes DEF Receive
    <3>3. lines' \in Seq(Txn)
      <4>1. PICK k \in 1 .. Len(lines) : lines' = SubSeq(lines, k + 1, Len(lines))
        BY <2>5 DEF Receive
      <4>2. QED
        BY <4>1 DEF DutTypeOK
    <3>4. DutTypeOK'
      BY <2>5, <3>3 DEF Receive, DutTypeOK
    <3>5. QED
      BY <3>2, <3>4
  <2>6. CASE Timeout
    <3>1. cur \in DOMAIN faults
      BY <2>6 DEF Timeout, HostTypeOK
    <3>2. FpgaTypeOK' /\ HostTypeOK'
      BY <2>6, <3>1, RecordTypes, NoTxnType DEF Timeout
    <3>3. DutTypeOK'
      BY <2>6 DEF Timeout, dutVars, DutTypeOK
    <3>4. QED
      BY <3>2, <3>3
  <2>7. CASE Finish
    BY <2>7 DEF Finish, fpgaVars, dutVars, FpgaTypeOK, DutTypeOK, HostTypeOK
  <2>8. CASE RigNext /\ UNCHANGED hostVars
    BY <2>8, RigKeepsTypes DEF hostVars, HostTypeOK
  <2>9. CASE UNCHANGED vars
    BY <2>9 DEF vars, fpgaVars, dutVars, hostVars, FpgaTypeOK, DutTypeOK, HostTypeOK
  <2>10. QED
    BY <2>1, <2>2, <2>3, <2>4, <2>5, <2>6, <2>7, <2>8, <2>9 DEF Next, Host
<1>3. QED
  BY <1>1, <1>2, PTL DEF Spec

-----------------------------------------------------------------------------
(* No torn arming.  The link never holds more than the disarm of the last  *)
(* scenario and the five writes of the current one, so what is on it and   *)
(* what the registers hold determine each other: the writes still on the   *)
(* link are a suffix of that sequence, the registers hold the rest.        *)

\* The sequence of writes between two scenarios.
Train(f) == [j \in 1 .. 6 |-> IF j = 1 THEN DisarmWrite ELSE ArmWrites(f)[j - 1]]

Whole == regs[0] = 1 => \E i \in DOMAIN faults : Injecting(regs) = Wants(faults[i])

\* While arming, the suffix on the link and the prefix in the registers.
Arming(f) ==
  /\ Len(link) <= 6 /\ \A j \in 1 .. Len(link) : link[j] = Train(f)[6 - Len(link) + j]
  /\ Len(link) = 6 => Whole
  /\ Len(link) \in 1 .. 5 => regs[0] = 0
  /\ Len(link) <= 5 => \A j \in 2 .. 6 - Len(link) : regs[Train(f)[j][1]] = Train(f)[j][2]

LinkOK ==
  /\ regs[0] \in {0, 1}
  /\ pc \in {"pick", "done"} => \/ link = <<>> /\ regs[0] = 0
                                \/ link = <<DisarmWrite>> /\ Whole
  /\ pc = "settle" => Arming(faults[cur])
  /\ pc \in {"send", "read"} => link = <<>> /\ Injecting(regs) = Wants(faults[cur])

LEMMA TrainShape ==
  ASSUME NEW f \in FaultSet
  PROVE  /\ Train(f)[1] = <<0, 0>> /\ Train(f)[6] = <<0, 1>>
         /\ \A j \in 2 .. 5 : Train(f)[j] \in (1 .. 4) \X (0 .. 255)
         /\ \A j, k \in 2 .. 5 : j # k => Train(f)[j][1] # Train(f)[k][1]
         /\ \A r \in [0 .. 4 -> 0 .. 255] :
              (\A j \in 2 .. 6 : r[Train(f)[j][1]] = Train(f)[j][2]) => Injecting(r) = Wants(f)
<1>1. PICK w1, w2, w3, w4 \in (1 .. 4) \X (0 .. 255) :
           /\ ArmWrites(f) = <<w1, w2, w3, w4, <<0, 1>>>>
           /\ w1[1] # w2[1] /\ w1[1] # w3[1] /\ w1[1] # w4[1]
           /\ w2[1] # w3[1] /\ w2[1] # w4[1] /\ w3[1] # w4[1]
           /\ \A r \in [0 .. 4 -> 0 .. 255] :
                /\ r[w1[1]] = w1[2] /\ r[w2[1]] = w2[2] /\ r[w3[1]] = w3[2]
                /\ r[w4[1]] = w4[2] /\ r[0] = 1
                => Injecting(r) = Wants(f)
  BY ArmShape
<1>2. /\ Train(f)[1] = <<0, 0>> /\ Train(f)[2] = w1 /\ Train(f)[3] = w2
      /\ Train(f)[4] = w3 /\ Train(f)[5] = w4 /\ Train(f)[6] = <<0, 1>>
  BY <1>1 DEF Train, DisarmWrite
<1>3. \A j \in 2 .. 5 : j = 2 \/ j = 3 \/ j = 4 \/ j = 5
  OBVIOUS
<1>4. \A j \in 2 .. 5 : Train(f)[j] \in (1 .. 4) \X (0 .. 255)
  BY <1>2, <1>3
<1>5. \A j, k \in 2 .. 5 : j # k => Train(f)[j][1] # Train(f)[k][1]
  BY <1>1, <1>2, <1>3
<1>6. ASSUME NEW r \in [0 .. 4 -> 0 .. 255],
             \A j \in 2 .. 6 : r[Train(f)[j][1]] = Train(f)[j][2]
      PROVE  Injecting(r) = Wants(f)
  <2>1. /\ r[Train(f)[2][1]] = Train(f)[2][2] /\ r[Train(f)[3][1]] = Train(f)[3][2]
        /\ r[Train(f)[4][1]] = Train(f)[4][2] /\ r[Train(f)[5][1]] = Train(f)[5][2]
        /\ r[Train(f)[6][1]] = Train(f)[6][2]
    BY <1>6
  <2>2. r[0] = 1
    BY <2>1, <1>2
  <2>3. QED
    BY <2>1, <2>2, <1>1, <1>2
<1>7. QED
  BY <1>2, <1>4, <1>5, <1>6

\* One write reaches the registers while the host settles.
LEMMA ArmingStep ==
  ASSUME TypeOK, LinkOK, pc = "settle", Apply, UNCHANGED <<pc, cur, faults>>
  PROVE  Arming(faults[cur])' /\ regs'[0] \in {0, 1}
<1>0. PICK n \in Nat : n = Len(link)
  <2>1. link \in Seq(RegWrite)
    BY DEF TypeOK, FpgaTypeOK, RegWrite
  <2>2. QED
    BY <2>1, LenProperties
<1> DEFINE f == faults[cur]  T == Train(f)  m == 7 - n
<1>1. f \in FaultSet /\ Arming(f) /\ faults'[cur'] = f
  <2>1. cur \in DOMAIN faults
    BY DEF TypeOK, HostTypeOK
  <2>2. QED
    BY <2>1, IndexTypes DEF TypeOK, LinkOK
<1>2. link \in Seq(RegWrite) /\ link # <<>> /\ regs \in [0 .. 4 -> 0 .. 255]
  BY DEF Apply, TypeOK, FpgaTypeOK, RegWrite
<1>3. n \in 1 .. 6 /\ Head(link) = link[1] /\ Len(link') = n - 1
      /\ \A j \in 1 .. n - 1 : link'[j] = link[j + 1]
  <2>1. n <= 6 /\ link' = Tail(link)
    BY <1>0, <1>1 DEF Apply, Arming
  <2>2. n # 0 /\ Head(link) = link[1]
    BY <1>0, <1>2, EmptySeq
  <2>3. Len(Tail(link)) = n - 1 /\ \A j \in 1 .. n - 1 : Tail(link)[j] = link[j + 1]
    BY <1>0, <1>2, HeadTailProperties
  <2>4. QED
    BY <2>1, <2>2, <2>3
<1>4. Head(link) = T[m] /\ m \in 1 .. 6
  BY <1>0, <1>1, <1>3 DEF Arming
<1>5. regs' = [regs EXCEPT ![T[m][1]] = T[m][2]]
  BY <1>4 DEF Apply
<1> HIDE DEF T
<1>6. \A j \in 1 .. n - 1 : link'[j] = T[6 - (n - 1) + j]
  <2>1. \A j \in 1 .. n : link[j] = T[6 - n + j]
    BY <1>0, <1>1 DEF Arming, T
  <2>2. QED
    BY <2>1, <1>3
<1>7. /\ T[1] = <<0, 0>> /\ T[6] = <<0, 1>>
      /\ \A j \in 2 .. 5 : T[j] \in (1 .. 4) \X (0 .. 255)
      /\ \A j, k \in 2 .. 5 : j # k => T[j][1] # T[k][1]
  BY <1>1, TrainShape DEF T
<1>8. \A j \in 2 .. 5 : T[j][1] \in 1 .. 4 /\ T[j][2] \in 0 .. 255
  BY <1>7
<1>9. CASE n = 6
  <2>0. m = 1 /\ T[m][1] = 0 /\ T[m][2] = 0
    BY <1>7, <1>9
  <2>1. regs' = [regs EXCEPT ![0] = 0]
    BY <1>5, <2>0
  <2>2. regs'[0] = 0 /\ Len(link') = 5
    BY <2>1, <1>2, <1>3, <1>9
  <2>3. QED
    BY <2>2, <1>1, <1>6, <1>9 DEF Arming, T
<1>10. CASE n \in 2 .. 5
  <2>a. m \in 2 .. 5 /\ n \in 1 .. 5
    BY <1>10
  <2>0. m \in 2 .. 5 /\ regs[0] = 0
    BY <1>0, <1>1, <2>a DEF Arming
  <2>1. m \in 2 .. 5 /\ T[m][1] \in 1 .. 4 /\ regs[0] = 0
    BY <2>0, <1>8
  <2>2. regs'[0] = 0
    BY <2>1, <1>2, <1>5
  <2>3. \A j \in 2 .. m - 1 : regs[T[j][1]] = T[j][2]
    BY <1>0, <1>1, <1>10 DEF Arming, T
  <2>4. \A j \in 2 .. m : regs'[T[j][1]] = T[j][2]
    <3> TAKE j \in 2 .. m
    <3>0. j \in 2 .. 5 /\ T[j][1] \in 1 .. 4
      BY <2>1, <1>8
    <3>1. CASE j = m
      BY <3>1, <3>0, <1>2, <1>5
    <3>2. CASE j # m
      <4>1. j \in 2 .. m - 1 /\ T[j][1] # T[m][1]
        BY <3>0, <3>2, <2>1, <1>7
      <4>2. regs'[T[j][1]] = regs[T[j][1]]
        BY <4>1, <3>0, <1>2, <1>5
      <4>3. QED
        BY <4>1, <4>2, <2>3
    <3>3. QED
      BY <3>1, <3>2
  <2>5. Len(link') \in 1 .. 4 /\ 6 - Len(link') = m
    BY <1>3, <1>10
  <2>6. QED
    BY <2>2, <2>4, <2>5, <1>1, <1>3, <1>6 DEF Arming, T
<1>11. CASE n = 1
  <2>0. m = 6 /\ T[6][1] = 0 /\ T[6][2] = 1
    BY <1>7, <1>11
  <2>1. regs' = [regs EXCEPT ![0] = 1] /\ T[6][1] = 0 /\ T[6][2] = 1
    BY <1>5, <2>0
  <2>2. regs'[0] = 1 /\ Len(link') = 0
    BY <2>1, <1>2, <1>3, <1>11
  <2>3. \A j \in 2 .. 5 : regs[T[j][1]] = T[j][2]
    BY <1>0, <1>1, <1>11 DEF Arming, T
  <2>4. \A j \in 2 .. 6 : regs'[T[j][1]] = T[j][2]
    <3> TAKE j \in 2 .. 6
    <3>1. CASE j = 6
      BY <3>1, <2>1, <2>2
    <3>2. CASE j # 6
      <4>1. j \in 2 .. 5 /\ T[j][1] \in 1 .. 4
        BY <3>2, <1>8
      <4>2. QED
        BY <4>1, <2>1, <2>3, <1>2
    <3>3. QED
      BY <3>1, <3>2
  <2>5. QED
    BY <2>2, <2>4, <1>1, <1>6, <1>11 DEF Arming, T
<1>12. QED
  BY <1>3, <1>9, <1>10, <1>11

\* The registers and the link are in step at every point of the loop.
THEOREM LinkInvariant == Spec => []LinkOK
<1>1. Init => LinkOK
  BY DEF Init, RigInit, LinkOK
<1>2. TypeOK /\ LinkOK /\ [Next]_vars => LinkOK'
  <2> SUFFICES ASSUME TypeOK, LinkOK, [Next]_vars PROVE LinkOK'
    OBVIOUS
  <2>0. /\ regs \in [0 .. 4 -> 0 .. 255] /\ link \in Seq(RegWrite)
        /\ pc \in {"pick", "settle", "send", "read", "done"}
        /\ pc \notin {"pick", "done"} => cur \in DOMAIN faults /\ faults[cur] \in FaultSet
    BY IndexTypes DEF TypeOK, FpgaTypeOK, HostTypeOK, RegWrite
  <2>1. CASE PlanDry
    BY <2>1 DEF PlanDry, fpgaVars, LinkOK, Arming, Whole
  <2>2. CASE PickAndArm
    <3>1. PICK i \in pending : cur' = i /\ link' = link \o ArmWrites(faults[i])
      BY <2>2 DEF PickAndArm
    <3>2. i \in DOMAIN faults /\ faults[i] \in FaultSet
      BY IndexTypes DEF TypeOK, HostTypeOK
    <3> DEFINE A == ArmWrites(faults[i])
    <3>3. A \in Seq(RegWrite) /\ Len(A) = 5
      BY <3>2, ArmWritesType
    <3>4. \A j \in 1 .. 6 : Train(faults[i])[j] = IF j = 1 THEN DisarmWrite ELSE A[j - 1]
      BY DEF Train
    <3>5. pc' = "settle" /\ UNCHANGED <<regs, faults>> /\ faults'[cur'] = faults[i]
      BY <2>2, <3>1 DEF PickAndArm
    <3> HIDE DEF A
    <3>6. CASE link = <<>> /\ regs[0] = 0
      <4>1. Len(link') = 5 /\ \A j \in 1 .. 5 : link'[j] = A[j]
        BY <3>1, <3>3, <3>6 DEF A
      <4>2. \A j \in 1 .. 5 : link'[j] = Train(faults[i])[6 - 5 + j]
        BY <4>1, <3>4
      <4>3. Arming(faults[i])'
        BY <4>1, <4>2, <3>5, <3>6 DEF Arming
      <4>4. QED
        BY <4>3, <3>5, <3>6 DEF LinkOK
    <3>7. CASE link = <<DisarmWrite>> /\ Whole
      <4>0. DisarmWrite \in RegWrite /\ Len(link) = 1 /\ link[1] = DisarmWrite
        BY <3>7 DEF DisarmWrite, RegWrite
      <4>1. Len(link') = 6 /\ link'[1] = DisarmWrite /\ \A j \in 2 .. 6 : link'[j] = A[j - 1]
        <5>1. link' = link \o A
          BY <3>1 DEF A
        <5>2. /\ Len(link \o A) = 1 + 5
              /\ \A j \in 1 .. 1 + 5 : (link \o A)[j] = IF j <= 1 THEN link[j] ELSE A[j - 1]
          <6>1. /\ Len(link \o A) = Len(link) + Len(A)
                /\ \A j \in 1 .. Len(link) + Len(A) :
                     (link \o A)[j] = IF j <= Len(link) THEN link[j] ELSE A[j - Len(link)]
            BY <2>0, <3>3, ConcatProperties
          <6>2. QED
            BY <3>3, <4>0, <6>1
        <5>3. QED
          BY <4>0, <5>1, <5>2
      <4>2. \A j \in 1 .. 6 : link'[j] = Train(faults[i])[6 - 6 + j]
        BY <4>1, <3>4
      <4>3. Whole'
        BY <3>5, <3>7 DEF Whole, Injecting, Enabled, Protocol
      <4>4. Arming(faults[i])'
        BY <4>1, <4>2, <4>3, <3>5 DEF Arming
      <4>5. QED
        BY <4>4, <3>5 DEF LinkOK
    <3>8. QED
      BY <2>2, <3>6, <3>7 DEF PickAndArm, LinkOK
  <2>3. CASE Settle
    <3>1. Len(link) = 0 /\ link = <<>>
      BY <2>3 DEF Settle
    <3>2. \A j \in 2 .. 6 : regs[Train(faults[cur])[j][1]] = Train(faults[cur])[j][2]
      BY <2>3, <3>1 DEF Settle, LinkOK, Arming
    <3>3. Injecting(regs) = Wants(faults[cur])
      BY <2>0, <2>3, <3>2, TrainShape DEF Settle
    <3>4. QED
      BY <2>3, <3>1, <3>3 DEF Settle, fpgaVars, LinkOK
  <2>4. CASE SendRun
    BY <2>4 DEF SendRun, fpgaVars, LinkOK
  <2>5. CASE Receive \/ Timeout
    <3>1. /\ link' = Append(link, DisarmWrite) /\ pc' = "pick" /\ pc = "read"
          /\ UNCHANGED <<regs, faults>>
      BY <2>5 DEF Receive, Timeout, Record
    <3>2. link = <<>> /\ Injecting(regs) = Wants(faults[cur]) /\ cur \in DOMAIN faults
      BY <2>0, <3>1 DEF LinkOK
    <3>3. link' = <<DisarmWrite>>
      BY <3>1, <3>2
    <3>4. Whole'
      BY <3>1, <3>2 DEF Whole
    <3>5. QED
      BY <3>1, <3>3, <3>4 DEF LinkOK
  <2>6. CASE Finish
    BY <2>6 DEF Finish, fpgaVars, LinkOK, Whole
  <2>7. CASE Apply /\ UNCHANGED hostVars
    <3>1. CASE pc = "settle"
      BY <2>7, <3>1, ArmingStep DEF hostVars, LinkOK
    <3>2. CASE pc \in {"pick", "done"}
      <4>1. link = <<DisarmWrite>>
        BY <2>7, <3>2 DEF LinkOK, Apply
      <4>a. Head(link) = <<0, 0>> /\ Tail(link) = <<>>
        BY <4>1 DEF DisarmWrite
      <4>b. Head(link)[1] = 0 /\ Head(link)[2] = 0
        BY <4>a
      <4>2. link' = <<>> /\ regs' = [regs EXCEPT ![0] = 0]
        BY <2>7, <4>a, <4>b DEF Apply
      <4>3. regs'[0] = 0 /\ pc' = pc
        BY <2>0, <2>7, <4>2 DEF hostVars
      <4>4. QED
        BY <3>2, <4>2, <4>3 DEF LinkOK
    <3>3. CASE pc \in {"send", "read"}
      BY <2>7, <3>3 DEF LinkOK, Apply
    <3>4. QED
      BY <2>0, <3>1, <3>2, <3>3
  <2>8. CASE UNCHANGED <<fpgaVars, hostVars>>
    BY <2>8 DEF fpgaVars, hostVars, LinkOK, Arming, Whole
  <2>9. (RigNext /\ UNCHANGED hostVars) => (Apply /\ UNCHANGED hostVars) \/ UNCHANGED <<fpgaVars, hostVars>>
    BY DEF RigNext, ByteArrives, ReadCommand, ButtonPress, Strike, Result, ButtonRelease
  <2>10. UNCHANGED vars => UNCHANGED <<fpgaVars, hostVars>>
    BY DEF vars
  <2>11. QED
    BY <2>1, <2>2, <2>3, <2>4, <2>5, <2>6, <2>7, <2>8, <2>9, <2>10 DEF Next, Host
<1>3. QED
  BY <1>1, <1>2, TypeCorrect, PTL DEF Spec

\* Whatever is on the link, an enabled injector holds one whole scenario.
THEOREM ArmedWholeTheorem == Spec => []ArmedWhole
<1>1. TypeOK /\ LinkOK => ArmedWhole
  <2> SUFFICES ASSUME TypeOK, LinkOK, Enabled(regs) PROVE ArmedWhole
    BY DEF ArmedWhole
  <2>0. /\ regs \in [0 .. 4 -> 0 .. 255] /\ link \in Seq(RegWrite) /\ regs[0] = 1
        /\ pc \in {"pick", "settle", "send", "read", "done"}
        /\ pc \in {"pick", "done"} => cur = 0
        /\ pc \notin {"pick", "done"} => cur \in DOMAIN faults /\ faults[cur] \in FaultSet
    <3>1. regs[0] = 0 \/ regs[0] = 1
      BY DEF LinkOK
    <3>2. regs[0] = 1
      BY <3>1 DEF Enabled
    <3>3. QED
      BY <3>2, IndexTypes DEF TypeOK, FpgaTypeOK, HostTypeOK, RegWrite
  <2>1. CASE pc \in {"pick", "done"}
    BY <2>0, <2>1 DEF LinkOK, Whole, ArmedWhole
  <2>2. CASE pc \in {"send", "read"}
    BY <2>0, <2>2 DEF LinkOK, ArmedWhole
  <2>3. CASE pc = "settle"
    <3>1. Arming(faults[cur]) /\ cur \in DOMAIN faults /\ faults[cur] \in FaultSet
      BY <2>0, <2>3 DEF LinkOK
    <3>2. Len(link) = 0 \/ Len(link) = 6
      <4>1. Len(link) \in Nat /\ Len(link) <= 6 /\ ~(Len(link) \in 1 .. 5)
        BY <2>0, <3>1 DEF Arming
      <4>2. \A n \in Nat : n <= 6 /\ ~(n \in 1 .. 5) => n = 0 \/ n = 6
        OBVIOUS
      <4>3. QED
        BY <4>1, <4>2
    <3>3. CASE Len(link) = 6
      <4>1. link # <<>> /\ Head(link) = link[1]
        <5>1. link \in Seq(RegWrite)
          BY <2>0
        <5>2. QED
          BY <3>3, <5>1
      <4>2. link[1] = Train(faults[cur])[1]
        BY <3>1, <3>3 DEF Arming
      <4>3. Head(link) = DisarmWrite
        BY <3>1, <4>1, <4>2, TrainShape DEF DisarmWrite
      <4>4. Whole
        BY <3>1, <3>3 DEF Arming
      <4>5. QED
        BY <2>0, <4>1, <4>3, <4>4 DEF Whole, ArmedWhole
    <3>4. CASE Len(link) = 0
      <4>1. link = <<>>
        BY <2>0, <3>4
      <4>2. \A j \in 2 .. 6 : regs[Train(faults[cur])[j][1]] = Train(faults[cur])[j][2]
        BY <3>1, <3>4 DEF Arming
      <4>3. Injecting(regs) = Wants(faults[cur])
        BY <2>0, <3>1, <4>2, TrainShape
      <4>4. QED
        BY <3>1, <4>1, <4>3 DEF ArmedWhole
    <3>5. QED
      BY <3>2, <3>3, <3>4
  <2>4. QED
    BY <2>0, <2>1, <2>2, <2>3
<1>2. QED
  BY <1>1, TypeCorrect, LinkInvariant, PTL

\* The campaign leaves the injector off.
THEOREM EndsDisarmedTheorem == Spec => []EndsDisarmed
<1>1. LinkOK => EndsDisarmed
  <2> SUFFICES ASSUME LinkOK, pc = "done", link = <<>> PROVE ~Enabled(regs)
    BY DEF EndsDisarmed
  <2>1. regs[0] = 0
    BY DEF LinkOK, DisarmWrite
  <2>2. QED
    BY <2>1 DEF Enabled
<1>2. QED
  BY <1>1, LinkInvariant, PTL

-----------------------------------------------------------------------------
(* Whose verdict it is.  VerdictOwn looks at recorded results only; its    *)
(* invariant follows the one command pair from the host's send to the      *)
(* RESULT line, while the registers stay as LinkOK has them.               *)

\* Nothing of a transaction is left on the bench.
Idle == wireIn = <<>> /\ dr = <<>> /\ phase = "loop" /\ lines = <<>>

DutOK ==
  presses = 0 =>
    /\ ~held
    /\ ~alive => dr = <<>> /\ phase = "loop" /\ lines = <<>>
    /\ alive /\ pc # "read" => Idle
    /\ alive /\ pc = "read" => Answering(faults[cur], cur)

\* A step of the bench while the answer is awaited.
LEMMA BenchStep ==
  ASSUME TypeOK, LinkOK, DutOK, RigNext, UNCHANGED hostVars, presses = 0, presses' = 0,
         alive, pc = "read"
  PROVE  ~held' /\ Answering(faults[cur], cur)'
<1>0. /\ presses = 0 /\ ~held /\ cur \in DOMAIN faults /\ faults[cur] \in FaultSet
      /\ Injecting(regs) = Wants(faults[cur]) /\ link = <<>> /\ Answering(faults[cur], cur)
  <2>1. cur \in DOMAIN faults
    BY DEF TypeOK, HostTypeOK
  <2>2. QED
    BY <2>1, IndexTypes DEF TypeOK, DutOK, LinkOK
<1>1. ~Apply /\ ~ButtonRelease
  BY <1>0 DEF Apply, ButtonRelease
<1>2. ~ButtonPress
  BY DEF ButtonPress
<1>3. ByteArrives \/ ReadCommand \/ Strike \/ Result
  BY <1>1, <1>2 DEF RigNext
<1>4. DutTypes(0 .. MaxFaults)
  BY BenchTypes DEF TypeOK
<1>6. PICK f \in FaultSet, id \in DOMAIN faults : f = faults[cur] /\ id = cur
  BY <1>0
<1>7. Answering(f, id)' /\ held' = held
  BY <1>0, <1>3, <1>4, <1>6, AnswerStep
<1>8. f = faults'[cur'] /\ id = cur'
  BY <1>6 DEF hostVars
<1>9. QED
  BY <1>0, <1>7, <1>8

LEMMA PressesGrow ==
  ASSUME TypeOK, [Next]_vars, presses' = 0
  PROVE  presses = 0
<1>1. presses \in Nat
  BY RigOK DEF RigOK, TypeOK, DutTypeOK
<1>2. presses' = presses + 1 \/ presses' = presses
  <2>1. CASE RigNext
    BY <2>1 DEF RigNext, Apply, ByteArrives, ReadCommand, ButtonPress, Strike, Result,
                ButtonRelease, dutVars
  <2>2. CASE Host
    BY <2>2 DEF Host, PlanDry, PickAndArm, Settle, SendRun, Receive, Timeout, Finish, dutVars
  <2>3. CASE UNCHANGED vars
    BY <2>3 DEF vars, dutVars
  <2>4. QED
    BY <2>1, <2>2, <2>3 DEF Next
<1>3. QED
  BY <1>1, <1>2

\* What VerdictOwn says of one result.
VerdictOf(r) ==
  r.ran =>
    IF alive
    THEN /\ r.txn.by = r.idx /\ r.txn.cfg = Wants(faults[r.idx])
         /\ r.pass = ((Wants(faults[r.idx]) \in Shows) = (faults[r.idx].expect = "detected"))
    ELSE r.txn = NoTxn

VerdictsOK == presses = 0 => \A q \in DOMAIN results : VerdictOf(results[q])

LEMMA RecordOwn ==
  ASSUME TypeOK, VerdictsOK, presses = 0, UNCHANGED <<alive, faults>>, cur \in DOMAIN faults,
         NEW t \in Txn, alive => Own(t, faults[cur], cur), ~alive => t = NoTxn, Record(t)
  PROVE  VerdictsOK'
<1> DEFINE r == [idx |-> cur, cov |-> Count(cur), ran |-> TRUE,
                 pass |-> Evaluate(faults[cur], t.obs), txn |-> t]
<1>1. faults[cur] \in FaultSet /\ results \in Seq(ScenarioResult)
  BY IndexTypes DEF TypeOK, HostTypeOK
<1>2. VerdictOf(r)
  <2>1. CASE alive
    <3>1. /\ t.by = cur /\ t.cfg = Wants(faults[cur]) /\ t.obs \in BOOLEAN
          /\ t.obs <=> Wants(faults[cur]) \in Shows
      BY <2>1 DEF Own, Txn
    <3>2. Evaluate(faults[cur], t.obs)
            = ((Wants(faults[cur]) \in Shows) = (faults[cur].expect = "detected"))
      BY <1>1, <3>1, EvaluateOwn
    <3>3. r.txn = t /\ r.idx = cur /\ r.pass = Evaluate(faults[cur], t.obs)
      OBVIOUS
    <3> HIDE DEF r
    <3>4. QED
      BY <2>1, <3>1, <3>2, <3>3, Zenon DEF VerdictOf
  <2>2. CASE ~alive
    BY <2>2 DEF VerdictOf
  <2>3. QED
    BY <2>1, <2>2
<1>3. results' = Append(results, r)
  BY DEF Record
<1> HIDE DEF r
<1>4. /\ \A q \in 1 .. Len(results) : results'[q] = results[q]
      /\ results'[Len(results) + 1] = r /\ Len(results') = Len(results) + 1
      /\ DOMAIN results = 1 .. Len(results) /\ DOMAIN results' = 1 .. Len(results')
      /\ Len(results) \in Nat
  BY <1>1, <1>3
<1>5. \A x : VerdictOf(x) => VerdictOf(x)'
  BY Zenon DEF VerdictOf
<1>6. \A q \in 1 .. Len(results) + 1 : q \in 1 .. Len(results) \/ q = Len(results) + 1
  BY <1>4
<1>7. QED
  BY <1>2, <1>4, <1>5, <1>6 DEF VerdictsOK

\* The bench is idle outside the read, and one transaction is under way in it.
LEMMA DutInvariant == Spec => []DutOK
<1>1. Init => DutOK
  BY DEF Init, RigInit, DutOK, Idle
<1>2. TypeOK /\ LinkOK /\ DutOK /\ [Next]_vars => DutOK'
  <2> SUFFICES ASSUME TypeOK, LinkOK, DutOK, [Next]_vars, presses = 0, presses' = 0
               PROVE  DutOK'
    BY PressesGrow DEF DutOK
  <2>0. /\ ~held
        /\ ~alive => dr = <<>> /\ phase = "loop" /\ lines = <<>>
        /\ alive /\ pc # "read" => Idle
        /\ alive /\ pc = "read" => Answering(faults[cur], cur)
    BY DEF DutOK
  <2>1. CASE PlanDry \/ PickAndArm \/ Settle \/ Finish
    <3>1. UNCHANGED dutVars /\ pc # "read" /\ pc' # "read"
      BY <2>1 DEF PlanDry, PickAndArm, Settle, Finish
    <3>2. QED
      BY <2>0, <3>1 DEF DutOK, Idle, dutVars
  <2>2. CASE SendRun
    <3>1. /\ UNCHANGED <<dr, phase, held, lines, alive, faults, cur>> /\ pc = "send" /\ pc' = "read"
          /\ wireIn' = wireIn \o RunCmd(faults[cur], cur)
      BY <2>2 DEF SendRun
    <3>3. CASE alive
      <4>1. Silent
        BY <2>0, <3>1, <3>3 DEF Idle, Silent
      <4>2. \A f, id : f = faults[cur] /\ id = cur => Answering(f, id)'
        BY <3>1, <4>1, AnswerSent
      <4>3. Answering(faults[cur], cur)'
        BY <3>1, <4>2
      <4>4. QED
        BY <2>0, <3>1, <3>3, <4>3 DEF DutOK
    <3>4. CASE ~alive
      BY <2>0, <3>1, <3>4 DEF DutOK
    <3>5. QED
      BY <3>3, <3>4
  <2>3. CASE Receive
    <3>1. /\ pc = "read" /\ pc' = "pick" /\ lines # <<>> /\ UNCHANGED <<wireIn, dr, phase, held, alive>>
          /\ \E k \in 1 .. Len(lines) : lines' = SubSeq(lines, k + 1, Len(lines))
      BY <2>3 DEF Receive, Record
    <3>2. alive /\ Answering(faults[cur], cur)
      BY <2>0, <3>1
    <3>3. lines' = <<>> /\ wireIn = <<>> /\ dr = <<>> /\ phase = "loop"
      BY <3>1, <3>2, AnswerRead
    <3>5. Idle'
      BY <3>1, <3>3 DEF Idle
    <3>6. QED
      BY <2>0, <3>1, <3>2, <3>5 DEF DutOK
  <2>4. CASE Timeout
    <3>1. /\ pc = "read" /\ pc' = "pick" /\ UNCHANGED dutVars
          /\ lines = <<>> /\ (~alive \/ held \/ Silent)
      BY <2>4 DEF Timeout, Record
    <3>2. ~alive
      BY <2>0, <3>1, NeverSilent
    <3>3. QED
      BY <2>0, <3>1, <3>2 DEF DutOK, dutVars
  <2>5. CASE RigNext /\ UNCHANGED hostVars
    <3>1. pc' = pc /\ alive' = alive /\ ~ButtonPress
      BY <2>5 DEF hostVars, ButtonPress, RigNext, Apply, ByteArrives, ReadCommand, Strike, Result,
                  ButtonRelease, dutVars
    <3>2. CASE alive /\ pc = "read"
      BY <2>5, <3>1, <3>2, BenchStep DEF DutOK
    <3>3. CASE alive /\ pc # "read"
      <4>1. wireIn = <<>> /\ dr = <<>> /\ phase = "loop" /\ lines = <<>>
        BY <2>0, <3>3 DEF Idle
      <4>2. Apply
        BY <2>0, <2>5, <3>1, <4>1 DEF RigNext, ByteArrives, ReadCommand, Strike, Result, ButtonRelease
      <4>3. QED
        BY <2>0, <3>1, <3>3, <4>2 DEF Apply, dutVars, DutOK, Idle
    <3>4. CASE ~alive
      <4>1. dr = <<>> /\ phase = "loop" /\ lines = <<>>
        BY <2>0, <3>4
      <4>2. Apply \/ ByteArrives
        BY <2>0, <2>5, <3>1, <4>1 DEF RigNext, ReadCommand, Strike, Result, ButtonRelease
      <4>3. UNCHANGED <<dr, phase, lines, held>>
        BY <3>4, <4>2 DEF Apply, ByteArrives, dutVars
      <4>4. QED
        BY <2>0, <3>1, <3>4, <4>1, <4>3 DEF DutOK
    <3>5. QED
      BY <3>2, <3>3, <3>4
  <2>6. CASE UNCHANGED vars
    <3>1. UNCHANGED <<wireIn, dr, mode, phase, held, txn, lines, alive, presses, faults, pc, cur>>
      BY <2>6 DEF vars, dutVars, hostVars
    <3>2. \A f, id : Answering(f, id) => Answering(f, id)'
      BY <3>1, AnswerStays
    <3>3. Answering(faults[cur], cur) => Answering(faults[cur], cur)'
      BY <3>1, <3>2
    <3>4. QED
      BY <2>0, <3>1, <3>3 DEF DutOK, Idle
  <2>7. QED
    BY <2>1, <2>2, <2>3, <2>4, <2>5, <2>6 DEF Next, Host
<1>3. QED
  BY <1>1, <1>2, TypeCorrect, LinkInvariant, PTL DEF Spec

\* Unless someone presses the button, each verdict is about its own scenario,
\* and the timeout means that the STM32 is dead.
THEOREM VerdictTheorem == Spec => []VerdictOwn
<1>1. Init => VerdictsOK
  BY DEF Init, VerdictsOK
<1>2. TypeOK /\ DutOK /\ VerdictsOK /\ [Next]_vars => VerdictsOK'
  <2> SUFFICES ASSUME TypeOK, DutOK, VerdictsOK, [Next]_vars, presses = 0, presses' = 0
               PROVE  VerdictsOK'
    BY PressesGrow DEF VerdictsOK
  <2>1. CASE PlanDry
    <3>1. PICK i \in pending :
            results' = Append(results, [idx |-> i, cov |-> Count(i), ran |-> FALSE,
                                        pass |-> FALSE, txn |-> NoTxn])
      BY <2>1 DEF PlanDry
    <3> DEFINE r == [idx |-> i, cov |-> Count(i), ran |-> FALSE, pass |-> FALSE, txn |-> NoTxn]
    <3>2. ~r.ran
      OBVIOUS
    <3>3. results' = Append(results, r) /\ results \in Seq(ScenarioResult)
      BY <3>1 DEF TypeOK, HostTypeOK
    <3> HIDE DEF r
    <3>4. /\ \A q \in 1 .. Len(results) : results'[q] = results[q]
          /\ results'[Len(results) + 1] = r /\ Len(results') = Len(results) + 1
          /\ DOMAIN results = 1 .. Len(results) /\ DOMAIN results' = 1 .. Len(results')
          /\ Len(results) \in Nat
      BY <3>3
    <3>5. UNCHANGED <<alive, faults>>
      BY <2>1 DEF PlanDry, dutVars
    <3>6. (\A x : VerdictOf(x) => VerdictOf(x)') /\ VerdictOf(r)
      BY <3>2, <3>5, Zenon DEF VerdictOf
    <3>7. \A q \in 1 .. Len(results) + 1 : q \in 1 .. Len(results) \/ q = Len(results) + 1
      BY <3>4
    <3>8. QED
      BY <3>4, <3>6, <3>7 DEF VerdictsOK
  <2>2. CASE Receive
    <3>1. pc = "read" /\ lines # <<>> /\ Record(Head(lines)) /\ UNCHANGED <<alive, faults>>
      BY <2>2 DEF Receive
    <3>2. alive /\ Answering(faults[cur], cur)
      BY <3>1 DEF DutOK
    <3>3. Own(Head(lines), faults[cur], cur)
      BY <3>1, <3>2, AnswerRead
    <3>4. Head(lines) \in Txn /\ cur \in DOMAIN faults
      BY <3>1 DEF TypeOK, HostTypeOK, DutTypeOK
    <3>5. QED
      BY <3>1, <3>2, <3>3, <3>4, RecordOwn
  <2>3. CASE Timeout
    <3>1. pc = "read" /\ Record(NoTxn) /\ UNCHANGED <<alive, faults>>
          /\ lines = <<>> /\ (~alive \/ held \/ Silent)
      BY <2>3 DEF Timeout, dutVars
    <3>2. ~alive
      BY <3>1, NeverSilent DEF DutOK
    <3>3. cur \in DOMAIN faults
      BY <3>1 DEF TypeOK, HostTypeOK
    <3>4. QED
      BY <3>1, <3>2, <3>3, NoTxnType, RecordOwn
  <2>4. CASE PickAndArm \/ Settle \/ SendRun \/ Finish \/ (RigNext /\ UNCHANGED hostVars) \/ UNCHANGED vars
    <3>1. UNCHANGED <<results, faults, alive>>
      <4>1. RigNext => alive' = alive
        BY DEF RigNext, Apply, ByteArrives, ReadCommand, ButtonPress, Strike, Result,
               ButtonRelease, dutVars
      <4>2. QED
        BY <2>4, <4>1 DEF PickAndArm, Settle, SendRun, Finish, vars, hostVars, dutVars
    <3>2. QED
      BY <3>1, Zenon DEF VerdictsOK, VerdictOf
  <2>5. QED
    BY <2>1, <2>2, <2>3, <2>4 DEF Next, Host
<1>3. VerdictsOK => VerdictOwn
  BY Zenon DEF VerdictsOK, VerdictOf, VerdictOwn
<1>4. QED
  BY <1>1, <1>2, <1>3, TypeCorrect, DutInvariant, PTL DEF Spec

-----------------------------------------------------------------------------
(* The schedule.  The scheduler looks at counts only, ScheduleByCoverage   *)
(* speaks of the order: the link between the two is that what has run is   *)
(* an initial part of that order, so that a pending scenario's count is    *)
(* at most its rank, and equal for the one that is picked.                 *)

Ran         == DOMAIN faults \ pending
RanKey(k)   == {j \in Ran : Key(faults[j]) = k}
SameBefore(i) == {j \in 1 .. i - 1 : Key(faults[j]) = Key(faults[i])}
Sooner(i, j) == Rank(i) < Rank(j) \/ (Rank(i) = Rank(j) /\ i < j)

CovOK   == \A k \in Keys : cov[k] = Cardinality(RanKey(k))
OrderOK == \A i \in Ran, j \in pending : Sooner(i, j)
PickOK  == /\ pc \in {"settle", "send", "read"} => IsNext(cur)
           /\ pc = "done" => pending = {}
ResultsOK ==
  /\ Len(results) = Cardinality(Ran)
  /\ \A q \in 1 .. Len(results) : results[q].idx \in Ran
  /\ \A q \in 1 .. Len(results), i \in Nat :
       results[q].idx = i => results[q].cov = Rank(i)
  /\ \A p, q \in 1 .. Len(results), i, j \in Nat :
       p < q /\ results[p].idx = i /\ results[q].idx = j => Sooner(i, j)

ScheduleOK == CovOK /\ OrderOK /\ PickOK /\ ResultsOK

LEMMA Campaigns ==
  ASSUME HostTypeOK
  PROVE  /\ Len(faults) \in Nat /\ DOMAIN faults = 1 .. Len(faults)
         /\ \A i \in DOMAIN faults : i \in Nat /\ faults[i] \in FaultSet /\ Key(faults[i]) \in Keys
         /\ IsFiniteSet(DOMAIN faults) /\ Cardinality(DOMAIN faults) = Len(faults)
<1>1. PICK n \in 0 .. MaxFaults : faults \in [1 .. n -> FaultSet]
  BY DEF HostTypeOK
<1>2. n \in Nat
  BY MaxFaultsOK DEF MaxFaultsOK
<1>3. faults \in Seq(FaultSet)
  BY <1>1, <1>2, SeqDef
<1>4. Len(faults) \in Nat /\ DOMAIN faults = 1 .. Len(faults)
  BY <1>3, LenProperties
<1>5. \A i \in DOMAIN faults : i \in Nat /\ faults[i] \in FaultSet /\ Key(faults[i]) \in Keys
  BY <1>1, <1>2, KeyType
<1>6. IsFiniteSet(1 .. Len(faults)) /\ Cardinality(1 .. Len(faults)) = Len(faults)
  <2>1. 1 \in Int /\ Len(faults) \in Int
    BY <1>4
  <2>2. /\ IsFiniteSet(1 .. Len(faults))
        /\ Cardinality(1 .. Len(faults)) = IF 1 > Len(faults) THEN 0 ELSE Len(faults) - 1 + 1
    BY <2>1, FS_Interval
  <2>3. QED
    BY <1>4, <2>2
<1>7. QED
  BY <1>4, <1>5, <1>6

LEMMA RankType ==
  ASSUME HostTypeOK, NEW i \in DOMAIN faults
  PROVE  /\ IsFiniteSet(SameBefore(i)) /\ Rank(i) = Cardinality(SameBefore(i)) /\ Rank(i) \in Nat
         /\ SameBefore(i) \subseteq DOMAIN faults
<1>1. i \in Nat /\ i \in 1 .. Len(faults) /\ DOMAIN faults = 1 .. Len(faults) /\ Len(faults) \in Nat
  BY Campaigns
<1>2. SameBefore(i) \subseteq DOMAIN faults
  BY <1>1 DEF SameBefore
<1>3. IsFiniteSet(SameBefore(i))
  BY <1>2, Campaigns, FS_Subset
<1>4. Rank(i) = Cardinality(SameBefore(i))
  BY DEF Rank, SameBefore
<1>5. QED
  BY <1>2, <1>3, <1>4, FS_CardinalityType

\* Of two scenarios with one tuple the later one has the higher rank.
LEMMA RankGrows ==
  ASSUME HostTypeOK, NEW i \in DOMAIN faults, NEW j \in DOMAIN faults, i < j,
         Key(faults[i]) = Key(faults[j])
  PROVE  Rank(i) < Rank(j)
<1>1. i \in Nat /\ j \in Nat /\ i >= 1
  BY Campaigns
<1>2. i \notin SameBefore(i) /\ SameBefore(i) \cup {i} \subseteq SameBefore(j)
  BY <1>1 DEF SameBefore
<1>3. Cardinality(SameBefore(i) \cup {i}) = Cardinality(SameBefore(i)) + 1
  BY <1>2, RankType, FS_AddElement
<1>4. Cardinality(SameBefore(i) \cup {i}) <= Cardinality(SameBefore(j))
  BY <1>2, RankType, FS_Subset
<1>5. Rank(i) \in Nat /\ Rank(j) \in Nat /\ Rank(i) = Cardinality(SameBefore(i))
      /\ Rank(j) = Cardinality(SameBefore(j))
  BY RankType
<1>6. QED
  BY <1>3, <1>4, <1>5

LEMMA RanTypes ==
  ASSUME HostTypeOK
  PROVE  /\ Ran \subseteq DOMAIN faults /\ IsFiniteSet(Ran) /\ Cardinality(Ran) \in Nat
         /\ \A k : IsFiniteSet(RanKey(k)) /\ Cardinality(RanKey(k)) \in Nat
<1>1. Ran \subseteq DOMAIN faults /\ \A k : RanKey(k) \subseteq Ran
  BY DEF Ran, RanKey
<1>2. IsFiniteSet(Ran)
  BY <1>1, Campaigns, FS_Subset
<1>3. \A k : IsFiniteSet(RanKey(k))
  BY <1>1, <1>2, FS_Subset
<1>4. QED
  BY <1>1, <1>2, <1>3, FS_CardinalityType

\* The count of a pending scenario is at most its rank.
LEMMA CountBelowRank ==
  ASSUME HostTypeOK, CovOK, OrderOK, NEW j \in pending
  PROVE  Count(j) <= Rank(j)
<1>1. j \in DOMAIN faults /\ Key(faults[j]) \in Keys /\ j \notin Ran
  BY Campaigns DEF HostTypeOK, Ran
<1> DEFINE k == Key(faults[j])
<1>2. Count(j) = Cardinality(RanKey(k))
  BY <1>1 DEF Count, CovOK
<1>3. RanKey(k) \subseteq SameBefore(j)
  <2> SUFFICES ASSUME NEW d \in RanKey(k) PROVE d \in SameBefore(j)
    OBVIOUS
  <2>1. d \in Ran /\ d \in DOMAIN faults /\ Key(faults[d]) = Key(faults[j]) /\ d # j
    BY <1>1 DEF RanKey, Ran
  <2>2. Sooner(d, j) /\ d \in Nat /\ j \in Nat /\ d >= 1 /\ Rank(d) \in Nat /\ Rank(j) \in Nat
    BY <1>1, <2>1, Campaigns, RankType DEF OrderOK
  <2>3. ~(j < d)
    <3>1. j < d => Rank(j) < Rank(d)
      BY <1>1, <2>1, RankGrows
    <3>2. QED
      BY <2>2, <3>1 DEF Sooner
  <2>4. d < j
    BY <2>1, <2>2, <2>3
  <2>5. QED
    BY <2>1, <2>2, <2>4 DEF SameBefore
<1>4. Cardinality(RanKey(k)) <= Cardinality(SameBefore(j))
  BY <1>1, <1>3, RankType, FS_Subset
<1>5. QED
  BY <1>1, <1>2, <1>4, RankType

\* The scenario the scheduler picks has the count of its rank, and is the
\* first of the pending ones in the order.
LEMMA NextIsFirst ==
  ASSUME HostTypeOK, CovOK, OrderOK, NEW i, IsNext(i)
  PROVE  /\ i \in pending /\ i \in DOMAIN faults /\ Count(i) = Rank(i)
         /\ \A j \in pending : j # i => Sooner(i, j)
<1>1. /\ i \in pending /\ i \in DOMAIN faults /\ Key(faults[i]) \in Keys
      /\ \A j \in pending : Count(i) < Count(j) \/ (Count(i) = Count(j) /\ i <= j)
  <2>1. i \in pending /\ i \in DOMAIN faults
    BY DEF IsNext, LeastCovered, HostTypeOK
  <2>2. QED
    BY <2>1, Campaigns DEF IsNext, LeastCovered, Count
<1> DEFINE k == Key(faults[i])
<1>2. \A j \in pending : j \in DOMAIN faults /\ j \in Nat /\ Count(j) \in Nat /\ Rank(j) \in Nat
                         /\ Count(j) <= Rank(j)
  BY Campaigns, IndexTypes, RankType, CountBelowRank DEF HostTypeOK
<1>3. Count(i) = Rank(i)
  <2>1. SameBefore(i) \subseteq RanKey(k)
    <3> SUFFICES ASSUME NEW p \in SameBefore(i) PROVE p \in RanKey(k)
      OBVIOUS
    <3>1. p \in DOMAIN faults /\ p < i /\ Key(faults[p]) = k
      <4>1. p \in DOMAIN faults /\ i \in Nat
        BY <1>1, <1>2, RankType
      <4>2. p \in Nat
        BY <4>1, Campaigns
      <4>3. QED
        BY <4>1, <4>2 DEF SameBefore
    <3>2. Count(p) = Count(i)
      BY <3>1 DEF Count
    <3>3. p \notin pending
      BY <1>1, <1>2, <3>1, <3>2
    <3>4. QED
      BY <3>1, <3>3 DEF RanKey, Ran
  <2>2. Cardinality(SameBefore(i)) <= Cardinality(RanKey(k))
    BY <2>1, RanTypes, FS_Subset
  <2>3. Count(i) = Cardinality(RanKey(k)) /\ Rank(i) = Cardinality(SameBefore(i))
    BY <1>1, RankType DEF Count, CovOK
  <2>4. QED
    BY <1>1, <1>2, <2>2, <2>3
<1>4. ASSUME NEW j \in pending, j # i PROVE Sooner(i, j)
  BY <1>1, <1>2, <1>3, <1>4 DEF Sooner
<1>5. QED
  BY <1>1, <1>3, <1>4

\* A scenario is run, or planned: it is erased, marked and recorded.
LEMMA RunStep ==
  ASSUME HostTypeOK, CovOK, OrderOK, ResultsOK, NEW i, IsNext(i), NEW r,
         r.idx = i, r.cov = Count(i), results' = Append(results, r), Mark(i),
         pending' = pending \ {i}, faults' = faults
  PROVE  CovOK' /\ OrderOK' /\ ResultsOK'
<1>1. /\ i \in pending /\ i \in DOMAIN faults /\ Count(i) = Rank(i)
      /\ \A j \in pending : j # i => Sooner(i, j)
  BY NextIsFirst
<1>2. Ran' = Ran \cup {i} /\ i \notin Ran
  BY <1>1 DEF Ran
<1>3. (\A x : Rank(x)' = Rank(x)) /\ (\A x, y : Sooner(x, y)' <=> Sooner(x, y))
  <2>1. \A x : Rank(x)' = Rank(x)
    BY DEF Rank
  <2>2. QED
    BY <2>1, Zenon DEF Sooner
<1>4. CovOK'
  <2> SUFFICES ASSUME NEW k \in Keys PROVE cov'[k] = Cardinality(RanKey(k)')
    BY DEF CovOK
  <2>1. RanKey(k)' = {j \in Ran \cup {i} : Key(faults[j]) = k}
    BY <1>2 DEF RanKey
  <2>2. cov' = [cov EXCEPT ![Key(faults[i])] = cov[Key(faults[i])] + 1] /\ cov \in [Keys -> Nat]
    BY DEF Mark, HostTypeOK
  <2>3. CASE k = Key(faults[i])
    <3>1. RanKey(k)' = RanKey(k) \cup {i} /\ i \notin RanKey(k)
      BY <1>2, <2>1, <2>3 DEF RanKey
    <3>2. Cardinality(RanKey(k) \cup {i}) = Cardinality(RanKey(k)) + 1
      BY <3>1, RanTypes, FS_AddElement
    <3>3. cov'[k] = cov[k] + 1 /\ cov[k] = Cardinality(RanKey(k))
      BY <2>2, <2>3 DEF CovOK
    <3>4. QED
      BY <3>1, <3>2, <3>3
  <2>4. CASE k # Key(faults[i])
    <3>1. RanKey(k)' = RanKey(k)
      BY <2>1, <2>4 DEF RanKey
    <3>2. cov'[k] = cov[k] /\ cov[k] = Cardinality(RanKey(k))
      BY <2>2, <2>4 DEF CovOK
    <3>3. QED
      BY <3>1, <3>2
  <2>5. QED
    BY <2>3, <2>4
<1>5. OrderOK'
  BY <1>1, <1>2, <1>3 DEF OrderOK
<1>6. ResultsOK'
  <2>1. results \in Seq(ScenarioResult) /\ Len(results) \in Nat
    BY DEF HostTypeOK
  <2>2. /\ \A q \in 1 .. Len(results) : results'[q] = results[q]
        /\ results'[Len(results) + 1] = r /\ Len(results') = Len(results) + 1
    BY <2>1
  <2>3. \A q \in 1 .. Len(results) + 1 : q \in 1 .. Len(results) \/ q = Len(results) + 1
    BY <2>1
  <2>4. Cardinality(Ran') = Cardinality(Ran) + 1
    BY <1>2, RanTypes, FS_AddElement
  <2>5. \A q \in 1 .. Len(results') : results'[q].idx \in Ran'
    BY <1>2, <2>2, <2>3 DEF ResultsOK
  <2>6. ASSUME NEW q \in 1 .. Len(results'), NEW j \in Nat, results'[q].idx = j
        PROVE  results'[q].cov = Rank(j)'
    <3>1. CASE q \in 1 .. Len(results)
      <4>1. results[q].cov = Rank(j) /\ results'[q] = results[q]
        BY <2>2, <2>6, <3>1 DEF ResultsOK
      <4>2. QED
        BY <1>3, <4>1
    <3>2. CASE q = Len(results) + 1
      <4>1. results'[q] = r /\ j = i
        BY <2>2, <2>6, <3>2
      <4>2. QED
        BY <1>1, <1>3, <4>1
    <3>3. QED
      BY <2>2, <2>3, <3>1, <3>2
  <2>7. ASSUME NEW p \in 1 .. Len(results'), NEW q \in 1 .. Len(results'), NEW d \in Nat,
               NEW j \in Nat, p < q, results'[p].idx = d, results'[q].idx = j
        PROVE  Sooner(d, j)'
    <3>1. p \in 1 .. Len(results)
      BY <2>1, <2>2, <2>7
    <3>2. results[p].idx = d /\ d \in Ran
      BY <2>2, <2>7, <3>1 DEF ResultsOK
    <3>3. CASE q \in 1 .. Len(results)
      <4>1. Sooner(d, j)
        BY <2>2, <2>7, <3>1, <3>2, <3>3 DEF ResultsOK
      <4>2. QED
        BY <1>3, <4>1
    <3>4. CASE q = Len(results) + 1
      <4>1. j = i
        BY <2>2, <2>7, <3>4
      <4>2. Sooner(d, i)
        BY <1>1, <3>2 DEF OrderOK
      <4>3. QED
        BY <1>3, <4>1, <4>2
    <3>5. QED
      BY <2>2, <2>3, <3>3, <3>4
  <2>8. Len(results') = Cardinality(Ran')
    BY <2>2, <2>4 DEF ResultsOK
  <2>9. QED
    BY <2>5, <2>6, <2>7, <2>8 DEF ResultsOK
<1>7. QED
  BY <1>4, <1>5, <1>6

\* Steps that run nothing leave what the schedule has done.
LEMMA NothingRun ==
  ASSUME CovOK, OrderOK, ResultsOK, UNCHANGED <<faults, pending, cov, results>>
  PROVE  CovOK' /\ OrderOK' /\ ResultsOK' /\ \A i : IsNext(i) => IsNext(i)'
<1>1. (\A x : Rank(x)' = Rank(x)) /\ Ran' = Ran /\ \A k : RanKey(k)' = RanKey(k)
  BY DEF Rank, Ran, RanKey
<1>2. \A x, y : Sooner(x, y)' <=> Sooner(x, y)
  BY <1>1, Zenon DEF Sooner
<1>3. CovOK'
  BY <1>1 DEF CovOK
<1>4. OrderOK'
  BY <1>1, <1>2 DEF OrderOK
<1>5. ResultsOK'
  BY <1>1, <1>2 DEF ResultsOK
<1>6. \A i : IsNext(i) => IsNext(i)'
  BY DEF IsNext, LeastCovered
<1>7. QED
  BY <1>3, <1>4, <1>5, <1>6

\* The campaign runs, or plans, every scenario once, in the order of how often
\* its tuple occurs earlier in the file and then of the file.
THEOREM ScheduleTheorem == Spec => []ScheduleByCoverage
<1>1. Init => ScheduleOK
  <2> SUFFICES ASSUME Init PROVE ScheduleOK
    OBVIOUS
  <2>1. /\ pending = DOMAIN faults /\ pc = "pick" /\ results = <<>>
        /\ cov = [k \in Keys |-> 0] /\ Len(results) = 0
    BY DEF Init
  <2>2. Ran = {} /\ \A k : RanKey(k) = {}
    BY <2>1 DEF Ran, RanKey
  <2>3. Cardinality({}) = 0
    BY FS_EmptySet
  <2>4. CovOK
    BY <2>1, <2>2, <2>3, Zenon DEF CovOK
  <2>5. OrderOK /\ PickOK
    BY <2>1, <2>2 DEF OrderOK, PickOK
  <2>6. \A q \in 1 .. Len(results) : FALSE
    BY <2>1
  <2>7. ResultsOK
    BY <2>1, <2>2, <2>3, <2>6 DEF ResultsOK
  <2>8. QED
    BY <2>4, <2>5, <2>7 DEF ScheduleOK
<1>2. TypeOK /\ ScheduleOK /\ [Next]_vars => ScheduleOK'
  <2> SUFFICES ASSUME TypeOK, ScheduleOK, [Next]_vars PROVE ScheduleOK'
    OBVIOUS
  <2>0. HostTypeOK /\ CovOK /\ OrderOK /\ PickOK /\ ResultsOK
    BY DEF TypeOK, ScheduleOK
  <2>1. CASE PlanDry
    <3>1. PICK i \in pending :
            /\ IsNext(i) /\ Mark(i) /\ pending' = pending \ {i}
            /\ results' = Append(results, [idx |-> i, cov |-> Count(i), ran |-> FALSE,
                                           pass |-> FALSE, txn |-> NoTxn])
      BY <2>1 DEF PlanDry
    <3>2. pc = "pick" /\ pc' = pc /\ faults' = faults
      BY <2>1 DEF PlanDry
    <3> DEFINE r == [idx |-> i, cov |-> Count(i), ran |-> FALSE, pass |-> FALSE, txn |-> NoTxn]
    <3>3. r.idx = i /\ r.cov = Count(i) /\ results' = Append(results, r)
      BY <3>1
    <3> HIDE DEF r
    <3>4. CovOK' /\ OrderOK' /\ ResultsOK'
      BY <2>0, <3>1, <3>2, <3>3, RunStep
    <3>5. PickOK'
      BY <3>2 DEF PickOK
    <3>6. QED
      BY <3>4, <3>5 DEF ScheduleOK
  <2>2. ASSUME NEW t, Record(t), pc = "read", faults' = faults PROVE ScheduleOK'
    <3> DEFINE r == [idx |-> cur, cov |-> Count(cur), ran |-> TRUE,
                     pass |-> Evaluate(faults[cur], t.obs), txn |-> t]
    <3>1. r.idx = cur /\ r.cov = Count(cur) /\ results' = Append(results, r)
      BY <2>2 DEF Record
    <3> HIDE DEF r
    <3>2. IsNext(cur)
      BY <2>0, <2>2 DEF PickOK
    <3>3. Mark(cur) /\ pending' = pending \ {cur} /\ pc' = "pick"
      BY <2>2 DEF Record
    <3>4. CovOK' /\ OrderOK' /\ ResultsOK'
      BY <2>0, <2>2, <3>1, <3>2, <3>3, RunStep
    <3>5. QED
      BY <3>3, <3>4 DEF ScheduleOK, PickOK
  <2>3. CASE Receive
    BY <2>2, <2>3 DEF Receive
  <2>4. CASE Timeout
    BY <2>2, <2>4 DEF Timeout
  <2>5. CASE PickAndArm
    <3>1. PICK i \in pending : IsNext(i) /\ cur' = i
      BY <2>5 DEF PickAndArm
    <3>2. UNCHANGED <<faults, pending, cov, results>> /\ pc' = "settle"
      BY <2>5 DEF PickAndArm
    <3>3. CovOK' /\ OrderOK' /\ ResultsOK' /\ \A x : IsNext(x) => IsNext(x)'
      BY <2>0, <3>2, NothingRun
    <3>4. IsNext(cur)'
      <4>1. IsNext(i)'
        BY <3>1, <3>3
      <4>2. QED
        BY <3>1, <4>1 DEF IsNext, LeastCovered
    <3>5. QED
      BY <3>2, <3>3, <3>4 DEF ScheduleOK, PickOK
  <2>6. CASE Settle \/ SendRun \/ Finish \/ (RigNext /\ UNCHANGED hostVars) \/ UNCHANGED vars
    <3>1. /\ UNCHANGED <<faults, pending, cur, cov, results>>
          /\ \/ pc \in {"settle", "send"} /\ pc' \in {"settle", "send", "read"}
             \/ pc' = "done" /\ pending = {}
             \/ pc' = pc
      BY <2>6 DEF Settle, SendRun, Finish, hostVars, vars
    <3>2. CovOK' /\ OrderOK' /\ ResultsOK' /\ \A x : IsNext(x) => IsNext(x)'
      BY <2>0, <3>1, NothingRun
    <3>3. IsNext(cur) => IsNext(cur)'
      BY <3>1 DEF IsNext, LeastCovered
    <3>4. PickOK'
      <4>1. pc' \in {"settle", "send", "read"} => pc \in {"settle", "send", "read"}
        BY <3>1
      <4>2. pc' = "done" => pending' = {}
        BY <2>0, <3>1 DEF PickOK
      <4>3. QED
        BY <2>0, <3>3, <4>1, <4>2 DEF PickOK
    <3>5. QED
      BY <3>2, <3>4 DEF ScheduleOK
  <2>7. QED
    BY <2>1, <2>3, <2>4, <2>5, <2>6 DEF Next, Host
<1>3. TypeOK /\ ScheduleOK => ScheduleByCoverage
  <2> SUFFICES ASSUME HostTypeOK, PickOK, ResultsOK PROVE ScheduleByCoverage
    BY DEF TypeOK, ScheduleOK
  <2>1. Len(results) \in Nat /\ DOMAIN results = 1 .. Len(results)
    BY DEF HostTypeOK
  <2>2. \A q \in 1 .. Len(results) : results[q].idx \in Nat
    BY RanTypes, Campaigns DEF ResultsOK
  <2>3. \A q \in 1 .. Len(results) : results[q].cov = Rank(results[q].idx)
    BY <2>2 DEF ResultsOK
  <2>4. ASSUME NEW q \in 1 .. Len(results), NEW p \in 1 .. q - 1
        PROVE  Sooner(results[p].idx, results[q].idx)
    <3>1. p \in 1 .. Len(results) /\ p < q
      BY <2>1
    <3>2. results[p].idx \in Nat /\ results[q].idx \in Nat
      BY <2>2, <3>1
    <3>3. QED
      BY <3>1, <3>2 DEF ResultsOK
  <2>5. pc = "done" => Len(results) = Len(faults)
    <3>1. pending = {} => Ran = DOMAIN faults
      BY DEF Ran
    <3>2. QED
      BY <3>1, Campaigns DEF PickOK, ResultsOK
  <2>6. QED
    BY <2>1, <2>3, <2>4, <2>5 DEF ScheduleByCoverage, Sooner
<1>4. QED
  BY <1>1, <1>2, <1>3, TypeCorrect, PTL DEF Spec
=============================================================================
