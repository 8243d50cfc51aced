------------------------------ MODULE RigProofs ------------------------------
(***************************************************************************)
(* What every controller of the bench relies on: the shape of arm(), the   *)
(* types of the bench, and the way of one command pair from the            *)
(* controller's send to the RESULT line.  CampaignProofs and               *)
(* StandaloneProofs build on these lemmas.                                 *)
(***************************************************************************)
EXTENDS Rig, SequenceTheorems, TLAPS

RegWrite == (0 .. 4) \X (0 .. 255)

LEMMA ByteParts ==
  ASSUME NEW n \in Nat
  PROVE  /\ Lo(n) \in 0 .. 255 /\ Hi(n) \in 0 .. 255
         /\ n < 65536 => 256 * Hi(n) + Lo(n) = n
         /\ n < 256 => Lo(n) = n
  BY SMT DEF Lo, Hi

LEMMA FaultTypes ==
  ASSUME NEW f \in FaultSet
  PROVE  /\ f.proto \in Protocols /\ f.a \in Nat /\ f.b \in Nat
         /\ f.expect \in {"detected", "tolerated"}
         /\ f.proto = "spi" => f.a < 65536 /\ f.b < 8
         /\ f.proto = "i2c" => f.a < 256 /\ f.b < 65536
  BY RigOK DEF RigOK

\* The five writes of arm(), with the enable last.
LEMMA ArmShape ==
  ASSUME NEW f \in FaultSet
  PROVE  \E w1, w2, w3, w4 \in (1 .. 4) \X (0 .. 255) :
           /\ ArmWrites(f) = <<w1, w2, w3, w4, <<0, 1>>>>
           /\ w1[1] # w2[1] /\ w1[1] # w3[1] /\ w1[1] # w4[1]
           /\ w2[1] # w3[1] /\ w2[1] # w4[1] /\ w3[1] # w4[1]
           /\ \A r \in [0 .. 4 -> 0 .. 255] :
                /\ r[w1[1]] = w1[2] /\ r[w2[1]] = w2[2] /\ r[w3[1]] = w3[2]
                /\ r[w4[1]] = w4[2] /\ r[0] = 1
                => Injecting(r) = Wants(f)
<1> DEFINE la == Lo(f.a)  ha == Hi(f.a)  lb == Lo(f.b)  hb == Hi(f.b)
<1>1. la \in 0 .. 255 /\ ha \in 0 .. 255 /\ lb \in 0 .. 255 /\ hb \in 0 .. 255
  BY FaultTypes, ByteParts
<1>2. CASE f.proto = "spi"
  <2>1. ArmWrites(f) = << <<4, 0>>, <<3, lb>>, <<1, la>>, <<2, ha>>, <<0, 1>> >>
    BY <1>2, Zenon DEF ArmWrites
  <2>2. 256 * ha + la = f.a /\ lb = f.b /\ lb % 8 = f.b
    <3>1. f.a \in Nat /\ f.b \in Nat /\ f.a < 65536 /\ f.b < 8
      BY <1>2, FaultTypes
    <3>2. 256 * ha + la = f.a /\ lb = f.b
      BY <3>1, ByteParts
    <3> HIDE DEF la, ha, lb, hb
    <3>3. QED
      BY <3>1, <3>2
  <2>3. ASSUME NEW r \in [0 .. 4 -> 0 .. 255],
               r[4] = 0, r[3] = lb, r[1] = la, r[2] = ha, r[0] = 1
        PROVE  Injecting(r) = Wants(f)
    <3>1. Enabled(r) /\ Protocol(r) = 0
      BY <2>3, SMT DEF Enabled, Protocol
    <3>2. Injecting(r) = <<"spi", 256 * r[2] + r[1], r[3] % 8>>
      BY <3>1 DEF Injecting
    <3>3. Wants(f) = <<"spi", f.a, f.b>>
      BY <1>2, Zenon DEF Wants, Key
    <3>4. QED
      BY <3>2, <3>3, <2>2, <2>3
  <2> HIDE DEF la, ha, lb, hb
  <2>4. QED
    <3> DEFINE w1 == <<4, 0>>  w2 == <<3, lb>>  w3 == <<1, la>>  w4 == <<2, ha>>
    <3>1. w1 \in (1 .. 4) \X (0 .. 255) /\ w2 \in (1 .. 4) \X (0 .. 255)
          /\ w3 \in (1 .. 4) \X (0 .. 255) /\ w4 \in (1 .. 4) \X (0 .. 255)
      BY <1>1
    <3>2. w1[1] = 4 /\ w1[2] = 0 /\ w2[1] = 3 /\ w2[2] = lb /\ w3[1] = 1 /\ w3[2] = la
          /\ w4[1] = 2 /\ w4[2] = ha
      OBVIOUS
    <3>3. ArmWrites(f) = <<w1, w2, w3, w4, <<0, 1>>>>
      BY <2>1
    <3> HIDE DEF w1, w2, w3, w4
    <3>4. QED
      BY <3>1, <3>2, <3>3, <2>3
<1>3. CASE f.proto = "i2c"
  <2>1. ArmWrites(f) = << <<4, 1>>, <<1, la>>, <<2, lb>>, <<3, hb>>, <<0, 1>> >>
    BY <1>3, Zenon DEF ArmWrites
  <2>2. la = f.a /\ 256 * hb + lb = f.b
    <3>1. f.a \in Nat /\ f.b \in Nat /\ f.a < 256 /\ f.b < 65536
      BY <1>3, FaultTypes
    <3>2. QED
      BY <3>1, ByteParts
  <2>3. ASSUME NEW r \in [0 .. 4 -> 0 .. 255],
               r[4] = 1, r[1] = la, r[2] = lb, r[3] = hb, r[0] = 1
        PROVE  Injecting(r) = Wants(f)
    <3>1. Enabled(r) /\ Protocol(r) = 1 /\ ~(Protocol(r) = 0)
      BY <2>3, SMT DEF Enabled, Protocol
    <3>2. Injecting(r) = <<"i2c", r[1], 256 * r[3] + r[2]>>
      BY <3>1 DEF Injecting
    <3>3. Wants(f) = <<"i2c", f.a, f.b>>
      BY <1>3, Zenon DEF Wants, Key
    <3>4. QED
      BY <3>2, <3>3, <2>2, <2>3
  <2> HIDE DEF la, ha, lb, hb
  <2>4. QED
    <3> DEFINE w1 == <<4, 1>>  w2 == <<1, la>>  w3 == <<2, lb>>  w4 == <<3, hb>>
    <3>1. w1 \in (1 .. 4) \X (0 .. 255) /\ w2 \in (1 .. 4) \X (0 .. 255)
          /\ w3 \in (1 .. 4) \X (0 .. 255) /\ w4 \in (1 .. 4) \X (0 .. 255)
      BY <1>1
    <3>2. w1[1] = 4 /\ w1[2] = 1 /\ w2[1] = 1 /\ w2[2] = la /\ w3[1] = 2 /\ w3[2] = lb
          /\ w4[1] = 3 /\ w4[2] = hb
      OBVIOUS
    <3>3. ArmWrites(f) = <<w1, w2, w3, w4, <<0, 1>>>>
      BY <2>1
    <3> HIDE DEF w1, w2, w3, w4
    <3>4. QED
      BY <3>1, <3>2, <3>3, <2>3
<1>4. CASE f.proto = "can"
  <2>1. ArmWrites(f) = << <<4, 2>>, <<1, la>>, <<2, ha>>, <<3, lb>>, <<0, 1>> >>
    BY <1>4, Zenon DEF ArmWrites
  <2>3. ASSUME NEW r \in [0 .. 4 -> 0 .. 255], r[4] = 2, r[0] = 1
        PROVE  Injecting(r) = Wants(f)
    <3>1. Enabled(r) /\ ~(Protocol(r) = 0) /\ ~(Protocol(r) = 1)
      BY <2>3, SMT DEF Enabled, Protocol
    <3>2. Injecting(r) = <<>>
      BY <3>1 DEF Injecting
    <3>4. QED
      BY <3>2, <1>4 DEF Wants
  <2> HIDE DEF la, ha, lb, hb
  <2>4. QED
    <3> DEFINE w1 == <<4, 2>>  w2 == <<1, la>>  w3 == <<2, ha>>  w4 == <<3, lb>>
    <3>1. w1 \in (1 .. 4) \X (0 .. 255) /\ w2 \in (1 .. 4) \X (0 .. 255)
          /\ w3 \in (1 .. 4) \X (0 .. 255) /\ w4 \in (1 .. 4) \X (0 .. 255)
      BY <1>1
    <3>2. w1[1] = 4 /\ w1[2] = 2 /\ w2[1] = 1 /\ w3[1] = 2 /\ w4[1] = 3
      OBVIOUS
    <3>3. ArmWrites(f) = <<w1, w2, w3, w4, <<0, 1>>>>
      BY <2>1
    <3> HIDE DEF w1, w2, w3, w4
    <3>4. QED
      BY <3>1, <3>2, <3>3, <2>3
<1>5. QED
  BY <1>2, <1>3, <1>4, FaultTypes DEF Protocols

LEMMA ArmWritesType ==
  ASSUME NEW f \in FaultSet
  PROVE  ArmWrites(f) \in Seq(RegWrite) /\ Len(ArmWrites(f)) = 5
<1>1. PICK w1, w2, w3, w4 \in (1 .. 4) \X (0 .. 255) : ArmWrites(f) = <<w1, w2, w3, w4, <<0, 1>>>>
  BY ArmShape
<1>2. w1 \in RegWrite /\ w2 \in RegWrite /\ w3 \in RegWrite /\ w4 \in RegWrite /\ <<0, 1>> \in RegWrite
  BY DEF RegWrite
<1>3. QED
  BY <1>1, <1>2

-----------------------------------------------------------------------------
(* Types of the bench, for whatever names the transactions are given       *)

Byte(Ids) == [c : {"S", "I", "C", "R"}, by : Ids]
Answer(Ids) == [by : Ids, cfg : {<<>>} \cup (Protocols \X Nat \X Nat), obs : BOOLEAN]

FpgaTypes == link \in Seq(RegWrite) /\ regs \in [0 .. 4 -> 0 .. 255]

DutTypes(Ids) ==
  /\ wireIn \in Seq(Byte(Ids)) /\ (dr = <<>> \/ \E b \in Byte(Ids) : dr = <<b>>)
  /\ mode \in {"spi", "i2c"} /\ phase \in {"loop", "run", "struck"}
  /\ held \in BOOLEAN /\ alive \in BOOLEAN /\ presses \in 0 .. MaxPress
  /\ txn \in Answer(Ids) /\ lines \in Seq(Answer(Ids))

LEMMA InjectingType ==
  ASSUME FpgaTypes
  PROVE  Injecting(regs) \in {<<>>} \cup (Protocols \X Nat \X Nat)
<1>1. \A k \in 0 .. 4 : regs[k] \in Nat
  <2>1. regs \in [0 .. 4 -> 0 .. 255]
    BY DEF FpgaTypes
  <2>2. QED
    BY <2>1
<1>2. 256 * regs[2] + regs[1] \in Nat /\ 256 * regs[3] + regs[2] \in Nat
      /\ regs[3] % 8 \in Nat /\ regs[1] \in Nat
  BY <1>1, SMT
<1>3. "spi" \in Protocols /\ "i2c" \in Protocols
  BY DEF Protocols
<1>4. QED
  BY <1>2, <1>3 DEF Injecting

LEMMA KeyType == \A f \in FaultSet : Key(f) \in Keys
  BY DEF Keys

LEMMA NoAnswerType == \A Ids : 0 \in Ids => NoTxn \in Answer(Ids)
  BY DEF NoTxn, Answer

\* What the steps of the bench do to the types.
LEMMA RigTypes ==
  ASSUME NEW Ids, 0 \in Ids, FpgaTypes, DutTypes(Ids), RigNext
  PROVE  FpgaTypes' /\ DutTypes(Ids)'
<1> USE DEF DutTypes
<1>0. NoTxn \in Answer(Ids)
  BY NoAnswerType
<1>1. CASE Apply
  <2>0. link \in Seq(RegWrite) /\ link # <<>> /\ regs \in [0 .. 4 -> 0 .. 255]
    BY <1>1 DEF Apply, FpgaTypes
  <2>1. Head(link) \in RegWrite /\ Tail(link) \in Seq(RegWrite)
    BY <2>0
  <2>2. FpgaTypes'
    BY <1>1, <2>0, <2>1 DEF Apply, RegWrite, FpgaTypes
  <2>3. QED
    BY <1>1, <2>2 DEF Apply, dutVars
<1>u. RigNext /\ ~Apply => FpgaTypes'
  BY DEF RigNext, ByteArrives, ReadCommand, ButtonPress, Strike, Result, ButtonRelease,
         fpgaVars, FpgaTypes
<1>2. CASE ByteArrives
  <2>1. Head(wireIn) \in Byte(Ids) /\ Tail(wireIn) \in Seq(Byte(Ids))
    BY <1>2 DEF ByteArrives
  <2>2. QED
    BY <1>1, <1>u, <1>2, <2>1 DEF ByteArrives
<1>3. CASE ReadCommand
  <2>1. PICK b \in Byte(Ids) : dr = <<b>>
    BY <1>3 DEF ReadCommand
  <2>2. b.by \in Ids
    BY DEF Byte
  <2>3. [NoTxn EXCEPT !.by = b.by] \in Answer(Ids)
    BY <2>2, <1>0 DEF Answer
  <2>4. phase' \in {"loop", "run", "struck"} /\ txn' \in Answer(Ids)
    BY <1>3, <2>1, <2>3 DEF ReadCommand, Start
  <2>5. mode' \in {"spi", "i2c"}
    BY <1>3, Zenon DEF ReadCommand
  <2>6. QED
    BY <1>1, <1>u, <1>3, <2>4, <2>5 DEF ReadCommand
<1>4. CASE ButtonPress
  <2>1. presses' \in 0 .. MaxPress
    BY <1>4, RigOK DEF ButtonPress, RigOK
  <2>2. [NoTxn EXCEPT !.by = 0] \in Answer(Ids)
    BY <1>0 DEF NoTxn
  <2>3. QED
    BY <1>1, <1>u, <1>4, <2>1, <2>2 DEF ButtonPress, Start
<1>5. CASE Strike
  <2>1. Injecting(regs) \in {<<>>} \cup (Protocols \X Nat \X Nat)
    BY InjectingType
  <2>2. (Injecting(regs) \in Shows /\ Injecting(regs)[1] = mode) \in BOOLEAN
    OBVIOUS
  <2>3. txn' \in Answer(Ids)
    BY <1>5, <2>1, <2>2 DEF Strike, Answer
  <2>4. QED
    BY <1>1, <1>u, <1>5, <2>3 DEF Strike
<1>6. CASE Result
  BY <1>1, <1>u, <1>0, <1>6 DEF Result
<1>7. CASE ButtonRelease
  BY <1>1, <1>u, <1>7 DEF ButtonRelease
<1>8. QED
  BY <1>1, <1>2, <1>3, <1>4, <1>5, <1>6, <1>7 DEF RigNext

-----------------------------------------------------------------------------
(* Whose answer it is                                                      *)

\* The answer of the transaction that the command pair named id ran for fault f.
Own(t, f, id) ==
  /\ t.by = id /\ t.cfg = Wants(f)
  /\ t.obs <=> Wants(f) \in Shows

SelectByte(f) == [c |-> ProtoCmd(f.proto), by |-> 0]
RunByte(id)   == [c |-> "R", by |-> id]
Selected(f)   == f.proto # "can" => mode = f.proto

\* The one command pair on the bench has reached one place.
OnWire(f, id)   == /\ wireIn = <<SelectByte(f), RunByte(id)>>
                   /\ dr = <<>> /\ phase = "loop" /\ lines = <<>>
Choosing(f, id) == /\ wireIn = <<RunByte(id)>> /\ dr = <<SelectByte(f)>>
                   /\ phase = "loop" /\ lines = <<>>
Chosen(f, id)   == /\ wireIn = <<RunByte(id)>> /\ dr = <<>> /\ phase = "loop" /\ lines = <<>>
                   /\ Selected(f)
Called(f, id)   == /\ wireIn = <<>> /\ dr = <<RunByte(id)>> /\ phase = "loop" /\ lines = <<>>
                   /\ Selected(f)
Running(f, id)  == /\ wireIn = <<>> /\ dr = <<>> /\ phase = "run" /\ lines = <<>>
                   /\ Selected(f) /\ txn.by = id
Struck(f, id)   == /\ wireIn = <<>> /\ dr = <<>> /\ phase = "struck" /\ lines = <<>>
                   /\ Own(txn, f, id)
Reported(f, id) == /\ wireIn = <<>> /\ dr = <<>> /\ phase = "loop"
                   /\ \E t : lines = <<t>> /\ Own(t, f, id)

Answering(f, id) == \/ OnWire(f, id) \/ Choosing(f, id) \/ Chosen(f, id) \/ Called(f, id)
                    \/ Running(f, id) \/ Struck(f, id) \/ Reported(f, id)

\* The byte that selects the bus does so, and starts nothing.
LEMMA SelectEffect ==
  ASSUME NEW f \in FaultSet
  PROVE  /\ ProtoCmd(f.proto) # "R"
         /\ f.proto = "spi" => ProtoCmd(f.proto) = "S"
         /\ f.proto = "i2c" => ProtoCmd(f.proto) = "I"
<1>1. f.proto \in {"spi", "i2c", "can"}
  BY FaultTypes DEF Protocols
<1>2. QED
  BY <1>1, Zenon DEF ProtoCmd

LEMMA ShowsSomething == \A s \in Shows : s # <<>>
  BY RigOK DEF RigOK

\* What is injected when the bus was selected is seen exactly if it shows.
LEMMA StrikeOwn ==
  ASSUME NEW f \in FaultSet, NEW id, "by" \in DOMAIN txn, "cfg" \in DOMAIN txn,
         "obs" \in DOMAIN txn, Selected(f), txn.by = id, Injecting(regs) = Wants(f), Strike
  PROVE  Own(txn', f, id)
<1> DEFINE w == Wants(f)
<1>1. txn' = [txn EXCEPT !.cfg = w, !.obs = (w \in Shows /\ w[1] = mode)]
  BY DEF Strike
<1>3. w \in Shows => w[1] = mode
  <2>1. f.proto \in {"spi", "i2c", "can"}
    BY FaultTypes DEF Protocols
  <2>2. CASE f.proto = "can"
    <3>1. w = <<>>
      BY <2>2 DEF Wants
    <3>2. \A s \in Shows : s # <<>>
      BY ShowsSomething
    <3>3. QED
      BY <3>1, <3>2
  <2>3. CASE f.proto # "can"
    <3>1. w = <<f.proto, f.a, f.b>>
      BY <2>3, Zenon DEF Wants, Key
    <3>2. mode = f.proto
      BY <2>3 DEF Selected
    <3>3. QED
      BY <3>1, <3>2
  <2>4. QED
    BY <2>1, <2>2, <2>3
<1> HIDE DEF w
<1>4. txn'.by = txn.by /\ txn'.cfg = w /\ txn'.obs = (w \in Shows /\ w[1] = mode)
  BY <1>1
<1>5. txn'.obs <=> w \in Shows
  BY <1>3, <1>4
<1>6. QED
  BY <1>4, <1>5 DEF w, Own

\* A step of the STM32 while the answer is awaited: the pair goes one place on.
LEMMA AnswerStep ==
  ASSUME NEW f \in FaultSet, NEW id, NEW Ids, DutTypes(Ids), Answering(f, id),
         Injecting(regs) = Wants(f), alive, ~held,
         ByteArrives \/ ReadCommand \/ Strike \/ Result
  PROVE  Answering(f, id)' /\ held' = held /\ alive' = alive
<1>1. held' = held /\ alive' = alive
  BY DEF ByteArrives, ReadCommand, Strike, Result
<1> DEFINE S == SelectByte(f)
           R == RunByte(id)
<1>2. /\ S.c = ProtoCmd(f.proto) /\ R.c = "R" /\ R.by = id
  BY DEF SelectByte, RunByte
<1> HIDE DEF S, R
<1>5. CASE OnWire(f, id)
  <2>1. wireIn = <<S, R>> /\ dr = <<>> /\ phase = "loop" /\ lines = <<>>
    BY <1>5 DEF OnWire, S, R
  <2>2. ByteArrives
    BY <2>1 DEF ReadCommand, Strike, Result
  <2>3. Head(wireIn) = S /\ Tail(wireIn) = <<R>>
    BY <2>1
  <2>4. wireIn' = <<R>> /\ dr' = <<S>> /\ UNCHANGED <<phase, lines>>
    BY <2>1, <2>2, <2>3 DEF ByteArrives
  <2>5. Choosing(f, id)'
    BY <2>1, <2>4 DEF Choosing, S, R
  <2>6. QED
    BY <1>1, <2>5 DEF Answering
<1>6. CASE Choosing(f, id)
  <2>1. wireIn = <<R>> /\ dr = <<S>> /\ dr # <<>> /\ wireIn # <<>> /\ phase = "loop" /\ lines = <<>>
    BY <1>6 DEF Choosing, S, R
  <2>2. ReadCommand
    BY <2>1 DEF ByteArrives, Strike, Result
  <2>3. /\ S.c # "R" /\ (f.proto = "spi" => S.c = "S") /\ (f.proto = "i2c" => S.c = "I")
    BY <1>2, SelectEffect
  <2>4. /\ dr' = <<>> /\ UNCHANGED <<wireIn, phase, lines>>
        /\ mode' = CASE S.c = "S" -> "spi" [] S.c = "I" -> "i2c" [] OTHER -> mode
    BY <2>1, <2>2, <2>3 DEF ReadCommand
  <2>5. f.proto \in {"spi", "i2c", "can"}
    BY FaultTypes DEF Protocols
  <2>6. f.proto # "can" => mode' = f.proto
    <3>1. CASE f.proto = "spi"
      BY <2>3, <2>4, <3>1
    <3>2. CASE f.proto = "i2c"
      <4>1. S.c = "I" /\ S.c # "S"
        BY <2>3, <3>2
      <4>2. QED
        BY <2>4, <3>2, <4>1
    <3>3. QED
      BY <2>5, <3>1, <3>2
  <2>7. Chosen(f, id)'
    BY <2>1, <2>4, <2>6 DEF Chosen, Selected, R
  <2>8. QED
    BY <1>1, <2>7 DEF Answering
<1>7. CASE Chosen(f, id)
  <2>1. wireIn = <<R>> /\ dr = <<>> /\ phase = "loop" /\ lines = <<>> /\ Selected(f)
    BY <1>7 DEF Chosen, R
  <2>2. ByteArrives
    BY <2>1 DEF ReadCommand, Strike, Result
  <2>3. Head(wireIn) = R /\ Tail(wireIn) = <<>>
    BY <2>1
  <2>4. wireIn' = <<>> /\ dr' = <<R>> /\ UNCHANGED <<phase, lines, mode>>
    BY <2>1, <2>2, <2>3 DEF ByteArrives
  <2>5. Called(f, id)'
    BY <2>1, <2>4 DEF Called, Selected, R
  <2>6. QED
    BY <1>1, <2>5 DEF Answering
<1>8. CASE Called(f, id)
  <2>1. /\ wireIn = <<>> /\ dr = <<R>> /\ phase = "loop" /\ lines = <<>> /\ Selected(f)
    BY <1>8 DEF Called, R
  <2>2. ReadCommand
    BY <2>1 DEF ByteArrives, Strike, Result
  <2>3. R.c = "R" /\ R.c # "S" /\ R.c # "I"
    BY <1>2
  <2>4. /\ dr' = <<>> /\ UNCHANGED <<wireIn, lines>> /\ mode' = mode
        /\ phase' = "run" /\ txn' = [NoTxn EXCEPT !.by = R.by]
    BY <2>1, <2>2, <2>3 DEF ReadCommand, Start
  <2>5. txn'.by = id
    BY <1>2, <2>4 DEF NoTxn
  <2>6. Running(f, id)'
    BY <2>1, <2>4, <2>5 DEF Running, Selected
  <2>7. QED
    BY <1>1, <2>6 DEF Answering
<1>9. CASE Running(f, id)
  <2>1. Strike
    BY <1>9 DEF Running, ByteArrives, ReadCommand, Result
  <2>2. "by" \in DOMAIN txn /\ "cfg" \in DOMAIN txn /\ "obs" \in DOMAIN txn
    BY DEF DutTypes, Answer
  <2>3. Own(txn', f, id)
    BY <1>9, <2>1, <2>2, StrikeOwn DEF Running
  <2>4. Struck(f, id)'
    BY <1>9, <2>1, <2>3 DEF Running, Strike, Struck, Own
  <2>5. QED
    BY <1>1, <2>4 DEF Answering
<1>10. CASE Struck(f, id)
  <2>1. Result
    BY <1>10 DEF Struck, ByteArrives, ReadCommand, Strike
  <2>2. lines' = <<txn>> /\ UNCHANGED <<wireIn, dr>> /\ phase' = "loop"
    BY <1>10, <2>1 DEF Result, Struck
  <2>3. Own(txn, f, id)
    BY <1>10 DEF Struck
  <2>4. Reported(f, id)'
    BY <1>10, <2>2, <2>3 DEF Struck, Reported, Own
  <2>5. QED
    BY <1>1, <2>4 DEF Answering
<1>11. ~Reported(f, id)
  BY DEF Reported, ByteArrives, ReadCommand, Strike, Result
<1>12. QED
  BY <1>5, <1>6, <1>7, <1>8, <1>9, <1>10, <1>11 DEF Answering

\* The pair is sent on a silent bench.
LEMMA AnswerSent ==
  ASSUME NEW f, NEW id, Silent, wireIn' = wireIn \o RunCmd(f, id), UNCHANGED <<dr, phase, lines>>
  PROVE  Answering(f, id)'
<1>1. wireIn = <<>> /\ dr = <<>> /\ phase = "loop" /\ lines = <<>>
  BY DEF Silent
<1>2. wireIn' = <<SelectByte(f), RunByte(id)>>
  BY <1>1 DEF RunCmd, SelectByte, RunByte
<1>3. OnWire(f, id)'
  BY <1>1, <1>2 DEF OnWire, SelectByte, RunByte
<1>4. QED
  BY <1>3 DEF Answering

LEMMA AnswerStays ==
  ASSUME NEW f, NEW id, Answering(f, id), UNCHANGED <<wireIn, dr, mode, phase, txn, lines>>
  PROVE  Answering(f, id)'
  BY DEF Answering, OnWire, Choosing, Chosen, Called, Running, Struck, Reported, Own, Selected,
         SelectByte, RunByte

\* A line can be read only at the end of that way, it is the answer, and nothing is left.
LEMMA AnswerRead ==
  ASSUME NEW f, NEW id, Answering(f, id), lines # <<>>
  PROVE  /\ Own(Head(lines), f, id) /\ wireIn = <<>> /\ dr = <<>> /\ phase = "loop"
         /\ \A k \in 1 .. Len(lines) : SubSeq(lines, k + 1, Len(lines)) = <<>>
<1>1. Reported(f, id)
  BY DEF Answering, OnWire, Choosing, Chosen, Called, Running, Struck
<1>2. PICK t : lines = <<t>> /\ Own(t, f, id)
  BY <1>1 DEF Reported
<1>3. lines \in Seq({t}) /\ Len(lines) = 1 /\ Head(lines) = t
  BY <1>2
<1>4. ASSUME NEW k \in 1 .. Len(lines) PROVE SubSeq(lines, k + 1, Len(lines)) = <<>>
  <2>1. k = 1
    BY <1>3
  <2>2. SubSeq(lines, 2, 1) \in Seq({t}) /\ Len(SubSeq(lines, 2, 1)) = 0
    BY <1>3
  <2>3. SubSeq(lines, 2, 1) = <<>>
    BY <2>2, EmptySeq
  <2>4. QED
    BY <1>3, <2>1, <2>3
<1>5. QED
  BY <1>1, <1>2, <1>3, <1>4 DEF Reported

LEMMA NeverSilent ==
  ASSUME NEW f, NEW id, Answering(f, id)
  PROVE  ~Silent
  BY DEF Silent, Answering, OnWire, Choosing, Chosen, Called, Running, Struck, Reported

LEMMA EvaluateType ==
  ASSUME NEW f \in FaultSet, NEW o \in BOOLEAN
  PROVE  Evaluate(f, o) \in BOOLEAN
  BY DEF Evaluate

\* evaluate() passes exactly when the DUT could see what it was to see.
LEMMA EvaluateOwn ==
  ASSUME NEW f \in FaultSet, NEW o \in BOOLEAN, o <=> Wants(f) \in Shows
  PROVE  Evaluate(f, o) = ((Wants(f) \in Shows) = (f.expect = "detected"))
<1>1. f.expect \in {"detected", "tolerated"}
  BY FaultTypes
<1>2. o = (Wants(f) \in Shows)
  BY Zenon
<1>3. CASE f.expect = "detected"
  <2>1. Evaluate(f, o) = o /\ (f.expect = "detected") = TRUE
    BY <1>3 DEF Evaluate
  <2>2. (o = TRUE) = o
    OBVIOUS
  <2>3. QED
    BY <1>2, <2>1, <2>2, Zenon
<1>4. CASE f.expect = "tolerated"
  <2>1. Evaluate(f, o) = ~o /\ (f.expect = "detected") = FALSE
    BY <1>4 DEF Evaluate
  <2>2. (o = FALSE) = ~o
    OBVIOUS
  <2>3. QED
    BY <1>2, <2>1, <2>2, Zenon
<1>5. QED
  BY <1>1, <1>3, <1>4
=============================================================================
