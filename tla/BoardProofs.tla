---------------------------- MODULE BoardProofs ----------------------------
(***************************************************************************)
(* Theorems about the board's files as the generators leave them, for      *)
(* every board, every library of symbols and footprints and any programs   *)
(* started and stopped: kigen_pcb.py's placement, pcb_layout.py's blocks,  *)
(* outline, planes and holes, and the drawings of kigen.py.                *)
(***************************************************************************)
EXTENDS BoardBuild, FiniteSetTheorems, WellFoundedInduction, TLAPS

(* Induction over numbers and finite sets.  The theorems of the library    *)
(* take a predicate; these take the set of what has the property.          *)

Below == {ss \in Nat \X Nat : ss[1] < ss[2]}

LEMMA BelowWF == IsWellFoundedOn(Below, Nat)
  BY NatLessThanWellFounded DEF OpToRel, Below

\* Every nonempty set of numbers has a least one.
LEMMA Least ==
  ASSUME NEW T, T \subseteq Nat, T # {}
  PROVE  \E n \in T : \A m \in T : n <= m
<1>1. PICK x \in T : \A y \in T : ~ (<<y, x>> \in Below)
  BY BelowWF, WFMin
<1>2. ASSUME NEW y \in T PROVE x <= y
  <2>1. x \in Nat /\ y \in Nat /\ <<y, x>> \in Nat \X Nat
    OBVIOUS
  <2>2. ~(y < x)
    BY <1>1, <2>1 DEF Below
  <2> QED
    BY <2>1, <2>2
<1> QED
  BY <1>2

\* Induction over the natural numbers.
LEMMA CountUp ==
  ASSUME NEW N, 0 \in N, \A n \in Nat : n \in N => n + 1 \in N
  PROVE  Nat \subseteq N
<1> SUFFICES ASSUME Nat \ N # {} PROVE FALSE
  OBVIOUS
<1>1. PICK n \in Nat \ N : \A m \in Nat \ N : n <= m
  BY Least
<1>2. n # 0 /\ n - 1 \in Nat /\ n = (n - 1) + 1
  BY <1>1
<1>3. n - 1 \in N
  BY <1>1, <1>2
<1> QED
  BY <1>1, <1>2, <1>3

\* Induction over the subsets of a finite set.
LEMMA Descent ==
  ASSUME NEW S, IsFiniteSet(S), NEW G, {} \in G,
         \A T \in SUBSET S : T # {} /\ (\A x \in T : T \ {x} \in G) => T \in G
  PROVE  SUBSET S \subseteq G
<1> DEFINE N == {n \in Nat : \A T \in SUBSET S : Cardinality(T) = n => T \in G}
<1>1. \A T \in SUBSET S : IsFiniteSet(T) /\ Cardinality(T) \in Nat
  BY FS_Subset, FS_CardinalityType
<1>2. 0 \in N
  BY <1>1, FS_EmptySet
<1>3. ASSUME NEW n \in N PROVE n + 1 \in N
  <2>1. ASSUME NEW T \in SUBSET S, Cardinality(T) = n + 1 PROVE T \in G
    <3>1. T # {}
      BY <2>1, FS_EmptySet
    <3>2. ASSUME NEW x \in T PROVE T \ {x} \in G
      <4>1. T \ {x} \in SUBSET S /\ Cardinality(T \ {x}) = n
        BY <1>1, <2>1, FS_RemoveElement
      <4> QED
        BY <4>1
    <3> QED
      BY <3>1, <3>2
  <2> QED
    BY <2>1
<1>4. Nat \subseteq N
  <2> HIDE DEF N
  <2> QED
    BY <1>2, <1>3, CountUp
<1> QED
  BY <1>1, <1>4

\* Max and Min of a finite set of integers.
LEMMA Extremes ==
  ASSUME NEW S, IsFiniteSet(S), S \subseteq Int, S # {}
  PROVE  /\ Max(S) \in S /\ \A y \in S : y <= Max(S)
         /\ Min(S) \in S /\ \A y \in S : Min(S) <= y
<1> DEFINE G == {T \in SUBSET S : T # {} => /\ \E x \in T : \A y \in T : x >= y
                                            /\ \E x \in T : \A y \in T : x <= y}
<1>1. ASSUME NEW T \in SUBSET S, T # {}, \A x \in T : T \ {x} \in G PROVE T \in G
  <2>1. PICK x \in T : TRUE
    BY <1>1
  <2>2. CASE T \ {x} = {}
    <3>1. \A y \in T : x >= y /\ x <= y
      BY <2>2
    <3> QED
      BY <3>1
  <2>3. CASE T \ {x} # {}
    <3>1. PICK m \in T \ {x} : \A y \in T \ {x} : m >= y
      BY <1>1, <2>3
    <3>2. PICK n \in T \ {x} : \A y \in T \ {x} : n <= y
      BY <1>1, <2>3
    <3>3. m \in Int /\ n \in Int /\ x \in Int /\ \A y \in T : y \in Int
      OBVIOUS
    <3>4. \E z \in T : \A y \in T : z >= y
      <4>1. CASE m >= x
        BY <3>1, <3>3, <4>1
      <4>2. CASE x > m
        <5>1. \A y \in T : x >= y
          BY <3>1, <3>3, <4>2
        <5> QED
          BY <5>1
      <4> QED
        BY <3>3, <4>1, <4>2
    <3>5. \E z \in T : \A y \in T : z <= y
      <4>1. CASE n <= x
        BY <3>2, <3>3, <4>1
      <4>2. CASE x < n
        <5>1. \A y \in T : x <= y
          BY <3>2, <3>3, <4>2
        <5> QED
          BY <5>1
      <4> QED
        BY <3>3, <4>1, <4>2
    <3> QED
      BY <3>4, <3>5
  <2> QED
    BY <2>2, <2>3
<1>2. S \in G
  <2>1. {} \in G
    OBVIOUS
  <2> HIDE DEF G
  <2> QED
    BY <1>1, <2>1, Descent
<1>3. \E x \in S : \A y \in S : x >= y
  BY <1>2
<1>4. \E x \in S : \A y \in S : x <= y
  BY <1>2
<1> QED
  BY <1>3, <1>4 DEF Max, Min

LEMMA MaxOfTwo ==
  ASSUME NEW a \in Int, NEW b \in Int
  PROVE  Max({a, b}) = IF a < b THEN b ELSE a
<1>1. IsFiniteSet({a, b})
  <2>1. {a, b} = {a} \cup {b}
    OBVIOUS
  <2>2. IsFiniteSet({a})
    BY FS_Singleton
  <2> QED
    BY <2>1, <2>2, FS_AddElement
<1>2. Max({a, b}) \in {a, b} /\ a <= Max({a, b}) /\ b <= Max({a, b})
  BY <1>1, Extremes
<1> QED
  BY <1>2

LEMMA PairCard ==
  ASSUME NEW a, NEW b
  PROVE  IsFiniteSet({a, b}) /\ (a # b => Cardinality({a, b}) = 2)
<1>1. {a, b} = {a} \cup {b}
  OBVIOUS
<1>2. IsFiniteSet({a}) /\ Cardinality({a}) = 1
  BY FS_Singleton
<1> QED
  BY <1>1, <1>2, FS_AddElement

\* What a function makes of a finite set is finite.
LEMMA FiniteRange ==
  ASSUME NEW f, IsFiniteSet(DOMAIN f)
  PROVE  IsFiniteSet({f[x] : x \in DOMAIN f})
<1> DEFINE R == {f[x] : x \in DOMAIN f}  g == [x \in DOMAIN f |-> f[x]]
<1>1. g \in Surjection(DOMAIN f, R)
  BY DEF Surjection
<1> QED
  BY <1>1, FS_Surjection

-----------------------------------------------------------------------------
Round(f, s) == IF s = {} THEN NoShelf ELSE Put(Smallest(s), f[s \ {Smallest(s)}])
Upto(S, n) == {s \in SUBSET S : Cardinality(s) <= n}
Fold(S) == CHOOSE f : f = [s \in SUBSET S |-> Round(f, s)]

LEMMA FoldIs == ASSUME NEW S PROVE packed(S) = Fold(S)[S]
  BY DEF packed, Fold, Round, MapThenFoldSet

LEMMA FoldDefined ==
  ASSUME NEW S, IsFiniteSet(S), \A s \in SUBSET S : s # {} => Smallest(s) \in s
  PROVE  Fold(S) = [s \in SUBSET S |-> Round(Fold(S), s)]
<1> DEFINE N == {n \in Nat : \E f : f = [s \in Upto(S, n) |-> Round(f, s)]}
<1>1. \A s \in SUBSET S : IsFiniteSet(s) /\ Cardinality(s) \in Nat
  BY FS_Subset, FS_CardinalityType
<1>2. 0 \in N
  <2>1. \A s \in Upto(S, 0) : s = {}
    BY <1>1, FS_EmptySet DEF Upto
  <2> DEFINE f == [s \in Upto(S, 0) |-> NoShelf]
  <2>2. f = [s \in Upto(S, 0) |-> Round(f, s)]
    BY <2>1 DEF Round
  <2> QED
    BY <2>2
<1>3. ASSUME NEW n \in N PROVE n + 1 \in N
  <2>1. PICK f : f = [s \in Upto(S, n) |-> Round(f, s)]
    OBVIOUS
  <2> DEFINE g == [s \in Upto(S, n + 1) |-> Round(f, s)]
  <2>2. ASSUME NEW s \in Upto(S, n) PROVE s \in Upto(S, n + 1) /\ g[s] = f[s]
    <3>1. s \in Upto(S, n + 1)
      BY <1>1 DEF Upto
    <3> QED
      BY <3>1, <2>1
  <2>3. ASSUME NEW s \in Upto(S, n + 1), s # {} PROVE s \ {Smallest(s)} \in Upto(S, n)
    <3>1. Smallest(s) \in s /\ Cardinality(s \ {Smallest(s)}) = Cardinality(s) - 1
      BY <1>1, <2>3, FS_RemoveElement DEF Upto
    <3> QED
      BY <1>1, <2>3, <3>1 DEF Upto
  <2>4. ASSUME NEW s \in Upto(S, n + 1) PROVE g[s] = Round(g, s)
    BY <2>2, <2>3 DEF Round
  <2>5. g = [s \in Upto(S, n + 1) |-> Round(g, s)]
    BY <2>4
  <2> HIDE DEF g
  <2>6. \E h : h = [s \in Upto(S, n + 1) |-> Round(h, s)]
    BY <2>5
  <2> QED
    BY <2>6
<1>4. Cardinality(S) \in N
  <2>1. Cardinality(S) \in Nat
    BY FS_CardinalityType
  <2> HIDE DEF N
  <2> QED
    BY <1>2, <1>3, <2>1, CountUp
<1>5. Upto(S, Cardinality(S)) = SUBSET S
  BY FS_Subset DEF Upto
<1>6. \E f : f = [s \in SUBSET S |-> Round(f, s)]
  BY <1>4, <1>5
<1> QED
  BY <1>6 DEF Fold

-----------------------------------------------------------------------------
(* kigen_pcb.py: the placement in memory.                                  *)

Fits(fp) == fp \in DOMAIN Mods

TypeOK ==
  /\ xpos \in Int /\ ypos \in Int /\ rowh \in Nat
  /\ MARGIN <= xpos /\ MARGIN <= ypos
  /\ IsFiniteSet(DOMAIN parts) /\ DOMAIN parts \subseteq Int
  /\ todo \subseteq DOMAIN parts /\ \A i \in todo : Fits(parts[i].fp)
  /\ DOMAIN at \subseteq DOMAIN parts
  /\ \A i \in DOMAIN at : Fits(parts[i].fp) /\ at[i] \in Int \X Int
  /\ DOMAIN at \cap todo = {}

\* Where the part placed is, seen from the next free corner <<fx, fy>> of a shelf of
\* height fh: left of the corner, or on an earlier shelf; and never beyond the shelf's
\* end or below its tallest part.
OnShelf(c, fx, fy, fh) ==
  /\ MARGIN <= c[1] /\ MARGIN <= c[2] /\ c[3] <= BOARD_W /\ c[4] <= fy + fh
  /\ c[3] + GAP <= fx \/ c[4] + GAP <= fy

Shelves == \A i \in DOMAIN at : OnShelf(Cell(parts[i].fp, at[i]), xpos, ypos, rowh)

MainInv == TypeOK /\ Shelves /\ CellsApart

LEMMA BoxFacts ==
  ASSUME NEW fp, Fits(fp)
  PROVE  /\ \A k \in 1 .. 4 : fp_bbox(fp)[k] \in Int
         /\ Width(fp) \in Nat /\ Height(fp) \in Nat
         /\ Width(fp) <= BOARD_W - MARGIN
<1> DEFINE b == Mods[fp].ink
<1>1. CASE b = <<>>
  <2>1. fp_bbox(fp) = <<-400, -400, 400, 400>>
    BY <1>1 DEF fp_bbox
  <2> QED
    BY <2>1 DEF Width, Height, BOARD_W, MARGIN
<1>2. CASE /\ b \in Int \X Int \X Int \X Int
           /\ b[1] <= b[3] /\ b[2] <= b[4] /\ b[3] - b[1] <= 15100 /\ b # <<>>
  <2>1. fp_bbox(fp) = <<b[1] - 100, b[2] - 100, b[3] + 100, b[4] + 100>>
    BY <1>2 DEF fp_bbox
  <2>2. b[1] \in Int /\ b[2] \in Int /\ b[3] \in Int /\ b[4] \in Int
    BY <1>2
  <2> DEFINE f == fp_bbox(fp)
  <2>3. /\ f[1] = b[1] - 100 /\ f[2] = b[2] - 100
        /\ f[3] = b[3] + 100 /\ f[4] = b[4] + 100
    BY <2>1
  <2> HIDE DEF f, b
  <2>4. b[1] <= b[3] /\ b[2] <= b[4] /\ b[3] - b[1] <= 15100
    BY <1>2
  <2>5. f[1] \in Int /\ f[2] \in Int /\ f[3] \in Int /\ f[4] \in Int
    BY <2>2, <2>3
  <2>6. f[3] - f[1] = b[3] - b[1] + 200 /\ f[4] - f[2] = b[4] - b[2] + 200
    BY <2>2, <2>3
  <2>7. f[3] - f[1] \in Nat /\ f[4] - f[2] \in Nat /\ f[3] - f[1] <= 15300
    BY <2>2, <2>4, <2>6
  <2> QED
    BY <2>5, <2>7 DEF Width, Height, BOARD_W, MARGIN, f
<1> QED
  BY <1>1, <1>2, ModsOK DEF Fits, IsBox

\* The cell of a part placed with its corner at <<cx, cy>>.
LEMMA CellAt ==
  ASSUME NEW i, Fits(parts[i].fp), NEW cx \in Int, NEW cy \in Int
  PROVE  /\ Origin(i, cx, cy) \in Int \X Int
         /\ Cell(parts[i].fp, Origin(i, cx, cy))
              = <<cx, cy, cx + Width(parts[i].fp), cy + Height(parts[i].fp)>>
<1> DEFINE b == fp_bbox(parts[i].fp)
<1>1. b[1] \in Int /\ b[2] \in Int /\ b[3] \in Int /\ b[4] \in Int
  BY BoxFacts
<1> QED
  BY <1>1 DEF Cell, Origin, Width, Height

LEMMA CellType ==
  ASSUME NEW fp, Fits(fp), NEW a \in Int \X Int
  PROVE  \A k \in 1 .. 4 : Cell(fp, a)[k] \in Int
<1>1. a[1] \in Int /\ a[2] \in Int
  OBVIOUS
<1> QED
  BY <1>1, BoxFacts DEF Cell

-----------------------------------------------------------------------------
(* One round of the loop.                                                  *)

Wraps(i) == xpos + Width(parts[i].fp) > BOARD_W /\ xpos > MARGIN
CX(i) == IF Wraps(i) THEN MARGIN ELSE xpos
CY(i) == IF Wraps(i) THEN NextRow ELSE ypos

LEMMA PlaceShape ==
  ASSUME PlaceNext
  PROVE  \E i \in todo :
           /\ at' = [j \in DOMAIN at \cup {i} |-> IF j = i THEN Origin(i, CX(i), CY(i)) ELSE at[j]]
           /\ xpos' = CX(i) + Width(parts[i].fp) + GAP /\ ypos' = CY(i)
           /\ rowh' = LET h == Height(parts[i].fp)
                          rh == IF Wraps(i) THEN 0 ELSE rowh
                      IN  IF h > rh THEN h ELSE rh
           /\ todo' = todo \ {i}
           /\ parts' = parts /\ pcb' = pcb
  BY DEF PlaceNext, Wraps, CX, CY

\* The corner is on the board, and the cells placed before are left of it or above.
LEMMA Corner ==
  ASSUME MainInv, NEW i \in todo
  PROVE  /\ CX(i) \in Int /\ CY(i) \in Int /\ MARGIN <= CX(i) /\ ypos <= CY(i)
         /\ CX(i) + Width(parts[i].fp) <= BOARD_W
         /\ \A j \in DOMAIN at : LET c == Cell(parts[j].fp, at[j])
                                 IN  c[3] + GAP <= CX(i) \/ c[4] + GAP <= CY(i)
<1> DEFINE w == Width(parts[i].fp)
<1>1. w \in Nat /\ w <= BOARD_W - MARGIN
  BY BoxFacts DEF MainInv, TypeOK
<1>2. xpos \in Int /\ ypos \in Int /\ rowh \in Nat /\ MARGIN <= xpos /\ MARGIN <= ypos
  BY DEF MainInv, TypeOK
<1> HIDE DEF w
<1>3. ASSUME NEW j \in DOMAIN at
      PROVE  LET c == Cell(parts[j].fp, at[j])
             IN  c[3] + GAP <= CX(i) \/ c[4] + GAP <= CY(i)
  <2> DEFINE c == Cell(parts[j].fp, at[j])
  <2>1. c[3] \in Int /\ c[4] \in Int
    BY CellType DEF MainInv, TypeOK
  <2>2. c[4] <= ypos + rowh /\ (c[3] + GAP <= xpos \/ c[4] + GAP <= ypos)
    BY DEF MainInv, Shelves, OnShelf
  <2> HIDE DEF c
  <2>3. c[3] + GAP <= CX(i) \/ c[4] + GAP <= CY(i)
    BY <1>2, <2>1, <2>2 DEF CX, CY, NextRow, GAP
  <2> QED
    BY <2>3 DEF c
<1>4. CX(i) \in Int /\ CY(i) \in Int /\ MARGIN <= CX(i) /\ ypos <= CY(i)
  BY <1>2 DEF CX, CY, NextRow, GAP, MARGIN
<1>5. CX(i) + w <= BOARD_W
  BY <1>1, <1>2 DEF CX, Wraps, w, MARGIN, BOARD_W
<1> QED
  BY <1>3, <1>4, <1>5 DEF w

LEMMA PlaceStep == MainInv /\ PlaceNext => MainInv'
<1> SUFFICES ASSUME MainInv, PlaceNext PROVE MainInv'
  OBVIOUS
<1>1. PICK i \in todo :
        /\ at' = [j \in DOMAIN at \cup {i} |-> IF j = i THEN Origin(i, CX(i), CY(i)) ELSE at[j]]
        /\ xpos' = CX(i) + Width(parts[i].fp) + GAP /\ ypos' = CY(i)
        /\ rowh' = LET h == Height(parts[i].fp)
                       rh == IF Wraps(i) THEN 0 ELSE rowh
                   IN  IF h > rh THEN h ELSE rh
        /\ todo' = todo \ {i}
        /\ parts' = parts /\ pcb' = pcb
  BY PlaceShape
<1> DEFINE w == Width(parts[i].fp)  h == Height(parts[i].fp)
           new == <<CX(i), CY(i), CX(i) + w, CY(i) + h>>
           old(j) == Cell(parts[j].fp, at[j])
<1>2. w \in Nat /\ h \in Nat /\ Fits(parts[i].fp)
  BY BoxFacts DEF MainInv, TypeOK
<1>3. /\ CX(i) \in Int /\ CY(i) \in Int /\ MARGIN <= CX(i) /\ ypos <= CY(i)
      /\ CX(i) + w <= BOARD_W
  BY Corner
<1>4. xpos \in Int /\ ypos \in Int /\ rowh \in Nat /\ MARGIN <= xpos /\ MARGIN <= ypos
  BY DEF MainInv, TypeOK
<1>5. at'[i] \in Int \X Int /\ Cell(parts'[i].fp, at'[i]) = new
  BY <1>1, <1>2, <1>3, CellAt
<1>6. /\ DOMAIN at' = DOMAIN at \cup {i} /\ i \notin DOMAIN at
      /\ \A j \in DOMAIN at : at'[j] = at[j] /\ Cell(parts'[j].fp, at'[j]) = old(j)
  BY <1>1 DEF MainInv, TypeOK
<1>7. \A j \in DOMAIN at : /\ \A k \in 1 .. 4 : old(j)[k] \in Int
                           /\ OnShelf(old(j), xpos, ypos, rowh)
                           /\ old(j)[3] + GAP <= CX(i) \/ old(j)[4] + GAP <= CY(i)
  BY Corner, CellType DEF MainInv, TypeOK, Shelves
<1>8. rowh' \in Nat /\ h <= rowh' /\ ypos + rowh <= ypos' + rowh'
  BY <1>1, <1>2, <1>3, <1>4 DEF CY, NextRow, GAP
<1>9. TypeOK'
  <2>1. xpos' \in Int /\ ypos' \in Int /\ MARGIN <= xpos' /\ MARGIN <= ypos'
    BY <1>1, <1>2, <1>3, <1>4 DEF GAP, MARGIN
  <2>2. /\ IsFiniteSet(DOMAIN parts') /\ DOMAIN parts' \subseteq Int
        /\ todo' \subseteq DOMAIN parts' /\ \A j \in todo' : Fits(parts'[j].fp)
    BY <1>1 DEF MainInv, TypeOK
  <2>3. DOMAIN at' \subseteq DOMAIN parts' /\ DOMAIN at' \cap todo' = {}
    BY <1>1, <1>6 DEF MainInv, TypeOK
  <2>4. ASSUME NEW j \in DOMAIN at' PROVE Fits(parts'[j].fp) /\ at'[j] \in Int \X Int
    <3>1. CASE j = i
      BY <1>1, <1>2, <1>5, <3>1
    <3>2. CASE j \in DOMAIN at
      BY <1>1, <1>6, <3>2 DEF MainInv, TypeOK
    <3> QED
      BY <1>6, <3>1, <3>2
  <2> QED
    BY <1>8, <2>1, <2>2, <2>3, <2>4 DEF TypeOK
<1> HIDE DEF w, h, old
<1>10. Shelves'
  <2>1. OnShelf(new, xpos', ypos', rowh')
    BY <1>1, <1>2, <1>3, <1>4, <1>8 DEF OnShelf, w, h, GAP, MARGIN
  <2>2. ASSUME NEW j \in DOMAIN at PROVE OnShelf(old(j), xpos', ypos', rowh')
    <3> DEFINE c == old(j)
    <3>1. /\ c[3] \in Int /\ c[4] \in Int /\ OnShelf(c, xpos, ypos, rowh)
          /\ c[3] + GAP <= CX(i) \/ c[4] + GAP <= CY(i)
      BY <1>7
    <3> HIDE DEF c
    <3>2. CX(i) <= xpos' /\ CY(i) = ypos' /\ xpos' \in Int /\ ypos' \in Int
      BY <1>1, <1>2, <1>3 DEF w, GAP
    <3> QED
      <4>1. /\ MARGIN <= c[1] /\ MARGIN <= c[2] /\ c[3] <= BOARD_W /\ c[4] <= ypos + rowh
        BY <3>1 DEF OnShelf
      <4>2. c[4] <= ypos' + rowh'
        <5>1. c[4] \in Int /\ ypos + rowh \in Int /\ ypos' + rowh' \in Int
          BY <3>1, <3>2, <1>4, <1>8
        <5>2. c[4] <= ypos + rowh /\ ypos + rowh <= ypos' + rowh'
          BY <4>1, <1>8
        <5> QED
          BY <5>1, <5>2
      <4>3. c[3] + GAP <= xpos' \/ c[4] + GAP <= ypos'
        BY <3>1, <3>2, <1>3 DEF GAP
      <4>4. OnShelf(c, xpos', ypos', rowh')
        BY <4>1, <4>2, <4>3 DEF OnShelf
      <4> QED
        BY <4>4 DEF c
  <2> QED
    BY <2>1, <2>2, <1>5, <1>6 DEF Shelves, old
<1>11. CellsApart'
  <2>1. \A j \in DOMAIN at : Clear(old(j), new, GAP) /\ Clear(new, old(j), GAP)
    BY <1>7 DEF Clear
  <2>2. \A j, k \in DOMAIN at : j # k => Clear(old(j), old(k), GAP)
    BY DEF MainInv, CellsApart, old
  <2> QED
    BY <2>1, <2>2, <1>5, <1>6 DEF CellsApart
<1> QED
  BY <1>9, <1>10, <1>11 DEF MainInv

\* A netlist as the files of a board give it.
GoodNetlist(nl) ==
  /\ IsFiniteSet(DOMAIN nl) /\ DOMAIN nl \subseteq Int
  /\ \A i \in DOMAIN nl : nl[i].fp = "" \/ Fits(nl[i].fp)

LEMMA NetlistGood == board \in DOMAIN Designs => GoodNetlist(netlist)
<1> SUFFICES ASSUME board \in DOMAIN Designs PROVE GoodNetlist(netlist)
  OBVIOUS
<1> DEFINE P == Parts[board]
           Part == [ref : STRING, fp : {""} \cup DOMAIN Mods, sheet : STRING]
<1>1. P \in Seq(Part)
  BY PartsOK
<1> HIDE DEF P, Part
<1>2. DOMAIN P = 1 .. Len(P) /\ Len(P) \in Nat /\ \A i \in DOMAIN P : P[i] \in Part
  BY <1>1
<1>3. IsFiniteSet(DOMAIN P) /\ DOMAIN P \subseteq Int
  <2>1. 1 \in Int /\ Len(P) \in Int
    BY <1>2
  <2>2. IsFiniteSet(1 .. Len(P))
    BY <2>1, FS_Interval
  <2>3. IsFiniteSet(DOMAIN P)
    BY <1>2, <2>2
  <2>4. 1 .. Len(P) \subseteq Int
    OBVIOUS
  <2> QED
    BY <1>2, <2>3, <2>4
<1>4. ASSUME NEW nets PROVE GoodNetlist(Netlist(P, nets))
  <2> DEFINE nl == Netlist(P, nets)
  <2>1. DOMAIN nl = DOMAIN P /\ \A i \in DOMAIN P : nl[i].fp = P[i].fp
    BY DEF Netlist
  <2>2. \A i \in DOMAIN P : P[i].fp \in {""} \cup DOMAIN Mods
    BY <1>2 DEF Part
  <2> HIDE DEF nl
  <2>3. GoodNetlist(nl)
    BY <1>3, <2>1, <2>2 DEF GoodNetlist, Fits
  <2> QED
    BY <2>3 DEF nl
<1> QED
  BY <1>4 DEF netlist, P

LEMMA MainStep == ASSUME NEW nl, GoodNetlist(nl), Main(nl) PROVE MainInv'
<1>1. at' = <<>>
  BY DEF Main
<1>2. DOMAIN at' = {}
  BY <1>1
<1>3. xpos' = MARGIN /\ ypos' = MARGIN /\ rowh' = 0
  BY DEF Main
<1>4. /\ parts' = nl
      /\ todo' = {i \in DOMAIN nl : nl[i].fp # ""}
  BY DEF Main
<1>5. \A i \in todo' : Fits(parts'[i].fp)
  BY <1>4 DEF GoodNetlist
<1>6. TypeOK'
  <2>1. xpos' \in Int /\ ypos' \in Int /\ rowh' \in Nat /\ MARGIN <= xpos' /\ MARGIN <= ypos'
    BY <1>3 DEF MARGIN
  <2>2. /\ todo' \subseteq DOMAIN parts' /\ IsFiniteSet(DOMAIN parts') /\ DOMAIN parts' \subseteq Int
    BY <1>4 DEF GoodNetlist
  <2>3. \A i \in DOMAIN at' : Fits(parts'[i].fp) /\ at'[i] \in Int \X Int
    BY <1>2
  <2> QED
    BY <1>2, <1>5, <2>1, <2>2, <2>3 DEF TypeOK
<1>7. Shelves' /\ CellsApart'
  BY <1>2 DEF Shelves, CellsApart
<1> QED
  BY <1>6, <1>7 DEF MainInv

LEMMA MainKept == MainInv /\ UNCHANGED mainVars => MainInv'
  BY DEF MainInv, TypeOK, Shelves, OnShelf, CellsApart, mainVars

-----------------------------------------------------------------------------
(* pack(): the shelves of a block.                                         *)

\* Parts with their sizes, each once.
PackSet(S) ==
  /\ IsFiniteSet(S)
  /\ \A e \in S : e[1] \in Int /\ e[2][1] \in Nat /\ e[2][2] \in Nat
  /\ \A e, f \in S : e[1] = f[1] => e = f

LEMMA LongType ==
  ASSUME NEW S, PackSet(S), NEW e \in S
  PROVE  long(e) \in Nat
<1>1. e[2][1] \in Int /\ e[2][2] \in Int /\ e[2][1] >= 0 /\ e[2][2] >= 0
  BY DEF PackSet
<1> QED
  BY <1>1, MaxOfTwo DEF long

LEMMA SmallestIn ==
  ASSUME NEW S, PackSet(S)
  PROVE  \A s \in SUBSET S : s # {} => Smallest(s) \in s
<1> DEFINE G == {T \in SUBSET S : T # {} => \E e \in T : \A f \in T : NotBefore(e, f)}
<1>1. \A e \in S : long(e) \in Nat /\ e[1] \in Int
  BY LongType DEF PackSet
<1>2. ASSUME NEW T \in SUBSET S, T # {}, \A x \in T : T \ {x} \in G PROVE T \in G
  <2>1. PICK x \in T : TRUE
    BY <1>2
  <2>2. CASE T \ {x} = {}
    <3>1. \A f \in T : NotBefore(x, f)
      BY <1>1, <2>2 DEF NotBefore
    <3> QED
      BY <3>1
  <2>3. CASE T \ {x} # {}
    <3>1. PICK m \in T \ {x} : \A f \in T \ {x} : NotBefore(m, f)
      BY <1>2, <2>3
    <3>2. CASE NotBefore(m, x)
      BY <3>1, <3>2
    <3>3. CASE ~NotBefore(m, x)
      <4>1. \A f \in T : NotBefore(x, f)
        BY <1>1, <3>1, <3>3 DEF NotBefore
      <4> QED
        BY <4>1
    <3> QED
      BY <3>2, <3>3
  <2> QED
    BY <2>2, <2>3
<1>3. SUBSET S \subseteq G
  <2>1. {} \in G
    OBVIOUS
  <2> HIDE DEF G
  <2> QED
    BY <1>2, <2>1, Descent DEF PackSet
<1> QED
  BY <1>3 DEF Smallest

\* The cell of a part whose middle is at <<d[2], d[3]>>.
Slot(e, d) ==
  LET x == d[2] - e[2][1] \div 2  y == d[3] - e[2][2] \div 2
  IN  <<x, y, x + e[2][1], y + e[2][2]>>

\* A cell on the block's shelves, seen from the next free corner.
InBlock(c, p) ==
  /\ 0 <= c[1] /\ 0 <= c[2] /\ c[3] <= p.w /\ c[4] <= p.y + p.rowh
  /\ c[3] + SHELF_GAP <= p.x \/ c[4] + SHELF_GAP <= p.y

Numbers(p) == p.x \in Nat /\ p.y \in Nat /\ p.rowh \in Nat /\ p.w \in Nat

\* Every part of S has a place on the shelves, and different parts are apart.
Packs(p, S) ==
  /\ Numbers(p)
  /\ \A e \in S : \E d \in p.placed : d[1] = e[1]
  /\ \A d \in p.placed : /\ d[2] \in Int /\ d[3] \in Int
                         /\ \E e \in S : d[1] = e[1] /\ InBlock(Slot(e, d), p)
  /\ \A d1, d2 \in p.placed : \A e1, e2 \in S :
       d1[1] = e1[1] /\ d2[1] = e2[1] /\ e1[1] # e2[1] =>
         Clear(Slot(e1, d1), Slot(e2, d2), SHELF_GAP)

LEMMA PutShape ==
  ASSUME NEW S, PackSet(S), NEW e \in S, NEW p, Numbers(p)
  PROVE  \E cx, cy \in Nat : LET q == Put(e, p)  d == <<e[1], cx + e[2][1] \div 2, cy + e[2][2] \div 2>> IN
           /\ q.placed = p.placed \cup {d} /\ Numbers(q)
           /\ d[2] \in Int /\ d[3] \in Int
           /\ Slot(e, d) = <<cx, cy, cx + e[2][1], cy + e[2][2]>>
           /\ q.x = cx + e[2][1] + SHELF_GAP /\ q.y = cy
           /\ cx + e[2][1] <= q.w /\ p.w <= q.w /\ e[2][2] <= q.rowh
           /\ p.y + p.rowh <= q.y + q.rowh
           /\ \/ cx = p.x /\ cy = p.y
              \/ cy = p.y + p.rowh + SHELF_GAP
<1> DEFINE w == e[2][1]  h == e[2][2]
           wrap == p.x + w > WMAX /\ p.x > 0
           c == Shelf(p, e[2])
           q == Put(e, p)
           d == <<e[1], c.x + w \div 2, c.y + h \div 2>>
<1>1. w \in Nat /\ h \in Nat
  BY DEF PackSet
<1>2. Max({p.rowh, h}) = (IF p.rowh < h THEN h ELSE p.rowh)
  BY <1>1, MaxOfTwo DEF Numbers
<1>3. /\ c.x = (IF wrap THEN 0 ELSE p.x)
      /\ c.y = (IF wrap THEN p.y + p.rowh + SHELF_GAP ELSE p.y)
      /\ c.rowh = (IF wrap THEN h ELSE Max({p.rowh, h}))
  BY DEF Shelf
<1>4. c.x \in Nat /\ c.y \in Nat /\ c.rowh \in Nat /\ h <= c.rowh
  BY <1>1, <1>2, <1>3 DEF Numbers, SHELF_GAP
<1>5. /\ q.placed = p.placed \cup {d} /\ q.x = c.x + w + SHELF_GAP /\ q.y = c.y
      /\ q.rowh = c.rowh /\ q.w = Max({p.w, c.x + w})
  BY DEF Put
<1>6. d[1] = e[1] /\ d[2] = c.x + w \div 2 /\ d[3] = c.y + h \div 2
  OBVIOUS
<1> HIDE DEF w, h, c, q, d
<1>7. q.w = (IF p.w < c.x + w THEN c.x + w ELSE p.w)
  BY <1>1, <1>4, <1>5, MaxOfTwo DEF Numbers
<1>8. w \div 2 \in Int /\ h \div 2 \in Int
  BY <1>1
<1>9. d[2] \in Int /\ d[3] \in Int /\ Slot(e, d) = <<c.x, c.y, c.x + w, c.y + h>>
  <2>1. d[2] - w \div 2 = c.x /\ d[3] - h \div 2 = c.y
    BY <1>4, <1>6, <1>8
  <2>2. Slot(e, d) = <<d[2] - w \div 2, d[3] - h \div 2, d[2] - w \div 2 + w, d[3] - h \div 2 + h>>
    BY DEF Slot, w, h
  <2> QED
    BY <1>4, <1>6, <1>8, <2>1, <2>2
<1>10. Numbers(q)
  BY <1>1, <1>4, <1>5, <1>7 DEF Numbers, SHELF_GAP
<1>11. /\ c.x + w <= q.w /\ p.w <= q.w
  BY <1>1, <1>4, <1>7 DEF Numbers
<1>12. p.y + p.rowh <= q.y + q.rowh
  BY <1>1, <1>2, <1>3, <1>5 DEF Numbers, SHELF_GAP
<1>13. \/ c.x = p.x /\ c.y = p.y
       \/ c.y = p.y + p.rowh + SHELF_GAP
  BY <1>3
<1>14. h <= q.rowh
  BY <1>4, <1>5
<1> QED
  BY <1>4, <1>5, <1>9, <1>10, <1>11, <1>12, <1>13, <1>14 DEF w, h, d, q

LEMMA PutPacks ==
  ASSUME NEW S, PackSet(S), NEW T \in SUBSET S, NEW e \in T, NEW p, Packs(p, T \ {e})
  PROVE  Packs(Put(e, p), T)
<1> DEFINE q == Put(e, p)  w == e[2][1]  h == e[2][2]
<1>1. Numbers(p)
  BY DEF Packs
<1>2. PICK cx \in Nat, cy \in Nat :
        LET d == <<e[1], cx + e[2][1] \div 2, cy + e[2][2] \div 2>> IN
           /\ q.placed = p.placed \cup {d} /\ Numbers(q)
           /\ d[2] \in Int /\ d[3] \in Int
           /\ Slot(e, d) = <<cx, cy, cx + e[2][1], cy + e[2][2]>>
           /\ q.x = cx + e[2][1] + SHELF_GAP /\ q.y = cy
           /\ cx + e[2][1] <= q.w /\ p.w <= q.w /\ e[2][2] <= q.rowh
           /\ p.y + p.rowh <= q.y + q.rowh
           /\ \/ cx = p.x /\ cy = p.y
              \/ cy = p.y + p.rowh + SHELF_GAP
  BY <1>1, PutShape
<1> DEFINE new == <<e[1], cx + e[2][1] \div 2, cy + e[2][2] \div 2>>
<1>3. w \in Nat /\ h \in Nat /\ \A f \in T : f[1] \in Int /\ f[2][1] \in Nat /\ f[2][2] \in Nat
  BY DEF PackSet
<1>4. \A f \in T : f[1] = e[1] => f = e
  BY DEF PackSet
<1>5. new[1] = e[1] /\ Slot(e, new) = <<cx, cy, cx + w, cy + h>>
  BY <1>2
<1>6. /\ q.placed = p.placed \cup {new} /\ Numbers(q) /\ new[2] \in Int /\ new[3] \in Int
      /\ q.x = cx + w + SHELF_GAP /\ q.y = cy
      /\ cx + w <= q.w /\ p.w <= q.w /\ h <= q.rowh
      /\ p.y + p.rowh <= q.y + q.rowh
      /\ \/ cx = p.x /\ cy = p.y
         \/ cy = p.y + p.rowh + SHELF_GAP
  BY <1>2
<1> HIDE DEF q, w, h, new
<1>7. InBlock(Slot(e, new), q)
  <2> DEFINE c == Slot(e, new)
  <2>1. c[1] = cx /\ c[2] = cy /\ c[3] = cx + w /\ c[4] = cy + h
    BY <1>5
  <2> HIDE DEF c
  <2>2. InBlock(c, q)
    BY <1>3, <1>6, <2>1 DEF InBlock, Numbers, SHELF_GAP
  <2> QED
    BY <2>2 DEF c
\* A part placed before keeps its place, left of the new one's or above it.
<1>8. ASSUME NEW d \in p.placed, NEW f \in T \ {e}, d[1] = f[1]
      PROVE  /\ InBlock(Slot(f, d), q)
             /\ Clear(Slot(f, d), Slot(e, new), SHELF_GAP) /\ Clear(Slot(e, new), Slot(f, d), SHELF_GAP)
  <2> DEFINE c == Slot(f, d)  n == Slot(e, new)
  <2>1. d[2] \in Int /\ d[3] \in Int /\ InBlock(c, p)
    <3>1. PICK g \in T \ {e} : d[1] = g[1] /\ InBlock(Slot(g, d), p)
      BY DEF Packs
    <3>2. g = f
      BY <1>8, <3>1 DEF PackSet
    <3> QED
      BY <3>1, <3>2 DEF Packs
  <2>2. f[2][1] \in Nat /\ f[2][2] \in Nat /\ f[2][1] \div 2 \in Int /\ f[2][2] \div 2 \in Int
    BY <1>3
  <2>3. c[1] \in Int /\ c[2] \in Int /\ c[3] \in Int /\ c[4] \in Int
    BY <2>1, <2>2 DEF Slot
  <2>4. n[1] = cx /\ n[2] = cy /\ n[3] = cx + w /\ n[4] = cy + h
    BY <1>5
  <2> HIDE DEF c, n
  <2>5. c[3] + SHELF_GAP <= cx \/ c[4] + SHELF_GAP <= cy
    BY <1>1, <1>6, <2>1, <2>3 DEF InBlock, Numbers, SHELF_GAP
  <2>6. InBlock(c, q)
    BY <1>1, <1>3, <1>6, <2>1, <2>3, <2>5 DEF InBlock, Numbers, SHELF_GAP
  <2>7. Clear(c, n, SHELF_GAP) /\ Clear(n, c, SHELF_GAP)
    BY <2>4, <2>5 DEF Clear
  <2> QED
    BY <2>6, <2>7 DEF c, n
<1>9. \A f \in T : \E d \in q.placed : d[1] = f[1]
  BY <1>5, <1>6 DEF Packs
<1>10. \A d \in q.placed : /\ d[2] \in Int /\ d[3] \in Int
                           /\ \E f \in T : d[1] = f[1] /\ InBlock(Slot(f, d), q)
  BY <1>5, <1>6, <1>7, <1>8 DEF Packs
<1>11. ASSUME NEW d1 \in q.placed, NEW d2 \in q.placed, NEW e1 \in T, NEW e2 \in T,
              d1[1] = e1[1], d2[1] = e2[1], e1[1] # e2[1]
       PROVE  Clear(Slot(e1, d1), Slot(e2, d2), SHELF_GAP)
  <2>1. \A d \in p.placed : \E f \in T \ {e} : d[1] = f[1]
    BY DEF Packs
  <2>2. d1 \in p.placed => e1 \in T \ {e}
    BY <1>4, <1>11, <2>1 DEF PackSet
  <2>3. d2 \in p.placed => e2 \in T \ {e}
    BY <1>4, <1>11, <2>1 DEF PackSet
  <2>4. (d1 = new => e1 = e) /\ (d2 = new => e2 = e)
    BY <1>4, <1>5, <1>11
  <2>5. CASE d1 \in p.placed /\ d2 \in p.placed
    BY <1>11, <2>2, <2>3, <2>5 DEF Packs
  <2>6. CASE d1 = new \/ d2 = new
    BY <1>6, <1>8, <1>11, <2>2, <2>3, <2>4, <2>6
  <2> QED
    BY <1>6, <2>5, <2>6
<1> QED
  BY <1>6, <1>9, <1>10, <1>11 DEF Packs, q

\* By induction over the parts, smallest first.
LEMMA PackedPacks ==
  ASSUME NEW S, PackSet(S)
  PROVE  Packs(packed(S), S)
<1> DEFINE F == Fold(S)  G == {T \in SUBSET S : Packs(F[T], T)}
<1>1. \A s \in SUBSET S : s # {} => Smallest(s) \in s
  BY SmallestIn
<1>2. \A s \in SUBSET S : F[s] = Round(F, s)
  <2>1. F = [s \in SUBSET S |-> Round(F, s)]
    BY <1>1, FoldDefined DEF PackSet
  <2> HIDE DEF F
  <2> QED
    BY <2>1
<1> HIDE DEF F
<1>3. {} \in G
  <2>1. F[{}] = NoShelf
    BY <1>2 DEF Round
  <2>2. NoShelf.placed = {} /\ Numbers(NoShelf)
    BY DEF NoShelf, Numbers
  <2> QED
    BY <2>1, <2>2 DEF Packs
<1>4. ASSUME NEW T \in SUBSET S, T # {}, \A x \in T : T \ {x} \in G PROVE T \in G
  <2>1. Smallest(T) \in T /\ F[T] = Put(Smallest(T), F[T \ {Smallest(T)}])
    BY <1>1, <1>2, <1>4 DEF Round
  <2>2. Packs(F[T \ {Smallest(T)}], T \ {Smallest(T)})
    BY <1>4, <2>1
  <2> QED
    BY <2>1, <2>2, PutPacks
<1>5. S \in G
  <2> HIDE DEF G
  <2> QED
    BY <1>3, <1>4, Descent DEF PackSet
<1> QED
  BY <1>5, FoldIs DEF F

-----------------------------------------------------------------------------
(* place_pass: the blocks side by side.                                    *)

FileOK(b) ==
  /\ b = [parts |-> b.parts, at |-> b.at, pads |-> b.pads, edge |-> b.edge,
          planes |-> b.planes, pour |-> b.pour, holes |-> b.holes]
  /\ IsFiniteSet(DOMAIN b.at) /\ DOMAIN b.at \subseteq Int
  /\ \A i \in DOMAIN b.at : Fits(b.parts[i].fp) /\ b.at[i] \in Int \X Int
  /\ b.edge \in Int \X Int \X Int \X Int
  /\ IsFiniteSet(b.holes) /\ b.holes \subseteq Int \X Int

LEMMA SizeType ==
  ASSUME NEW fp, Fits(fp)
  PROVE  fp_size(fp)[1] \in Nat /\ fp_size(fp)[2] \in Nat
<1> DEFINE m == Mods[fp]
           b == IF m.crt # <<>> THEN m.crt ELSE IF m.ink # <<>> THEN m.ink ELSE <<0, 0, 0, 0>>
<1>1. IsBox(b)
  BY ModsOK DEF Fits, IsBox
<1> HIDE DEF b
<1>2. b[1] \in Int /\ b[2] \in Int /\ b[3] \in Int /\ b[4] \in Int /\ b[1] <= b[3] /\ b[2] <= b[4]
  BY <1>1 DEF IsBox
<1>3. fp_size(fp) = <<b[3] - b[1], b[4] - b[2]>>
  BY DEF fp_size, b
<1> QED
  BY <1>2, <1>3

Block(k) == packed(groups(order[k + 1]))
Blocks == {<<k, Block(k)>> : k \in 0 .. 5}
Size(i) == fp_size(pcb.parts[i].fp)

LEMMA GroupPacks ==
  ASSUME FileOK(pcb), NEW n
  PROVE  /\ PackSet(groups(n))
         /\ \A e \in groups(n) : e[1] \in DOMAIN pcb.at /\ e = <<e[1], Size(e[1])>>
<1> DEFINE I == {i \in DOMAIN pcb.at : pcb.parts[i].ref \in {e.ref : e \in {e \in Range(nxml) : e.sheet = n}}}
           f == [i \in I |-> <<i, Size(i)>>]
<1>1. IsFiniteSet(I) /\ I \subseteq DOMAIN pcb.at
  BY FS_Subset DEF FileOK
<1>2. groups(n) = {<<i, Size(i)>> : i \in I}
  BY DEF groups, Size
<1> HIDE DEF I
<1>3. groups(n) = {f[i] : i \in DOMAIN f}
  BY <1>2
<1>4. IsFiniteSet(groups(n))
  <2>1. IsFiniteSet(DOMAIN f)
    BY <1>1
  <2> HIDE DEF f
  <2> QED
    BY <1>3, <2>1, FiniteRange
<1>5. \A i \in I : i \in Int /\ i \in DOMAIN pcb.at /\ Size(i)[1] \in Nat /\ Size(i)[2] \in Nat
  BY <1>1, SizeType DEF FileOK, Size
<1> QED
  BY <1>2, <1>4, <1>5 DEF PackSet

LEMMA BlockPacks ==
  ASSUME FileOK(pcb), NEW k \in 0 .. 5
  PROVE  Packs(Block(k), groups(order[k + 1]))
  BY GroupPacks, PackedPacks DEF Block

\* A column is as wide as its blocks, a row as high.
LEMMA Columns ==
  ASSUME FileOK(pcb)
  PROVE  /\ \A c \in 0 .. 2 : ColW(Blocks, c) \in Nat
         /\ \A k \in 0 .. 5 : Block(k).w <= ColW(Blocks, k % 3)
<1>1. ASSUME NEW c \in 0 .. 2
      PROVE  /\ ColW(Blocks, c) \in Nat
             /\ \A k \in 0 .. 5 : k % 3 = c => Block(k).w <= ColW(Blocks, c)
  <2> DEFINE K == {k \in 0 .. 5 : k % 3 = c}  f == [k \in K |-> Block(k).w]
             S == {f[k] : k \in DOMAIN f}
  <2>1. IsFiniteSet(K) /\ c \in K
    <3>1. IsFiniteSet(0 .. 5)
      <4>1. 0 \in Int /\ 5 \in Int
        OBVIOUS
      <4> QED
        BY <4>1, FS_Interval
    <3>2. K \in SUBSET (0 .. 5)
      OBVIOUS
    <3>3. c \in K
      OBVIOUS
    <3> HIDE DEF K
    <3> QED
      BY <3>1, <3>2, <3>3, FS_Subset
  <2>2. \A k \in K : Block(k).w \in Nat
    BY BlockPacks DEF Packs, Numbers
  <2>3. {b[2].w : b \in {b \in Blocks : b[1] % 3 = c}} = S
    <3>1. \A b \in Blocks : \E k \in 0 .. 5 : b = <<k, Block(k)>>
      BY DEF Blocks
    <3>2. \A k \in 0 .. 5 : <<k, Block(k)>> \in Blocks
      BY DEF Blocks
    <3>3. ASSUME NEW x \in {b[2].w : b \in {b \in Blocks : b[1] % 3 = c}} PROVE x \in S
      <4>1. PICK b \in Blocks : b[1] % 3 = c /\ x = b[2].w
        OBVIOUS
      <4>2. PICK k \in 0 .. 5 : b = <<k, Block(k)>>
        BY <3>1
      <4>3. k \in K /\ x = f[k]
        BY <4>1, <4>2
      <4> QED
        BY <4>3
    <3>4. ASSUME NEW k \in K PROVE f[k] \in {b[2].w : b \in {b \in Blocks : b[1] % 3 = c}}
      <4> DEFINE b == <<k, Block(k)>>
      <4>1. b \in Blocks /\ b[1] = k /\ b[2] = Block(k)
        BY <3>2
      <4>2. b[1] % 3 = c /\ f[k] = b[2].w
        BY <4>1
      <4> HIDE DEF b, f
      <4> QED
        BY <4>1, <4>2
    <3> QED
      BY <3>3, <3>4
  <2>4. IsFiniteSet(S) /\ S \subseteq Nat /\ f[c] \in S
    <3>1. IsFiniteSet(DOMAIN f)
      BY <2>1
    <3>2. IsFiniteSet(S)
      <4> HIDE DEF f
      <4> QED
        BY <3>1, FiniteRange
    <3> QED
      BY <2>1, <2>2, <3>2
  <2>5. Max(S) \in S /\ \A y \in S : y <= Max(S)
    <3> HIDE DEF S
    <3>1. S \subseteq Int /\ S # {}
      BY <2>4
    <3> QED
      BY <2>4, <3>1, Extremes
  <2>6. \A k \in K : f[k] \in S /\ f[k] = Block(k).w
    OBVIOUS
  <2>7. ColW(Blocks, c) = Max(S)
    BY <2>3 DEF ColW
  <2>8. ColW(Blocks, c) \in Nat /\ \A k \in K : Block(k).w <= ColW(Blocks, c)
    <3> HIDE DEF S, f
    <3> QED
      BY <2>4, <2>5, <2>6, <2>7
  <2> QED
    BY <2>8
<1>2. \A k \in 0 .. 5 : k % 3 \in 0 .. 2
  OBVIOUS
<1> QED
  BY <1>1, <1>2

LEMMA Rows ==
  ASSUME FileOK(pcb)
  PROVE  /\ \A r \in 0 .. 1 : RowH(Blocks, r) \in Nat
         /\ \A k \in 0 .. 5 : Block(k).y + Block(k).rowh <= RowH(Blocks, k \div 3)
<1> DEFINE H(k) == Block(k).y + Block(k).rowh
<1>1. ASSUME NEW r \in 0 .. 1
      PROVE  /\ RowH(Blocks, r) \in Nat
             /\ \A k \in 0 .. 5 : k \div 3 = r => H(k) <= RowH(Blocks, r)
  <2> DEFINE K == {k \in 0 .. 5 : k \div 3 = r}  f == [k \in K |-> H(k)]
             S == {f[k] : k \in DOMAIN f}
  <2>1. IsFiniteSet(K) /\ 3 * r \in K
    <3>1. IsFiniteSet(0 .. 5)
      <4>1. 0 \in Int /\ 5 \in Int
        OBVIOUS
      <4> QED
        BY <4>1, FS_Interval
    <3>2. K \in SUBSET (0 .. 5)
      OBVIOUS
    <3>3. 3 * r \in K
      OBVIOUS
    <3> HIDE DEF K
    <3> QED
      BY <3>1, <3>2, <3>3, FS_Subset
  <2>2. \A k \in K : H(k) \in Nat
    BY BlockPacks DEF Packs, Numbers
  <2>3. {b[2].y + b[2].rowh : b \in {b \in Blocks : b[1] \div 3 = r}} = S
    <3>1. \A b \in Blocks : \E k \in 0 .. 5 : b = <<k, Block(k)>>
      BY DEF Blocks
    <3>2. \A k \in 0 .. 5 : <<k, Block(k)>> \in Blocks
      BY DEF Blocks
    <3>3. ASSUME NEW x \in {b[2].y + b[2].rowh : b \in {b \in Blocks : b[1] \div 3 = r}} PROVE x \in S
      <4>1. PICK b \in Blocks : b[1] \div 3 = r /\ x = b[2].y + b[2].rowh
        OBVIOUS
      <4>2. PICK k \in 0 .. 5 : b = <<k, Block(k)>>
        BY <3>1
      <4>3. k \in K /\ x = f[k]
        BY <4>1, <4>2
      <4> QED
        BY <4>3
    <3>4. ASSUME NEW k \in K PROVE f[k] \in {b[2].y + b[2].rowh : b \in {b \in Blocks : b[1] \div 3 = r}}
      <4> DEFINE b == <<k, Block(k)>>
      <4>1. b \in Blocks /\ b[1] = k /\ b[2] = Block(k)
        BY <3>2
      <4>2. b[1] \div 3 = r /\ f[k] = b[2].y + b[2].rowh
        BY <4>1
      <4> HIDE DEF b, f
      <4> QED
        BY <4>1, <4>2
    <3> QED
      BY <3>3, <3>4
  <2> HIDE DEF H
  <2>4. IsFiniteSet(S) /\ S \subseteq Nat /\ f[3 * r] \in S
    <3>1. IsFiniteSet(DOMAIN f)
      BY <2>1
    <3>2. IsFiniteSet(S)
      <4> HIDE DEF f
      <4> QED
        BY <3>1, FiniteRange
    <3> QED
      BY <2>1, <2>2, <3>2
  <2>5. Max(S) \in S /\ \A y \in S : y <= Max(S)
    <3> HIDE DEF S
    <3>1. S \subseteq Int /\ S # {}
      BY <2>4
    <3> QED
      BY <2>4, <3>1, Extremes
  <2>6. \A k \in K : f[k] \in S /\ f[k] = H(k)
    OBVIOUS
  <2>7. RowH(Blocks, r) = Max(S)
    BY <2>3 DEF RowH
  <2>8. RowH(Blocks, r) \in Nat /\ \A k \in K : H(k) <= RowH(Blocks, r)
    <3> HIDE DEF S, f
    <3> QED
      BY <2>4, <2>5, <2>6, <2>7
  <2> QED
    BY <2>8
<1>2. \A k \in 0 .. 5 : k \div 3 \in 0 .. 1
  OBVIOUS
<1> QED
  BY <1>1, <1>2

X(k) == ColX(Blocks, k % 3)
Y(k) == RowY(Blocks, k \div 3)

\* Of two blocks one ends before the other begins, in one direction.
LEMMA BlocksApart ==
  ASSUME FileOK(pcb), NEW k \in 0 .. 5
  PROVE  /\ X(k) \in Int /\ Y(k) \in Int
         /\ \A l \in 0 .. 5 : k # l =>
              \/ X(k) + ColW(Blocks, k % 3) + PAD <= X(l)
              \/ X(l) + ColW(Blocks, l % 3) + PAD <= X(k)
              \/ Y(k) + RowH(Blocks, k \div 3) + PAD <= Y(l)
              \/ Y(l) + RowH(Blocks, l \div 3) + PAD <= Y(k)
<1> DEFINE w(c) == ColW(Blocks, c)  h(r) == RowH(Blocks, r)
           x(c) == ColX(Blocks, c)  y(r) == RowY(Blocks, r)
<1>1. w(0) \in Nat /\ w(1) \in Nat /\ w(2) \in Nat /\ h(0) \in Nat /\ h(1) \in Nat
  BY Columns, Rows
<1>2. /\ x(0) = LAYOUT_MARGIN /\ x(1) = LAYOUT_MARGIN + (w(0) + PAD)
      /\ x(2) = LAYOUT_MARGIN + (w(0) + PAD + (w(1) + PAD))
      /\ y(0) = LAYOUT_MARGIN /\ y(1) = LAYOUT_MARGIN + (h(0) + PAD)
  BY <1>1 DEF ColX, RowY, PAD, LAYOUT_MARGIN
<1> HIDE DEF w, h, x, y
<1>3. /\ x(0) \in Int /\ x(1) \in Int /\ x(2) \in Int /\ y(0) \in Int /\ y(1) \in Int
      /\ x(0) + w(0) + PAD <= x(1) /\ x(1) + w(1) + PAD <= x(2) /\ x(0) + w(0) + PAD <= x(2)
      /\ y(0) + h(0) + PAD <= y(1)
  BY <1>1, <1>2 DEF LAYOUT_MARGIN, PAD
<1>4. \A l \in 0 .. 5 : /\ l % 3 = 0 \/ l % 3 = 1 \/ l % 3 = 2
                        /\ l \div 3 = 0 \/ l \div 3 = 1
                        /\ l # k => l % 3 # k % 3 \/ l \div 3 # k \div 3
  OBVIOUS
<1>5. \A l \in 0 .. 5 : X(l) = x(l % 3) /\ Y(l) = y(l \div 3)
  BY DEF X, Y, x, y
<1>6. x(k % 3) \in Int /\ y(k \div 3) \in Int
  BY <1>3, <1>4
<1>7. ASSUME NEW l \in 0 .. 5, l # k
      PROVE  \/ x(k % 3) + w(k % 3) + PAD <= x(l % 3)
             \/ x(l % 3) + w(l % 3) + PAD <= x(k % 3)
             \/ y(k \div 3) + h(k \div 3) + PAD <= y(l \div 3)
             \/ y(l \div 3) + h(l \div 3) + PAD <= y(k \div 3)
  <2>1. CASE l % 3 # k % 3
    BY <1>3, <1>4, <2>1
  <2>2. CASE l \div 3 # k \div 3
    BY <1>3, <1>4, <2>2
  <2> QED
    BY <1>4, <1>7, <2>1, <2>2
<1> QED
  BY <1>5, <1>6, <1>7 DEF w, h

\* The cell of a part that place_pass moves.
Target(m) == Slot(<<m[1], Size(m[1])>>, m)

LEMMA MoveShape ==
  ASSUME NEW m \in Arranged(Blocks)
  PROVE  \E k \in 0 .. 5 : \E d \in Block(k).placed : m = <<d[1], X(k) + d[2], Y(k) + d[3]>>
<1>1. PICK b \in Blocks : \E d \in b[2].placed :
        m = <<d[1], ColX(Blocks, b[1] % 3) + d[2], RowY(Blocks, b[1] \div 3) + d[3]>>
  BY DEF Arranged
<1>2. PICK k \in 0 .. 5 : b = <<k, Block(k)>>
  BY DEF Blocks
<1>3. b[1] = k /\ b[2] = Block(k)
  BY <1>2
<1> QED
  BY <1>1, <1>3 DEF X, Y

\* It lies in its block, where pack() put it.
InPlace(k, d, m) ==
  LET c == Target(m)  s == Slot(<<d[1], Size(d[1])>>, d) IN
  /\ m[1] \in DOMAIN pcb.at /\ m[2] \in Int /\ m[3] \in Int
  /\ <<d[1], Size(d[1])>> \in groups(order[k + 1])
  /\ s[1] \in Int /\ s[2] \in Int /\ s[3] \in Int /\ s[4] \in Int
  /\ c[1] \in Int /\ c[2] \in Int /\ c[3] \in Int /\ c[4] \in Int
  /\ c[1] = X(k) + s[1] /\ c[2] = Y(k) + s[2] /\ c[3] = X(k) + s[3] /\ c[4] = Y(k) + s[4]
  /\ X(k) <= c[1] /\ c[3] <= X(k) + ColW(Blocks, k % 3)
  /\ Y(k) <= c[2] /\ c[4] <= Y(k) + RowH(Blocks, k \div 3)

LEMMA MoveInBlock ==
  ASSUME FileOK(pcb), NEW k \in 0 .. 5, NEW d \in Block(k).placed,
         NEW m, m = <<d[1], X(k) + d[2], Y(k) + d[3]>>
  PROVE  InPlace(k, d, m)
<1> DEFINE S == groups(order[k + 1])  p == Block(k)  W == Size(d[1])[1]  H == Size(d[1])[2]
           c == Target(m)  s == Slot(<<d[1], Size(d[1])>>, d)
<1>1. Packs(p, S)
  BY BlockPacks
<1>2. PICK e \in S : d[1] = e[1] /\ InBlock(Slot(e, d), p)
  BY <1>1 DEF Packs
<1>3. e = <<d[1], Size(d[1])>> /\ d[1] \in DOMAIN pcb.at
  BY <1>2, GroupPacks
<1>4. e[2] = Size(d[1])
  BY <1>3
<1>5. W \in Nat /\ H \in Nat /\ d[2] \in Int /\ d[3] \in Int
  BY <1>1, <1>4, GroupPacks DEF Packs, PackSet
<1>6. m[1] = d[1] /\ m[2] = X(k) + d[2] /\ m[3] = Y(k) + d[3]
  OBVIOUS
<1>7. /\ X(k) \in Int /\ Y(k) \in Int
      /\ ColW(Blocks, k % 3) \in Int /\ RowH(Blocks, k \div 3) \in Int
      /\ p.w <= ColW(Blocks, k % 3) /\ p.y + p.rowh <= RowH(Blocks, k \div 3)
  <2>1. k % 3 \in 0 .. 2 /\ k \div 3 \in 0 .. 1
    OBVIOUS
  <2>2. ColW(Blocks, k % 3) \in Nat /\ p.w <= ColW(Blocks, k % 3)
    BY <2>1, Columns
  <2>3. RowH(Blocks, k \div 3) \in Nat /\ p.y + p.rowh <= RowH(Blocks, k \div 3)
    BY <2>1, Rows
  <2> QED
    BY <2>2, <2>3, BlocksApart
<1> HIDE DEF W, H
<1>8. W \div 2 \in Int /\ H \div 2 \in Int
  BY <1>5
<1>9. s = <<d[2] - W \div 2, d[3] - H \div 2, d[2] - W \div 2 + W, d[3] - H \div 2 + H>>
  BY DEF Slot, W, H
<1>10. c = <<m[2] - W \div 2, m[3] - H \div 2, m[2] - W \div 2 + W, m[3] - H \div 2 + H>>
  BY <1>6 DEF Target, Slot, W, H
<1>11. InBlock(s, p)
  BY <1>2, <1>3
<1> HIDE DEF s, c
<1>12. /\ s[1] \in Int /\ s[2] \in Int /\ s[3] \in Int /\ s[4] \in Int
       /\ c[1] = X(k) + s[1] /\ c[2] = Y(k) + s[2] /\ c[3] = X(k) + s[3] /\ c[4] = Y(k) + s[4]
  BY <1>5, <1>6, <1>7, <1>8, <1>9, <1>10
<1>13. /\ X(k) <= c[1] /\ c[3] <= X(k) + ColW(Blocks, k % 3)
       /\ Y(k) <= c[2] /\ c[4] <= Y(k) + RowH(Blocks, k \div 3)
  <2>1. Numbers(p)
    BY <1>1 DEF Packs
  <2> HIDE DEF p
  <2> QED
    BY <1>7, <1>11, <1>12, <2>1 DEF InBlock, Numbers
<1>14. m[2] \in Int /\ m[3] \in Int
  BY <1>5, <1>6, <1>7
<1>15. c[1] \in Int /\ c[2] \in Int /\ c[3] \in Int /\ c[4] \in Int
  BY <1>7, <1>12
<1> QED
  BY <1>2, <1>3, <1>6, <1>12, <1>13, <1>14, <1>15 DEF InPlace, s, c

LEMMA MovesApart ==
  ASSUME FileOK(pcb), NEW m \in Arranged(Blocks), NEW o \in Arranged(Blocks), m[1] # o[1]
  PROVE  Clear(Target(m), Target(o), SHELF_GAP)
<1>a. PICK k \in 0 .. 5 : \E d \in Block(k).placed : m = <<d[1], X(k) + d[2], Y(k) + d[3]>>
  BY MoveShape
<1>1. PICK d \in Block(k).placed : m = <<d[1], X(k) + d[2], Y(k) + d[3]>>
  BY <1>a
<1>b. PICK l \in 0 .. 5 : \E f \in Block(l).placed : o = <<f[1], X(l) + f[2], Y(l) + f[3]>>
  BY MoveShape
<1>2. PICK f \in Block(l).placed : o = <<f[1], X(l) + f[2], Y(l) + f[3]>>
  BY <1>b
<1> DEFINE c == Target(m)  s == Slot(<<d[1], Size(d[1])>>, d)
           b == Target(o)  t == Slot(<<f[1], Size(f[1])>>, f)
<1>3. /\ <<d[1], Size(d[1])>> \in groups(order[k + 1])
      /\ s[1] \in Int /\ s[2] \in Int /\ s[3] \in Int /\ s[4] \in Int
      /\ c[1] \in Int /\ c[2] \in Int /\ c[3] \in Int /\ c[4] \in Int
      /\ c[1] = X(k) + s[1] /\ c[2] = Y(k) + s[2] /\ c[3] = X(k) + s[3] /\ c[4] = Y(k) + s[4]
      /\ X(k) <= c[1] /\ c[3] <= X(k) + ColW(Blocks, k % 3)
      /\ Y(k) <= c[2] /\ c[4] <= Y(k) + RowH(Blocks, k \div 3)
  <2>1. InPlace(k, d, m)
    BY <1>1, MoveInBlock
  <2> QED
    BY <2>1 DEF InPlace
<1>4. /\ <<f[1], Size(f[1])>> \in groups(order[l + 1])
      /\ t[1] \in Int /\ t[2] \in Int /\ t[3] \in Int /\ t[4] \in Int
      /\ b[1] \in Int /\ b[2] \in Int /\ b[3] \in Int /\ b[4] \in Int
      /\ b[1] = X(l) + t[1] /\ b[2] = Y(l) + t[2] /\ b[3] = X(l) + t[3] /\ b[4] = Y(l) + t[4]
      /\ X(l) <= b[1] /\ b[3] <= X(l) + ColW(Blocks, l % 3)
      /\ Y(l) <= b[2] /\ b[4] <= Y(l) + RowH(Blocks, l \div 3)
  <2>1. InPlace(l, f, o)
    BY <1>2, MoveInBlock
  <2> QED
    BY <2>1 DEF InPlace
<1>5. /\ X(k) \in Int /\ Y(k) \in Int /\ X(l) \in Int /\ Y(l) \in Int
      /\ ColW(Blocks, k % 3) \in Int /\ RowH(Blocks, k \div 3) \in Int
      /\ ColW(Blocks, l % 3) \in Int /\ RowH(Blocks, l \div 3) \in Int
  <2>1. \A i \in 0 .. 5 : i % 3 \in 0 .. 2 /\ i \div 3 \in 0 .. 1
    OBVIOUS
  <2>2. \A i \in 0 .. 5 : ColW(Blocks, i % 3) \in Int /\ RowH(Blocks, i \div 3) \in Int
    BY <2>1, Columns, Rows
  <2> QED
    BY <2>2, BlocksApart
<1>6. d[1] # f[1]
  BY <1>1, <1>2
<1>7. CASE k = l
  <2>1. Packs(Block(k), groups(order[k + 1]))
    BY BlockPacks
  <2>2. Clear(s, t, SHELF_GAP)
    <3> DEFINE e1 == <<d[1], Size(d[1])>>  e2 == <<f[1], Size(f[1])>>
    <3>1. /\ e1 \in groups(order[k + 1]) /\ e2 \in groups(order[k + 1])
          /\ e1[1] = d[1] /\ e2[1] = f[1] /\ f \in Block(k).placed
      BY <1>3, <1>4, <1>7
    <3> HIDE DEF e1, e2
    <3>2. Clear(Slot(e1, d), Slot(e2, f), SHELF_GAP)
      BY <1>6, <2>1, <3>1 DEF Packs
    <3> QED
      BY <3>2 DEF e1, e2
  <2> HIDE DEF s, t, c, b
  <2>3. Clear(c, b, SHELF_GAP)
    BY <1>3, <1>4, <1>5, <1>7, <2>2 DEF Clear, SHELF_GAP
  <2> QED
    BY <2>3 DEF c, b
<1>8. CASE k # l
  <2>1. \/ X(k) + ColW(Blocks, k % 3) + PAD <= X(l)
        \/ X(l) + ColW(Blocks, l % 3) + PAD <= X(k)
        \/ Y(k) + RowH(Blocks, k \div 3) + PAD <= Y(l)
        \/ Y(l) + RowH(Blocks, l \div 3) + PAD <= Y(k)
    BY <1>8, BlocksApart
  <2> HIDE DEF s, t, c, b
  <2>2. Clear(c, b, SHELF_GAP)
    BY <1>3, <1>4, <1>5, <2>1 DEF Clear, SHELF_GAP, PAD
  <2> QED
    BY <2>2 DEF c, b
<1> QED
  BY <1>7, <1>8

\* Where place_pass leaves a part: at a target of its own, or where it was.
LEMMA PlacedShape ==
  ASSUME FileOK(pcb)
  PROVE  /\ DOMAIN Placed = DOMAIN pcb.at
         /\ \A i \in DOMAIN pcb.at :
              \/ /\ Placed[i] = pcb.at[i] /\ \A m \in Arranged(Blocks) : m[1] # i
              \/ \E m \in Arranged(Blocks) : m[1] = i /\ Placed[i] = <<m[2], m[3]>>
         /\ \A i \in DOMAIN pcb.at : Placed[i] \in Int \X Int
<1>1. Placed = Repositioned(Arranged(Blocks))
  BY DEF Placed, Blocks, Block
<1> DEFINE M == Arranged(Blocks)
<1> HIDE DEF M
<1>2. DOMAIN Repositioned(M) = DOMAIN pcb.at
  BY DEF Repositioned
<1>3. ASSUME NEW i \in DOMAIN pcb.at
      PROVE  \/ Repositioned(M)[i] = pcb.at[i] /\ \A m \in M : m[1] # i
             \/ \E m \in M : m[1] = i /\ Repositioned(M)[i] = <<m[2], m[3]>>
  <2> DEFINE to == {m \in M : m[1] = i}  d == CHOOSE d \in to : TRUE
  <2>1. Repositioned(M)[i] = IF to = {} THEN pcb.at[i] ELSE <<d[2], d[3]>>
    BY DEF Repositioned
  <2>2. to # {} => d \in to
    OBVIOUS
  <2> HIDE DEF d
  <2> QED
    BY <2>1, <2>2
<1>4. \A m \in M : m[2] \in Int /\ m[3] \in Int
  BY MoveShape, MoveInBlock DEF M, InPlace
<1>5. \A i \in DOMAIN pcb.at : Repositioned(M)[i] \in Int \X Int
  BY <1>3, <1>4 DEF FileOK
<1> QED
  BY <1>1, <1>2, <1>3, <1>5 DEF M

LEMMA SixSheets == DOMAIN order = 1 .. 6
  BY DEF order

\* A part of a block whose courtyard is centred: its courtyard is its cell.
LEMMA CourtyardIsTarget ==
  ASSUME FileOK(pcb), NEW i, Centred(pcb.parts[i].fp),
         i \in {e[1] : e \in UNION {groups(order[k]) : k \in DOMAIN order}}
  PROVE  \E m \in Arranged(Blocks) :
           m[1] = i /\ Moved(Mods[pcb.parts[i].fp].crt, Placed[i]) = Target(m)
<1> DEFINE fp == pcb.parts[i].fp  b == Mods[fp].crt
<1>1. PICK k \in DOMAIN order : \E e \in groups(order[k]) : e[1] = i
  OBVIOUS
<1>2. PICK e \in groups(order[k]) : e[1] = i
  BY <1>1
<1>3. k \in 1 .. 6
  BY SixSheets
<1> DEFINE j == k - 1
<1>4. j \in 0 .. 5 /\ j + 1 = k
  BY <1>3
<1> HIDE DEF j
<1>5. PICK d \in Block(j).placed : d[1] = i
  <2>1. Packs(Block(j), groups(order[k]))
    BY <1>4, BlockPacks
  <2> QED
    BY <1>2, <2>1 DEF Packs
<1> DEFINE n == <<d[1], X(j) + d[2], Y(j) + d[3]>>
<1>6. n \in Arranged(Blocks)
  <2> DEFINE q == <<j, Block(j)>>
  <2>1. q \in Blocks /\ q[1] = j /\ q[2] = Block(j)
    BY <1>4 DEF Blocks
  <2> HIDE DEF q
  <2>2. n = <<d[1], ColX(Blocks, q[1] % 3) + d[2], RowY(Blocks, q[1] \div 3) + d[3]>> /\ d \in q[2].placed
    BY <1>5, <2>1 DEF X, Y
  <2> QED
    BY <2>1, <2>2 DEF Arranged
<1>7. i \in DOMAIN pcb.at
  BY <1>2, GroupPacks
<1>8. PICK m \in Arranged(Blocks) : m[1] = i /\ Placed[i] = <<m[2], m[3]>>
  <2>1. n[1] = i
    BY <1>5
  <2> HIDE DEF n
  <2> QED
    BY <1>6, <1>7, <2>1, PlacedShape
<1>9. m[2] \in Int /\ m[3] \in Int
  <2>1. PICK l \in 0 .. 5 : \E f \in Block(l).placed : m = <<f[1], X(l) + f[2], Y(l) + f[3]>>
    BY MoveShape
  <2>2. PICK f \in Block(l).placed : m = <<f[1], X(l) + f[2], Y(l) + f[3]>>
    BY <2>1
  <2>3. InPlace(l, f, m)
    BY <2>2, MoveInBlock
  <2> QED
    BY <2>3 DEF InPlace
<1>10. b # <<>> /\ b[1] = -b[3] /\ b[2] = -b[4]
  BY DEF Centred
<1>11. b[3] \in Int /\ b[4] \in Int
  <2>1. Fits(fp)
    BY <1>7 DEF FileOK
  <2> QED
    BY <1>10, <2>1, ModsOK DEF Fits, IsBox
<1>12. Size(i) = <<b[3] - b[1], b[4] - b[2]>>
  BY <1>10 DEF Size, fp_size
<1> HIDE DEF b
<1>13. Size(i)[1] = 2 * b[3] /\ Size(i)[2] = 2 * b[4]
  BY <1>10, <1>11, <1>12
<1>14. (2 * b[3]) \div 2 = b[3] /\ (2 * b[4]) \div 2 = b[4]
  BY <1>11
<1>15. Target(m) = <<m[2] - b[3], m[3] - b[4], m[2] - b[3] + 2 * b[3], m[3] - b[4] + 2 * b[4]>>
  BY <1>8, <1>13, <1>14 DEF Target, Slot
<1>16. Moved(b, Placed[i]) = <<m[2] + b[1], m[3] + b[2], m[2] + b[3], m[3] + b[4]>>
  BY <1>8 DEF Moved
<1>17. Moved(b, Placed[i]) = Target(m)
  <2>1. \A v, w \in Int : v + (-w) = v - w /\ v + w = v - w + 2 * w
    OBVIOUS
  <2>2. /\ m[2] + b[1] = m[2] - b[3] /\ m[3] + b[2] = m[3] - b[4]
        /\ m[2] + b[3] = m[2] - b[3] + 2 * b[3] /\ m[3] + b[4] = m[3] - b[4] + 2 * b[4]
    BY <1>9, <1>10, <1>11, <2>1
  <2> QED
    BY <1>15, <1>16, <2>2
<1> QED
  BY <1>8, <1>17 DEF b

-----------------------------------------------------------------------------
(* The outline, the planes and the holes.                                  *)

Ints(b) == b[1] \in Int /\ b[2] \in Int /\ b[3] \in Int /\ b[4] \in Int

LEMMA Coordinates ==
  ASSUME NEW B, IsFiniteSet(B), B # {}, NEW n \in 1 .. 4, \A b \in B : Ints(b)
  PROVE  LET S == {b[n] : b \in B} IN
         /\ Min(S) \in Int /\ Max(S) \in Int
         /\ \A b \in B : Min(S) <= b[n] /\ b[n] <= Max(S)
<1> DEFINE f == [b \in B |-> b[n]]  S == {f[b] : b \in DOMAIN f}
<1>1. {b[n] : b \in B} = S
  OBVIOUS
<1>2. \A b \in B : b[n] \in Int /\ b[n] \in S
  BY DEF Ints
<1>3. IsFiniteSet(S)
  <2>1. IsFiniteSet(DOMAIN f)
    OBVIOUS
  <2> HIDE DEF f
  <2> QED
    BY <2>1, FiniteRange
<1>4. S \subseteq Int /\ S # {}
  BY <1>2
<1> HIDE DEF S
<1>5. /\ Max(S) \in S /\ \A y \in S : y <= Max(S)
      /\ Min(S) \in S /\ \A y \in S : Min(S) <= y
  BY <1>3, <1>4, Extremes
<1> QED
  BY <1>1, <1>2, <1>4, <1>5

LEMMA HullAround ==
  ASSUME NEW B, IsFiniteSet(B), B # {}, \A b \in B : Ints(b)
  PROVE  /\ Ints(Hull(B))
         /\ \A b \in B : Within(b, Hull(B))
<1>1. \A n \in 1 .. 4 : LET S == {b[n] : b \in B} IN
         /\ Min(S) \in Int /\ Max(S) \in Int
         /\ \A b \in B : Min(S) <= b[n] /\ b[n] <= Max(S)
  BY Coordinates
<1>2. /\ Hull(B)[1] = Min({b[1] : b \in B}) /\ Hull(B)[2] = Min({b[2] : b \in B})
      /\ Hull(B)[3] = Max({b[3] : b \in B}) /\ Hull(B)[4] = Max({b[4] : b \in B})
  BY DEF Hull
<1>3. Ints(Hull(B))
  BY <1>1, <1>2 DEF Ints
<1> QED
  BY <1>1, <1>2, <1>3 DEF Within

\* What a part covers, as place_pass sees it.
InkBox(parts_, at_, i) ==
  Moved(IF Mods[parts_[i].fp].ink = <<>> THEN <<0, 0, 0, 0>> ELSE Mods[parts_[i].fp].ink, at_[i])

LEMMA InkFacts ==
  ASSUME NEW parts_, NEW at_, NEW i, Fits(parts_[i].fp), at_[i] \in Int \X Int
  PROVE  LET b == InkBox(parts_, at_, i)  c == Cell(parts_[i].fp, at_[i]) IN
         /\ Ints(b) /\ b[1] <= b[3] /\ b[2] <= b[4]
         /\ b[1] - 400 <= c[1] /\ b[2] - 400 <= c[2] /\ c[3] <= b[3] + 400 /\ c[4] <= b[4] + 400
         /\ Ints(c)
<1> DEFINE fp == parts_[i].fp  a == at_[i]
           m == IF Mods[fp].ink = <<>> THEN <<0, 0, 0, 0>> ELSE Mods[fp].ink
           b == InkBox(parts_, at_, i)  c == Cell(fp, a)  f == fp_bbox(fp)
<1>1. IsBox(m)
  <2>1. CASE Mods[fp].ink = <<>>
    <3>1. m = <<0, 0, 0, 0>>
      BY <2>1
    <3> QED
      BY <3>1 DEF IsBox
  <2>2. CASE Mods[fp].ink # <<>>
    BY <2>2, ModsOK DEF Fits
  <2> QED
    BY <2>1, <2>2
<1>2. a[1] \in Int /\ a[2] \in Int
  OBVIOUS
<1>3. b = <<a[1] + m[1], a[2] + m[2], a[1] + m[3], a[2] + m[4]>>
  <2>1. b = Moved(m, a)
    BY DEF InkBox
  <2> HIDE DEF m, a, b
  <2> QED
    BY <2>1 DEF Moved
<1>4. c = <<a[1] + f[1], a[2] + f[2], a[1] + f[3], a[2] + f[4]>>
  BY Zenon DEF Cell
<1>5. \/ f = <<-400, -400, 400, 400>> /\ m = <<0, 0, 0, 0>>
      \/ f = <<m[1] - 100, m[2] - 100, m[3] + 100, m[4] + 100>>
  BY DEF fp_bbox
<1> HIDE DEF m, a, b, c, f
<1>6. m[1] \in Int /\ m[2] \in Int /\ m[3] \in Int /\ m[4] \in Int /\ m[1] <= m[3] /\ m[2] <= m[4]
  BY <1>1 DEF IsBox
<1>7. /\ f[1] \in Int /\ f[2] \in Int /\ f[3] \in Int /\ f[4] \in Int
      /\ m[1] - 400 <= f[1] /\ m[2] - 400 <= f[2] /\ f[3] <= m[3] + 400 /\ f[4] <= m[4] + 400
  <2>1. CASE f = <<-400, -400, 400, 400>> /\ m = <<0, 0, 0, 0>>
    BY <2>1
  <2>2. CASE f = <<m[1] - 100, m[2] - 100, m[3] + 100, m[4] + 100>>
    BY <1>6, <2>2
  <2> QED
    BY <1>5, <2>1, <2>2
<1>8. Ints(b) /\ b[1] <= b[3] /\ b[2] <= b[4]
  BY <1>2, <1>3, <1>6 DEF Ints
<1>9. /\ Ints(c)
      /\ b[1] - 400 <= c[1] /\ b[2] - 400 <= c[2] /\ c[3] <= b[3] + 400 /\ c[4] <= b[4] + 400
  BY <1>2, <1>3, <1>4, <1>6, <1>7 DEF Ints
<1> QED
  BY <1>8, <1>9 DEF b, c, fp, a

\* The outline stands the margin off every part, and there is a part; off the holes too.
OutlineOK(b) ==
  /\ \E i \in DOMAIN b.at : Within(Grown(InkBox(b.parts, b.at, i), LAYOUT_MARGIN), b.edge)
  /\ \A i \in DOMAIN b.at : Within(Grown(InkBox(b.parts, b.at, i), LAYOUT_MARGIN), b.edge)

LEMMA PlacePassShape ==
  ASSUME FileOK(pcb), PlacePass
  PROVE  /\ pcb' = [parts |-> pcb.parts, at |-> Placed, pads |-> pcb.pads,
                    edge |-> Grown(Hull(Ink(pcb.parts, Placed) \cup HoleBoxes(pcb.holes)), LAYOUT_MARGIN),
                    planes |-> pcb.planes, pour |-> pcb.pour, holes |-> pcb.holes]
         /\ DOMAIN pcb.at # {} /\ proc' = "zones" /\ full' = TRUE /\ UNCHANGED <<mainVars, nxml>>
<1> DEFINE e == Grown(Hull(Ink(pcb.parts, Placed) \cup HoleBoxes(pcb.holes)), LAYOUT_MARGIN)
<1>1. pcb' = [pcb EXCEPT !.at = Placed, !.edge = e]
  BY DEF PlacePass, Saved
<1> HIDE DEF e
<1>2. pcb' = [parts |-> pcb.parts, at |-> Placed, pads |-> pcb.pads, edge |-> e,
              planes |-> pcb.planes, pour |-> pcb.pour, holes |-> pcb.holes]
  BY <1>1 DEF FileOK
<1> QED
  BY <1>2 DEF PlacePass, Saved, e

LEMMA PlacePassFile ==
  ASSUME FileOK(pcb), PlacePass
  PROVE  FileOK(pcb') /\ OutlineOK(pcb')
<1> DEFINE to == Placed
           I == Ink(pcb.parts, to)  H == HoleBoxes(pcb.holes)  B == I \cup H
           e == Grown(Hull(B), LAYOUT_MARGIN)
<1>1. /\ pcb' = [parts |-> pcb.parts, at |-> to, pads |-> pcb.pads, edge |-> e,
                 planes |-> pcb.planes, pour |-> pcb.pour, holes |-> pcb.holes]
      /\ DOMAIN pcb.at # {}
  BY PlacePassShape
<1>2. DOMAIN to = DOMAIN pcb.at /\ \A i \in DOMAIN to : to[i] \in Int \X Int
  BY PlacedShape
<1> HIDE DEF to
<1>3. \A i \in DOMAIN to : LET b == InkBox(pcb.parts, to, i) IN
        Ints(b) /\ b[1] <= b[3] /\ b[2] <= b[4] /\ b \in I
  <2>1. \A i \in DOMAIN to : InkBox(pcb.parts, to, i) \in I
    BY DEF Ink, InkBox
  <2> QED
    BY <1>2, <2>1, InkFacts DEF FileOK
<1>4. I = {InkBox(pcb.parts, to, i) : i \in DOMAIN to}
  BY DEF Ink, InkBox
<1>5. IsFiniteSet(I)
  <2> DEFINE f == [i \in DOMAIN to |-> InkBox(pcb.parts, to, i)]
  <2>1. I = {f[i] : i \in DOMAIN f}
    BY <1>4
  <2>2. IsFiniteSet(DOMAIN f)
    BY <1>2 DEF FileOK
  <2> HIDE DEF f, I
  <2> QED
    BY <2>1, <2>2, FiniteRange
<1>6. IsFiniteSet(H) /\ \A b \in H : Ints(b)
  <2> DEFINE f == [h \in pcb.holes |-> Grown(<<h[1], h[2], h[1], h[2]>>, HOLE)]
  <2>1. H = {f[h] : h \in DOMAIN f}
    BY DEF HoleBoxes
  <2>2. IsFiniteSet(DOMAIN f)
    BY DEF FileOK
  <2>3. \A h \in pcb.holes : h[1] \in Int /\ h[2] \in Int
    BY DEF FileOK
  <2>4. \A h \in pcb.holes : Ints(f[h])
    BY <2>3 DEF Ints, Grown, HOLE
  <2>5. IsFiniteSet(H)
    <3> HIDE DEF f, H
    <3> QED
      BY <2>1, <2>2, FiniteRange
  <2> QED
    BY <2>1, <2>4, <2>5
<1>7. \A b \in I : Ints(b)
  BY <1>3, <1>4
<1>8. IsFiniteSet(B) /\ B # {} /\ \A b \in B : Ints(b)
  <2>1. B # {}
    BY <1>1, <1>2, <1>3
  <2> HIDE DEF I, H
  <2>2. IsFiniteSet(B)
    BY <1>5, <1>6, FS_Union
  <2> QED
    BY <1>6, <1>7, <2>1, <2>2
<1> HIDE DEF I, H
<1>9. Ints(Hull(B)) /\ \A b \in B : Within(b, Hull(B))
  <2> HIDE DEF B
  <2> QED
    BY <1>8, HullAround
<1> DEFINE u == Hull(B)
<1>10. e = <<u[1] - LAYOUT_MARGIN, u[2] - LAYOUT_MARGIN, u[3] + LAYOUT_MARGIN, u[4] + LAYOUT_MARGIN>>
  BY DEF Grown
<1>11. Ints(u) /\ \A b \in I : Within(b, u)
  BY <1>9
<1> HIDE DEF B, u, e
<1>12. e \in Int \X Int \X Int \X Int
  BY <1>10, <1>11 DEF Ints, LAYOUT_MARGIN
<1>13. \A i \in DOMAIN to : Within(Grown(InkBox(pcb.parts, to, i), LAYOUT_MARGIN), e)
  <2> SUFFICES ASSUME NEW i \in DOMAIN to
               PROVE  Within(Grown(InkBox(pcb.parts, to, i), LAYOUT_MARGIN), e)
    OBVIOUS
  <2> DEFINE b == InkBox(pcb.parts, to, i)
  <2>1. Ints(b) /\ Within(b, u)
    BY <1>3, <1>11
  <2> HIDE DEF b
  <2>2. Within(Grown(b, LAYOUT_MARGIN), e)
    BY <1>10, <1>11, <2>1 DEF Within, Grown, Ints, LAYOUT_MARGIN
  <2> QED
    BY <2>2 DEF b
<1>14. /\ pcb'.parts = pcb.parts /\ pcb'.at = to /\ pcb'.edge = e /\ pcb'.holes = pcb.holes
       /\ pcb'.pads = pcb.pads /\ pcb'.planes = pcb.planes /\ pcb'.pour = pcb.pour
  BY <1>1
<1>15. FileOK(pcb')
  BY <1>1, <1>2, <1>12, <1>14 DEF FileOK
<1>16. OutlineOK(pcb')
  BY <1>1, <1>2, <1>13, <1>14 DEF OutlineOK
<1> QED
  BY <1>15, <1>16

\* The planes are inside the outline, all alike but for the net; each is poured.
PlaneBox(b) == Grown(Grown(b.edge, HALF_LINE), -50)
Supplies == {<<"", "GND">>, <<"", "+3V3">>}
PlanesOK(b) ==
  \A z \in b.planes : z = [net |-> z.net, box |-> PlaneBox(b)] /\ z.net \in Supplies
PouredOK(b) == {[net |-> q.net, box |-> q.box] : q \in b.pour} = b.planes

LEMMA ZonesPassFile ==
  ASSUME FileOK(pcb), ZonesPass
  PROVE  /\ FileOK(pcb') /\ PlanesOK(pcb')
         /\ OutlineOK(pcb) => OutlineOK(pcb')
         /\ pcb'.at = pcb.at /\ pcb'.parts = pcb.parts /\ pcb'.edge = pcb.edge
<1>1. pcb' = [parts |-> pcb.parts, at |-> pcb.at, pads |-> pcb.pads, edge |-> pcb.edge,
              planes |-> Planes, pour |-> {}, holes |-> pcb.holes]
  BY DEF FileOK, ZonesPass, Saved, Zones
<1>2. /\ pcb'.parts = pcb.parts /\ pcb'.at = pcb.at /\ pcb'.edge = pcb.edge /\ pcb'.holes = pcb.holes
      /\ pcb'.pads = pcb.pads /\ pcb'.planes = Planes /\ pcb'.pour = {}
  BY <1>1
<1>3. FileOK(pcb')
  BY <1>1, <1>2 DEF FileOK
<1>4. PlanesOK(pcb')
  <2> SUFFICES ASSUME NEW z \in Planes PROVE z = [net |-> z.net, box |-> PlaneBox(pcb')] /\ z.net \in Supplies
    BY <1>2 DEF PlanesOK
  <2>1. PICK n \in Supplies : z = [net |-> n, box |-> Grown(Edges, -50)]
    BY DEF Planes, Supplies
  <2>2. PlaneBox(pcb') = Grown(Edges, -50)
    BY <1>2 DEF PlaneBox, Edges
  <2>3. z.net = n
    BY <2>1
  <2> QED
    BY <2>1, <2>2, <2>3
<1>5. OutlineOK(pcb) => OutlineOK(pcb')
  BY <1>2 DEF OutlineOK
<1> QED
  BY <1>2, <1>3, <1>4, <1>5

LEMMA FillPassFile ==
  ASSUME FileOK(pcb), FillPass
  PROVE  /\ FileOK(pcb') /\ (PlanesOK(pcb) => PlanesOK(pcb') /\ PouredOK(pcb'))
         /\ OutlineOK(pcb) => OutlineOK(pcb')
         /\ pcb'.at = pcb.at /\ pcb'.parts = pcb.parts /\ pcb'.edge = pcb.edge
<1> DEFINE pour == {[net |-> z.net, box |-> z.box, holes |-> pcb.holes] : z \in pcb.planes}
<1>1. pcb' = [parts |-> pcb.parts, at |-> pcb.at, pads |-> pcb.pads, edge |-> pcb.edge,
              planes |-> pcb.planes, pour |-> pour, holes |-> pcb.holes]
  BY DEF FileOK, FillPass, Saved
<1>2. /\ pcb'.parts = pcb.parts /\ pcb'.at = pcb.at /\ pcb'.edge = pcb.edge /\ pcb'.holes = pcb.holes
      /\ pcb'.pads = pcb.pads /\ pcb'.planes = pcb.planes /\ pcb'.pour = pour
  BY <1>1
<1>3. FileOK(pcb')
  BY <1>1, <1>2 DEF FileOK
<1>4. PlanesOK(pcb) => PlanesOK(pcb')
  BY <1>2 DEF PlanesOK, PlaneBox
<1>5. ASSUME PlanesOK(pcb) PROVE PouredOK(pcb')
  <2>1. ASSUME NEW z \in pcb.planes PROVE z = [net |-> z.net, box |-> z.box]
    <3> DEFINE B == PlaneBox(pcb)
    <3>1. z = [net |-> z.net, box |-> B]
      BY <1>5 DEF PlanesOK
    <3> HIDE DEF B
    <3>2. z.box = B
      BY <3>1
    <3> QED
      BY <3>1, <3>2
  <2>2. ASSUME NEW q \in pour PROVE [net |-> q.net, box |-> q.box] \in pcb.planes
    <3>1. PICK z \in pcb.planes : q = [net |-> z.net, box |-> z.box, holes |-> pcb.holes]
      OBVIOUS
    <3>2. q.net = z.net /\ q.box = z.box
      BY <3>1
    <3> QED
      BY <2>1, <3>2
  <2>3. ASSUME NEW z \in pcb.planes PROVE \E q \in pour : z = [net |-> q.net, box |-> q.box]
    <3> DEFINE q == [net |-> z.net, box |-> z.box, holes |-> pcb.holes]
    <3>1. q \in pour /\ q.net = z.net /\ q.box = z.box
      OBVIOUS
    <3> QED
      BY <2>1, <3>1
  <2> HIDE DEF pour
  <2> QED
    BY <1>2, <2>2, <2>3 DEF PouredOK
<1>6. OutlineOK(pcb) => OutlineOK(pcb')
  BY <1>2 DEF OutlineOK
<1> QED
  BY <1>2, <1>3, <1>4, <1>5, <1>6

LEMMA HolesPassShape ==
  ASSUME FileOK(pcb), HolesPass
  PROVE  /\ pcb' = [parts |-> pcb.parts, at |-> pcb.at, pads |-> pcb.pads, edge |-> pcb.edge,
                    planes |-> pcb.planes, pour |-> pcb.pour, holes |-> InCorners]
         /\ InCorners = {pcb.edge[1] + 395, pcb.edge[3] - 395} \X {pcb.edge[2] + 395, pcb.edge[4] - 395}
         /\ FileOK(pcb')
<1> DEFINE e == pcb.edge
           x0 == e[1] + 395  x1 == e[3] - 395  y0 == e[2] + 395  y1 == e[4] - 395
           xs == {x0, x1}  ys == {y0, y1}
<1>1. pcb' = [parts |-> pcb.parts, at |-> pcb.at, pads |-> pcb.pads, edge |-> pcb.edge,
              planes |-> pcb.planes, pour |-> pcb.pour, holes |-> InCorners]
  BY DEF FileOK, HolesPass, Saved, Holes
<1>2. e[1] \in Int /\ e[2] \in Int /\ e[3] \in Int /\ e[4] \in Int
  BY DEF FileOK
<1>3. Edges = <<e[1] - 5, e[2] - 5, e[3] + 5, e[4] + 5>>
  BY DEF Edges, Grown, HALF_LINE
<1>4. Edges[1] = e[1] - 5 /\ Edges[2] = e[2] - 5 /\ Edges[3] = e[3] + 5 /\ Edges[4] = e[4] + 5
  BY <1>3
<1> HIDE DEF e
<1>5. InCorners = xs \X ys
  <2>1. /\ Edges[1] + 400 = e[1] + 395 /\ Edges[3] - 400 = e[3] - 395
        /\ Edges[2] + 400 = e[2] + 395 /\ Edges[4] - 400 = e[4] - 395
    BY <1>2, <1>4
  <2>2. InCorners = {<<a, b>> : a \in xs, b \in ys}
    BY <2>1 DEF InCorners
  <2> HIDE DEF xs, ys
  <2>3. \A q \in xs \X ys : q \in {<<a, b>> : a \in xs, b \in ys}
    OBVIOUS
  <2>4. \A a \in xs, b \in ys : <<a, b>> \in xs \X ys
    OBVIOUS
  <2> QED
    BY <2>2, <2>3, <2>4
<1>6. IsFiniteSet(xs) /\ IsFiniteSet(ys)
  <2> HIDE DEF x0, x1, y0, y1
  <2> QED
    BY PairCard
<1>7. IsFiniteSet(InCorners)
  <2> HIDE DEF xs, ys
  <2> QED
    BY <1>5, <1>6, FS_Product
<1>8. InCorners \subseteq Int \X Int
  BY <1>2, <1>5
<1>9. FileOK(pcb')
  <2>1. /\ pcb'.parts = pcb.parts /\ pcb'.at = pcb.at /\ pcb'.edge = pcb.edge /\ pcb'.holes = InCorners
        /\ pcb'.pads = pcb.pads /\ pcb'.planes = pcb.planes /\ pcb'.pour = pcb.pour
    BY <1>1
  <2> QED
    BY <1>1, <1>7, <1>8, <2>1 DEF FileOK
<1> QED
  BY <1>1, <1>5, <1>9 DEF e

\* What a chain of all four passes leaves.
LEMMA ChainFinishes ==
  ASSUME FileOK(pcb), OutlineOK(pcb), PlanesOK(pcb), PouredOK(pcb), HolesPass
  PROVE  Finished(pcb')
<1> DEFINE e == pcb.edge
           xs == {e[1] + 395, e[3] - 395}  ys == {e[2] + 395, e[4] - 395}
           ink == Ink(pcb.parts, pcb.at)
<1>1. /\ pcb'.parts = pcb.parts /\ pcb'.at = pcb.at /\ pcb'.edge = e /\ pcb'.holes = xs \X ys
      /\ pcb'.planes = pcb.planes /\ pcb'.pour = pcb.pour
  BY HolesPassShape
<1>2. e[1] \in Int /\ e[2] \in Int /\ e[3] \in Int /\ e[4] \in Int
  BY DEF FileOK
<1> HIDE DEF e
<1>3. \A box \in ink : /\ Ints(box) /\ box[1] <= box[3] /\ box[2] <= box[4]
                       /\ Within(Grown(box, LAYOUT_MARGIN), e)
  <2>1. \A box \in ink : \E i \in DOMAIN pcb.at : box = InkBox(pcb.parts, pcb.at, i)
    BY DEF Ink, InkBox
  <2>2. \A i \in DOMAIN pcb.at : LET b == InkBox(pcb.parts, pcb.at, i) IN
          Ints(b) /\ b[1] <= b[3] /\ b[2] <= b[4]
    BY InkFacts DEF FileOK
  <2> QED
    BY <2>1, <2>2 DEF OutlineOK, e
<1>4. \E box \in ink : TRUE
  BY DEF OutlineOK, Ink, InkBox
<1> HIDE DEF ink
<1>5. \A box \in ink : /\ e[1] + 1000 <= box[1] /\ e[2] + 1000 <= box[2]
                       /\ box[3] + 1000 <= e[3] /\ box[4] + 1000 <= e[4]
  BY <1>2, <1>3 DEF Within, Grown, LAYOUT_MARGIN, Ints
<1>6. e[1] + 2000 <= e[3] /\ e[2] + 2000 <= e[4]
  BY <1>2, <1>3, <1>4, <1>5 DEF Ints
<1>7. Cardinality(xs \X ys) = 4
  <2>1. e[1] + 395 # e[3] - 395 /\ e[2] + 395 # e[4] - 395
    BY <1>2, <1>6
  <2>2. IsFiniteSet(xs) /\ Cardinality(xs) = 2 /\ IsFiniteSet(ys) /\ Cardinality(ys) = 2
    <3> DEFINE a == e[1] + 395  b == e[3] - 395  c == e[2] + 395  d == e[4] - 395
    <3>1. a # b /\ c # d
      BY <2>1
    <3> HIDE DEF a, b, c, d
    <3>2. IsFiniteSet({a, b}) /\ Cardinality({a, b}) = 2
      BY <3>1, PairCard
    <3>3. IsFiniteSet({c, d}) /\ Cardinality({c, d}) = 2
      BY <3>1, PairCard
    <3> QED
      BY <3>2, <3>3 DEF a, b, c, d
  <2> HIDE DEF xs, ys
  <2>3. Cardinality(xs \X ys) = Cardinality(xs) * Cardinality(ys)
    BY <2>2, FS_Product
  <2> QED
    BY <2>2, <2>3
<1>8. ASSUME NEW h \in HoleBoxes(xs \X ys)
      PROVE  Within(h, e) /\ \A box \in ink : Clear(h, box, 0)
  <2>1. PICK c \in xs \X ys : h = Grown(<<c[1], c[2], c[1], c[2]>>, HOLE)
    BY DEF HoleBoxes
  <2>2. /\ c[1] = e[1] + 395 \/ c[1] = e[3] - 395
        /\ c[2] = e[2] + 395 \/ c[2] = e[4] - 395
    BY <2>1
  <2>3. c[1] \in Int /\ c[2] \in Int
    BY <1>2, <2>2
  <2>4. h = <<c[1] - 245, c[2] - 245, c[1] + 245, c[2] + 245>>
    BY <2>1 DEF Grown, HOLE
  <2>5. Within(h, e)
    BY <1>2, <1>6, <2>2, <2>3, <2>4 DEF Within
  <2>6. ASSUME NEW box \in ink PROVE Clear(h, box, 0)
    <3>1. Ints(box) /\ e[1] + 1000 <= box[1] /\ box[3] + 1000 <= e[3]
      BY <1>3, <1>5
    <3> QED
      BY <1>2, <2>2, <2>3, <2>4, <3>1 DEF Clear, Ints
  <2> QED
    BY <2>5, <2>6
<1>9. \A z \in pcb.planes : Within(z.box, e)
  <2>1. ASSUME NEW z \in pcb.planes PROVE z.box = PlaneBox(pcb)
    <3> DEFINE B == PlaneBox(pcb)
    <3>1. z = [net |-> z.net, box |-> B]
      BY DEF PlanesOK
    <3> HIDE DEF B
    <3>2. z.box = B
      BY <3>1
    <3> QED
      BY <3>2 DEF B
  <2>2. PlaneBox(pcb) = <<e[1] - 5 + 50, e[2] - 5 + 50, e[3] + 5 - 50, e[4] + 5 - 50>>
    BY <1>2 DEF PlaneBox, Grown, HALF_LINE, e
  <2>3. Within(PlaneBox(pcb), e)
    BY <1>2, <2>2 DEF Within
  <2> QED
    BY <2>1, <2>3
<1>10. Cardinality(pcb.planes) = Cardinality({z.net : z \in pcb.planes})
  <2> DEFINE P == pcb.planes  N == {z.net : z \in P}  B == PlaneBox(pcb)
             f == [z \in P |-> z.net]  g == [n \in N |-> [net |-> n, box |-> B]]
  <2>1. \A z \in P : z = [net |-> z.net, box |-> B] /\ z.net \in Supplies
    BY DEF PlanesOK
  <2>2. f \in Bijection(P, N)
    <3>1. f \in [P -> N] /\ \A n \in N : \E z \in P : f[z] = n
      OBVIOUS
    <3>2. \A z1, z2 \in P : f[z1] = f[z2] => z1 = z2
      BY <2>1
    <3> HIDE DEF f, P, N
    <3> QED
      BY <3>1, <3>2 DEF Bijection, Injection, Surjection, IsInjective
  <2>3. IsFiniteSet(N)
    <3>1. IsFiniteSet(Supplies)
      BY PairCard DEF Supplies
    <3>2. N \in SUBSET Supplies
      BY <2>1
    <3> HIDE DEF N
    <3> QED
      BY <3>1, <3>2, FS_Subset
  <2>4. g \in Surjection(N, P)
    BY <2>1 DEF Surjection
  <2> HIDE DEF P, N, f, g
  <2>5. IsFiniteSet(P)
    BY <2>3, <2>4, FS_Surjection
  <2>6. ExistsBijection(P, N)
    BY <2>2 DEF ExistsBijection
  <2>7. Cardinality(N) = Cardinality(P)
    BY <2>5, <2>6, FS_Bijection
  <2> QED
    BY <2>7 DEF N, P
<1>11. \A box \in ink : Within(Grown(box, LAYOUT_MARGIN), e)
  BY <1>3
<1>12. {[net |-> q.net, box |-> q.box] : q \in pcb'.pour} = pcb'.planes
  BY <1>1 DEF PouredOK
<1> HIDE DEF xs, ys
<1> QED
  BY <1>1, <1>7, <1>8, <1>9, <1>10, <1>11, <1>12 DEF Finished, ink

-----------------------------------------------------------------------------
(* The inductive invariant.                                                *)

Passes == {"place", "zones", "fill", "holes"}

FileInv ==
  /\ pcb # <<>> => FileOK(pcb)
  /\ proc \in Passes => pcb # <<>>

\* How far the chain that began with the placement has come.
ChainInv ==
  full => /\ proc \in {"zones", "fill", "holes"} => OutlineOK(pcb)
          /\ proc \in {"fill", "holes"} => PlanesOK(pcb)
          /\ proc = "holes" => PouredOK(pcb)

BInv == board \in DOMAIN Designs /\ MainInv /\ FileInv /\ ChainInv /\ PartsOnBoard

LEMMA FileIsThere == ASSUME NEW b, FileOK(b) PROVE b # <<>>
<1>1. "parts" \in DOMAIN b
  BY DEF FileOK
<1> QED
  BY <1>1

\* A step that leaves the board file alone and no pass running.
LEMMA FileKept ==
  ASSUME BInv, UNCHANGED <<board, pcb>>, proc' \notin Passes, MainInv'
  PROVE  BInv'
<1>1. FileInv' /\ PartsOnBoard'
  BY DEF BInv, FileInv, PartsOnBoard
<1>2. ChainInv'
  BY DEF ChainInv, Passes
<1> QED
  BY <1>1, <1>2 DEF BInv

LEMMA WriteStep == ASSUME BInv, WritePcb, UNCHANGED board PROVE BInv'
<1>1. UNCHANGED mainVars /\ pcb' = Board /\ proc' = "idle"
  BY DEF WritePcb
<1>2. MainInv'
  BY <1>1, MainKept DEF BInv
<1>3. /\ pcb'.parts = parts /\ pcb'.at = at /\ pcb'.holes = {}
      /\ pcb'.edge = <<EDGE, EDGE, BOARD_W + MARGIN, ypos + rowh + MARGIN>>
      /\ pcb' = [parts |-> pcb'.parts, at |-> pcb'.at, pads |-> pcb'.pads, edge |-> pcb'.edge,
                 planes |-> pcb'.planes, pour |-> pcb'.pour, holes |-> pcb'.holes]
  BY <1>1 DEF Board
<1>4. FileOK(pcb')
  <2>1. IsFiniteSet(DOMAIN at) /\ DOMAIN at \subseteq Int
    BY FS_Subset DEF BInv, MainInv, TypeOK
  <2>2. \A i \in DOMAIN at : Fits(parts[i].fp) /\ at[i] \in Int \X Int
    BY DEF BInv, MainInv, TypeOK
  <2>3. <<EDGE, EDGE, BOARD_W + MARGIN, ypos + rowh + MARGIN>> \in Int \X Int \X Int \X Int
    BY DEF BInv, MainInv, TypeOK, EDGE, BOARD_W, MARGIN
  <2>4. IsFiniteSet({})
    BY FS_EmptySet
  <2> QED
    BY <1>3, <2>1, <2>2, <2>3, <2>4 DEF FileOK
<1>5. PartsOnBoard'
  <2>1. ASSUME NEW i \in DOMAIN at
        PROVE  LET c == Cell(parts[i].fp, at[i])
               IN  /\ EDGE < c[1] /\ EDGE < c[2]
                   /\ c[3] < BOARD_W + MARGIN /\ c[4] < ypos + rowh + MARGIN
    <3> DEFINE c == Cell(parts[i].fp, at[i])
    <3>1. c[1] \in Int /\ c[2] \in Int /\ c[3] \in Int /\ c[4] \in Int
      BY CellType DEF BInv, MainInv, TypeOK
    <3>2. OnShelf(c, xpos, ypos, rowh) /\ ypos \in Int /\ rowh \in Nat
      BY DEF BInv, MainInv, TypeOK, Shelves
    <3> HIDE DEF c
    <3>3. EDGE < c[1] /\ EDGE < c[2] /\ c[3] < BOARD_W + MARGIN /\ c[4] < ypos + rowh + MARGIN
      BY <3>1, <3>2 DEF OnShelf, EDGE, MARGIN, BOARD_W
    <3> QED
      BY <3>3 DEF c
  <2>2. /\ pcb'.edge[1] = EDGE /\ pcb'.edge[2] = EDGE
        /\ pcb'.edge[3] = BOARD_W + MARGIN /\ pcb'.edge[4] = ypos + rowh + MARGIN
    BY <1>3
  <2>3. ASSUME NEW i \in DOMAIN pcb'.at
        PROVE  LET c == Cell(pcb'.parts[i].fp, pcb'.at[i])
               IN  /\ pcb'.edge[1] < c[1] /\ pcb'.edge[2] < c[2]
                   /\ c[3] < pcb'.edge[3] /\ c[4] < pcb'.edge[4]
    <3>1. Cell(pcb'.parts[i].fp, pcb'.at[i]) = Cell(parts[i].fp, at[i]) /\ i \in DOMAIN at
      BY <1>3
    <3> QED
      BY <2>1, <2>2, <3>1
  <2> QED
    BY <2>3 DEF PartsOnBoard
<1>6. FileInv' /\ ChainInv'
  BY <1>1, <1>4 DEF FileInv, ChainInv, Passes
<1> QED
  BY <1>2, <1>5, <1>6 DEF BInv

\* A file whose outline stands off every part's ink by the margin goes round every cell.
LEMMA OutlineRound ==
  ASSUME FileOK(pcb'), OutlineOK(pcb')
  PROVE  PartsOnBoard'
<1> SUFFICES ASSUME NEW i \in DOMAIN pcb'.at
             PROVE  LET c == Cell(pcb'.parts[i].fp, pcb'.at[i])
                    IN  /\ pcb'.edge[1] < c[1] /\ pcb'.edge[2] < c[2]
                        /\ c[3] < pcb'.edge[3] /\ c[4] < pcb'.edge[4]
  BY Zenon DEF PartsOnBoard
<1> DEFINE b == InkBox(pcb'.parts, pcb'.at, i)  c == Cell(pcb'.parts[i].fp, pcb'.at[i])  e == pcb'.edge
<1>1. /\ Ints(b) /\ Ints(c)
      /\ b[1] - 400 <= c[1] /\ b[2] - 400 <= c[2] /\ c[3] <= b[3] + 400 /\ c[4] <= b[4] + 400
  BY InkFacts DEF FileOK
<1>2. Within(Grown(b, LAYOUT_MARGIN), e)
  BY DEF OutlineOK
<1>3. e[1] \in Int /\ e[2] \in Int /\ e[3] \in Int /\ e[4] \in Int
  BY DEF FileOK
<1> HIDE DEF b, c, e
<1>4. /\ e[1] <= b[1] - 1000 /\ e[2] <= b[2] - 1000
      /\ b[3] + 1000 <= e[3] /\ b[4] + 1000 <= e[4]
  BY <1>2 DEF Within, Grown, LAYOUT_MARGIN
<1>5. /\ b[1] \in Int /\ b[2] \in Int /\ b[3] \in Int /\ b[4] \in Int
      /\ c[1] \in Int /\ c[2] \in Int /\ c[3] \in Int /\ c[4] \in Int
  BY <1>1 DEF Ints
<1>6. e[1] < c[1] /\ e[2] < c[2] /\ c[3] < e[3] /\ c[4] < e[4]
  BY <1>1, <1>3, <1>4, <1>5
<1> QED
  BY <1>6, Zenon DEF c, e

LEMMA PassStep ==
  ASSUME BInv, PlacePass \/ ZonesPass \/ FillPass \/ HolesPass, UNCHANGED board
  PROVE  BInv'
<1>1. UNCHANGED mainVars /\ FileOK(pcb)
  <2>1. proc \in Passes /\ UNCHANGED mainVars
    BY DEF PlacePass, ZonesPass, FillPass, HolesPass, Passes
  <2> QED
    BY <2>1 DEF BInv, FileInv
<1>2. MainInv'
  BY <1>1, MainKept DEF BInv
<1>3. CASE PlacePass
  <2>1. FileOK(pcb') /\ OutlineOK(pcb') /\ proc' = "zones"
    BY <1>1, <1>3, PlacePassFile, PlacePassShape
  <2>2. PartsOnBoard'
    BY <2>1, OutlineRound
  <2>3. FileInv'
    BY <2>1, FileIsThere DEF FileInv
  <2>4. ChainInv'
    BY <2>1 DEF ChainInv
  <2> QED
    BY <1>2, <2>2, <2>3, <2>4 DEF BInv
<1>4. CASE ZonesPass
  <2>1. /\ FileOK(pcb') /\ PlanesOK(pcb') /\ (OutlineOK(pcb) => OutlineOK(pcb'))
        /\ pcb'.at = pcb.at /\ pcb'.parts = pcb.parts /\ pcb'.edge = pcb.edge
    BY <1>1, <1>4, ZonesPassFile
  <2>2. proc = "zones" /\ proc' = "fill" /\ full' = full
    BY <1>4 DEF ZonesPass, Saved
  <2>3. FileInv'
    BY <2>1, FileIsThere DEF FileInv
  <2>4. ChainInv'
    BY <2>1, <2>2 DEF BInv, ChainInv
  <2>5. PartsOnBoard'
    BY <2>1, <1>1, FileIsThere DEF BInv, PartsOnBoard
  <2> QED
    BY <1>2, <2>3, <2>4, <2>5 DEF BInv
<1>5. CASE FillPass
  <2>1. /\ FileOK(pcb') /\ (PlanesOK(pcb) => PlanesOK(pcb') /\ PouredOK(pcb'))
        /\ OutlineOK(pcb) => OutlineOK(pcb')
        /\ pcb'.at = pcb.at /\ pcb'.parts = pcb.parts /\ pcb'.edge = pcb.edge
    BY <1>1, <1>5, FillPassFile
  <2>2. proc = "fill" /\ proc' = "holes" /\ full' = full
    BY <1>5 DEF FillPass, Saved
  <2>3. FileInv'
    BY <2>1, FileIsThere DEF FileInv
  <2>4. ChainInv'
    BY <2>1, <2>2 DEF BInv, ChainInv
  <2>5. PartsOnBoard'
    BY <2>1, <1>1, FileIsThere DEF BInv, PartsOnBoard
  <2> QED
    BY <1>2, <2>3, <2>4, <2>5 DEF BInv
<1>6. CASE HolesPass
  <2>1. /\ FileOK(pcb')
        /\ pcb'.at = pcb.at /\ pcb'.parts = pcb.parts /\ pcb'.edge = pcb.edge
    BY <1>1, <1>6, HolesPassShape
  <2>2. proc' = "idle"
    BY <1>6 DEF HolesPass, Saved
  <2>3. FileInv' /\ ChainInv'
    BY <2>1, <2>2 DEF FileInv, ChainInv, Passes
  <2>4. PartsOnBoard'
    BY <2>1, <1>1, FileIsThere DEF BInv, PartsOnBoard
  <2> QED
    BY <1>2, <2>3, <2>4 DEF BInv
<1> QED
  BY <1>3, <1>4, <1>5, <1>6

LEMMA StartStep ==
  ASSUME BInv, UNCHANGED board, NEW pass \in Passes, LayoutStart(pass)
  PROVE  BInv'
<1>1. UNCHANGED mainVars /\ pcb' = pcb /\ pcb # <<>> /\ full' = FALSE
  BY DEF LayoutStart
<1>2. MainInv'
  BY <1>1, MainKept DEF BInv
<1>3. FileInv' /\ ChainInv' /\ PartsOnBoard'
  BY <1>1 DEF BInv, FileInv, ChainInv, PartsOnBoard
<1> QED
  BY <1>2, <1>3 DEF BInv

\* The placement in memory, the board file and the chain of passes, whatever programs are
\* started and stopped: what the properties below rest on.
THEOREM BoardInvariant == BSpec => []BInv
<1>1. BInit => BInv
  <2> SUFFICES ASSUME BInit PROVE BInv
    OBVIOUS
  <2>1. /\ DOMAIN at = {} /\ DOMAIN parts = {} /\ todo = {} /\ pcb = <<>> /\ full = FALSE /\ proc = "idle"
        /\ xpos = MARGIN /\ ypos = MARGIN /\ rowh = 0 /\ board \in DOMAIN Designs
    BY DEF BInit, LayoutInit, Init
  <2>2. IsFiniteSet({})
    BY FS_EmptySet
  <2>3. MainInv
    BY <2>1, <2>2 DEF MainInv, TypeOK, Shelves, CellsApart, MARGIN
  <2>4. FileInv /\ ChainInv /\ PartsOnBoard
    BY <2>1 DEF FileInv, ChainInv, PartsOnBoard, Passes
  <2> QED
    BY <2>1, <2>3, <2>4 DEF BInv
<1>2. BInv /\ [BNext]_vars => BInv'
  <2> SUFFICES ASSUME BInv, [BNext]_vars PROVE BInv'
    OBVIOUS
  <2>1. CASE BuildStart \/ BuildRoot
    <3>1. UNCHANGED <<mainVars, pcb, board>> /\ proc' \notin Passes
      BY <2>1 DEF BuildStart, BuildRoot, Passes
    <3> QED
      BY <3>1, FileKept, MainKept DEF BInv
  <2>2. CASE BuildSheet
    <3>1. UNCHANGED <<mainVars, pcb, board>> /\ proc' \notin Passes
      BY <2>2 DEF BuildSheet, layVars, pcbVars, Passes
    <3> QED
      BY <3>1, FileKept, MainKept DEF BInv
  <2>3. CASE SoloSheet
    <3>1. UNCHANGED <<mainVars, pcb, board>> /\ proc' \notin Passes
      BY <2>3 DEF SoloSheet, layVars, pcbVars, Passes
    <3> QED
      BY <3>1, FileKept, MainKept DEF BInv
  <2>4. CASE PcbStart
    <3>1. Main(netlist) /\ UNCHANGED board
      BY <2>4 DEF PcbStart, schVars
    <3>2. UNCHANGED <<pcb, board>> /\ proc' \notin Passes
      BY <3>1 DEF Main, Passes
    <3>3. MainInv'
      BY <3>1, NetlistGood, MainStep DEF BInv
    <3> QED
      BY <3>2, <3>3, FileKept
  <2>5. CASE ExportStart
    <3>1. UNCHANGED <<mainVars, pcb, board>> /\ proc' \notin Passes
      BY <2>5 DEF ExportStart, Export, schVars, pcbVars, Passes
    <3> QED
      BY <3>1, FileKept, MainKept DEF BInv
  <2>6. CASE LayStart
    <3>1. UNCHANGED board /\ \E pass \in Passes : LayoutStart(pass)
      BY <2>6 DEF LayStart, schVars, Passes
    <3> QED
      BY <3>1, StartStep
  <2>7. CASE Stop \/ (PlaceFails /\ UNCHANGED schVars)
    <3>1. UNCHANGED <<mainVars, pcb, board>> /\ proc' \notin Passes
      BY <2>7 DEF Stop, PlaceFails, Kill, LayoutKill, schVars, Passes
    <3> QED
      BY <3>1, FileKept, MainKept DEF BInv
  <2>8. CASE PlaceNext /\ UNCHANGED schVars
    <3>1. UNCHANGED <<pcb, board>> /\ proc' \notin Passes
      BY <2>8 DEF PlaceNext, schVars, Passes
    <3>2. MainInv'
      BY <2>8, PlaceStep DEF BInv
    <3> QED
      BY <3>1, <3>2, FileKept
  <2>9. CASE WritePcb /\ UNCHANGED schVars
    BY <2>9, WriteStep DEF schVars
  <2>10. CASE (PlacePass \/ ZonesPass \/ FillPass \/ HolesPass) /\ UNCHANGED schVars
    BY <2>10, PassStep DEF schVars
  <2>11. CASE UNCHANGED vars
    BY <2>11 DEF vars, layVars, pcbVars, mainVars, BInv, MainInv, TypeOK, Shelves, OnShelf,
                 CellsApart, FileInv, ChainInv, PartsOnBoard
  <2> QED
    BY <2>1, <2>2, <2>3, <2>4, <2>5, <2>6, <2>7, <2>8, <2>9, <2>10, <2>11 DEF BNext
<1> QED
  BY <1>1, <1>2, PTL DEF BSpec

\* No two footprints placed by kigen_pcb come closer than GAP.
THEOREM CellsApartTheorem == BSpec => []CellsApart
<1>1. BInv => CellsApart
  BY DEF BInv, MainInv
<1> QED
  BY <1>1, BoardInvariant, PTL

\* Whichever program wrote the board file last, its outline goes round every footprint.
THEOREM PartsOnBoardTheorem == BSpec => []PartsOnBoard
<1>1. BInv => PartsOnBoard
  BY DEF BInv
<1> QED
  BY <1>1, BoardInvariant, PTL

\* A chain of all four passes leaves a finished board, whatever earlier chains left.
THEOREM LayoutFinishedTheorem == BSpec => LayoutFinished
<1>1. ASSUME BInv PROVE [full /\ HolesPass => Finished(pcb')]_layVars
  <2> SUFFICES ASSUME full, HolesPass PROVE Finished(pcb')
    OBVIOUS
  <2>1. proc = "holes"
    BY DEF HolesPass
  <2>2. FileOK(pcb) /\ OutlineOK(pcb) /\ PlanesOK(pcb) /\ PouredOK(pcb)
    BY <1>1, <2>1 DEF BInv, FileInv, ChainInv, Passes
  <2> QED
    BY <2>2, ChainFinishes
<1> QED
  BY <1>1, BoardInvariant, PTL DEF LayoutFinished

\* Blocks and shelves never overlap: parts with centred courtyards keep the distance.
THEOREM LayoutApartTheorem == BSpec => LayoutApart
<1> DEFINE moved == {e[1] : e \in UNION {groups(order[k]) : k \in DOMAIN order}}
           crt == {<<i, Moved(Mods[pcb.parts[i].fp].crt, pcb'.at[i])>> :
                     i \in {i \in moved : Centred(pcb.parts[i].fp)}}
<1>1. ASSUME BInv, PlacePass, NEW e \in crt, NEW f \in crt, e[1] < f[1]
      PROVE  Clear(e[2], f[2], SHELF_GAP)
  <2>1. FileOK(pcb)
    BY <1>1 DEF BInv, FileInv, PlacePass, Passes
  <2>2. pcb'.at = Placed
    BY <1>1, <2>1, PlacePassShape
  <2>3. PICK i \in moved : Centred(pcb.parts[i].fp) /\ e = <<i, Moved(Mods[pcb.parts[i].fp].crt, Placed[i])>>
    BY <2>2
  <2>4. PICK j \in moved : Centred(pcb.parts[j].fp) /\ f = <<j, Moved(Mods[pcb.parts[j].fp].crt, Placed[j])>>
    BY <2>2
  <2>5. PICK m \in Arranged(Blocks) : m[1] = i /\ e[2] = Target(m)
    BY <2>1, <2>3, CourtyardIsTarget
  <2>6. PICK o \in Arranged(Blocks) : o[1] = j /\ f[2] = Target(o)
    BY <2>1, <2>4, CourtyardIsTarget
  <2>7. i # j
    <3>1. i \in Int /\ j \in Int
      <4>1. \A n : \A g \in groups(n) : g[1] \in Int
        BY <2>1, GroupPacks DEF PackSet
      <4> QED
        BY <4>1
    <3>2. i < j
      BY <1>1, <2>3, <2>4
    <3> QED
      BY <3>1, <3>2
  <2> QED
    BY <2>1, <2>5, <2>6, <2>7, MovesApart
<1>2. BInv => [PlacePass => \A e, f \in crt : e[1] < f[1] => Clear(e[2], f[2], SHELF_GAP)]_layVars
  BY <1>1
<1> QED
  BY <1>2, BoardInvariant, PTL DEF LayoutApart

-----------------------------------------------------------------------------
(* The drawings.  A sheet's parts lie on a grid, shifted by <<ox, oy>> when *)
(* autofit() has moved them.                                               *)

Lattice(v, o) == \E k \in Int : v = o + 127 * k

GridPart(c, ox, oy) == c.lib \in DOMAIN Lib /\ Lattice(c.x, ox) /\ Lattice(c.y, oy)

LEMMA GridIsLattice == ASSUME NEW v, OnGrid(v) PROVE Lattice(v, 0)
<1>1. v \in Int /\ v % 127 = 0
  BY DEF OnGrid, GRID
<1>2. v = 0 + 127 * (v \div 127) /\ v \div 127 \in Int
  BY <1>1
<1> QED
  BY <1>2 DEF Lattice

\* add() puts every part on the grid.
LEMMA SnapOnGrid == ASSUME NEW v \in Int PROVE OnGrid(Snap(v))
<1> DEFINE k == (2 * v + 127) \div 254
<1>1. k \in Int /\ Snap(v) = k * 127
  BY DEF Snap, GRID
<1> HIDE DEF k
<1>2. k * 127 \in Int /\ (k * 127) % 127 = 0
  BY <1>1
<1> QED
  BY <1>1, <1>2 DEF OnGrid, GRID

\* A symbol's pins are on the grid, and finitely many.
LEMMA PinFacts ==
  ASSUME NEW c, c.lib \in DOMAIN Lib
  PROVE  /\ IsFiniteSet(pins(c))
         /\ \A p \in pins(c) : OnGrid(p.x) /\ OnGrid(p.y) /\ p.ang \in {0, 90, 180, 270}
<1>1. pins(c) \subseteq AllPins(pins_by_unit[c.lib])
  BY DEF pins, UnitPins, AllPins
<1> QED
  BY <1>1, LibOK, FS_Subset

LatticePoint(xy, ox, oy) == \E k, m \in Int : xy = <<ox + 127 * k, oy + 127 * m>>

LEMMA PinSpot ==
  ASSUME NEW ox \in Int, NEW oy \in Int, NEW c, GridPart(c, ox, oy), NEW p \in pins(c)
  PROVE  LatticePoint(pin_xy(c, p), ox, oy)
<1>1. PICK k \in Int : c.x = ox + 127 * k
  BY DEF GridPart, Lattice
<1>2. PICK m \in Int : c.y = oy + 127 * m
  BY DEF GridPart, Lattice
<1>3. OnGrid(p.x) /\ OnGrid(p.y)
  BY PinFacts DEF GridPart
<1>4. PICK h \in Int : p.x = 0 + 127 * h
  BY <1>3, GridIsLattice DEF Lattice
<1>5. PICK n \in Int : p.y = 0 + 127 * n
  BY <1>3, GridIsLattice DEF Lattice
<1>6. pin_xy(c, p) = <<ox + 127 * (k + h), oy + 127 * (m - n)>>
  BY <1>1, <1>2, <1>4, <1>5 DEF pin_xy
<1>7. k + h \in Int /\ m - n \in Int
  OBVIOUS
<1> QED
  BY <1>6, <1>7 DEF LatticePoint

\* What is drawn for a pin.
Body(c, p) == Box(pin_xy(c, p), LabelXY(c, p, UseStub(c)))

\* It begins on the grid, and check() looks at every grid point of it.
LEMMA Sampled ==
  ASSUME NEW ox \in Int, NEW oy \in Int, NEW c, GridPart(c, ox, oy), NEW p \in Netted(c)
  PROVE  LET b == Body(c, p) IN
         /\ Ints(b) /\ b[1] <= b[3] /\ b[2] <= b[4] /\ Lattice(b[1], ox) /\ Lattice(b[2], oy)
         /\ \A k, m \in Int : LET x == ox + 127 * k  y == oy + 127 * m IN
              b[1] <= x /\ x <= b[3] /\ b[2] <= y /\ y <= b[4] => <<<<x, y>>, Net(c, p)>> \in Marks(c)
<1>1. p \in pins(c)
  BY DEF Netted
<1>2. PICK h, n \in Int : pin_xy(c, p) = <<ox + 127 * h, oy + 127 * n>>
  <2>1. LatticePoint(pin_xy(c, p), ox, oy)
    BY <1>1, PinSpot
  <2> QED
    BY <2>1 DEF LatticePoint
<1> DEFINE hx == ox + 127 * h  hy == oy + 127 * n  d == Outward(p)  b == Body(c, p)
<1>3. hx \in Int /\ hy \in Int
  OBVIOUS
<1>4. /\ p.ang = 0 => d = <<-1, 0>>
      /\ p.ang = 90 => d = <<0, 1>>
      /\ p.ang = 180 => d = <<1, 0>>
      /\ p.ang = 270 => d = <<0, -1>>
  BY DEF Outward
<1>5. d \in {<<-1, 0>>, <<0, 1>>, <<1, 0>>, <<0, -1>>}
  BY <1>1, <1>4, PinFacts DEF GridPart
<1> DEFINE spot(i) == <<hx + (127 * i) * d[1], hy + (127 * i) * d[2]>>
<1>6. \A i \in IF UseStub(c) THEN 0 .. 2 ELSE {0} : <<spot(i), Net(c, p)>> \in Marks(c)
  <2>1. \A i \in IF UseStub(c) THEN 0 .. 2 ELSE {0} : Shift(pin_xy(c, p), Outward(p), GRID * i) = spot(i)
    BY <1>2 DEF Shift, GRID
  <2> HIDE DEF spot, d
  <2> QED
    BY <2>1 DEF Marks
<1>7. b = Box(<<hx, hy>>, IF UseStub(c) THEN <<hx + 254 * d[1], hy + 254 * d[2]>> ELSE <<hx, hy>>)
  BY <1>2 DEF Body, LabelXY, Shift, STUB
<1> HIDE DEF b, hx, hy, d
<1>8. CASE ~UseStub(c)
  <2>1. b = <<hx, hy, hx, hy>>
    BY <1>3, <1>7, <1>8 DEF Box, Less, More
  <2>2. <<<<hx, hy>>, Net(c, p)>> \in Marks(c)
    <3>1. spot(0) = <<hx, hy>>
      BY <1>3, <1>5
    <3> HIDE DEF spot
    <3> QED
      BY <1>6, <1>8, <3>1
  <2>3. Ints(b) /\ b[1] = hx /\ b[2] = hy /\ b[3] = hx /\ b[4] = hy
    BY <1>3, <2>1 DEF Ints
  <2>4. Lattice(b[1], ox) /\ Lattice(b[2], oy)
    BY <2>3 DEF Lattice, hx, hy
  <2>5. ASSUME NEW k \in Int, NEW m \in Int, b[1] <= ox + 127 * k, ox + 127 * k <= b[3],
               b[2] <= oy + 127 * m, oy + 127 * m <= b[4]
        PROVE  <<<<ox + 127 * k, oy + 127 * m>>, Net(c, p)>> \in Marks(c)
    <3>1. ox + 127 * k = hx /\ oy + 127 * m = hy
      BY <1>3, <2>3, <2>5
    <3> QED
      BY <2>2, <3>1
  <2> QED
    BY <1>3, <2>3, <2>4, <2>5 DEF b
<1>9. CASE UseStub(c)
  <2>1. \A i \in 0 .. 2 : <<spot(i), Net(c, p)>> \in Marks(c)
    BY <1>6, <1>9
  <2> HIDE DEF spot
  <2>2. CASE d \in {<<-1, 0>>, <<1, 0>>}
    <3> DEFINE L == IF d = <<-1, 0>> THEN hx - 254 ELSE hx
    <3>1. /\ b = <<L, hy, L + 254, hy>>
          /\ {spot(0), spot(1), spot(2)} = {<<L, hy>>, <<L + 127, hy>>, <<L + 254, hy>>}
      <4>1. CASE d = <<-1, 0>>
        <5>1. b = <<hx - 254, hy, hx, hy>>
          BY <1>3, <1>7, <1>9, <4>1 DEF Box, Less, More
        <5>2. spot(0) = <<hx, hy>> /\ spot(1) = <<hx - 127, hy>> /\ spot(2) = <<hx - 254, hy>>
          BY <1>3, <4>1 DEF spot
        <5>3. L = hx - 254 /\ L + 127 = hx - 127 /\ L + 254 = hx
          BY <1>3, <4>1
        <5> QED
          BY <5>1, <5>2, <5>3
      <4>2. CASE d = <<1, 0>>
        <5>1. b = <<hx, hy, hx + 254, hy>>
          BY <1>3, <1>7, <1>9, <4>2 DEF Box, Less, More
        <5>2. spot(0) = <<hx, hy>> /\ spot(1) = <<hx + 127, hy>> /\ spot(2) = <<hx + 254, hy>>
          BY <1>3, <4>2 DEF spot
        <5>3. L = hx
          BY <4>2
        <5> QED
          BY <5>1, <5>2, <5>3
      <4> QED
        BY <2>2, <4>1, <4>2
    <3>2. PICK l \in Int : L = ox + 127 * l
      <4>1. CASE d = <<-1, 0>>
        BY <4>1 DEF hx
      <4>2. CASE d # <<-1, 0>>
        BY <4>2 DEF hx
      <4> QED
        BY <4>1, <4>2
    <3> HIDE DEF L
    <3>3. L \in Int
      BY <3>2
    <3>4. Ints(b) /\ b[1] = L /\ b[2] = hy /\ b[3] = L + 254 /\ b[4] = hy
      BY <1>3, <3>1, <3>3 DEF Ints
    <3>5. Lattice(b[1], ox) /\ Lattice(b[2], oy)
      BY <3>2, <3>4 DEF Lattice, hy
    <3>6. ASSUME NEW k \in Int, NEW m \in Int, b[1] <= ox + 127 * k, ox + 127 * k <= b[3],
                 b[2] <= oy + 127 * m, oy + 127 * m <= b[4]
          PROVE  <<<<ox + 127 * k, oy + 127 * m>>, Net(c, p)>> \in Marks(c)
      <4> DEFINE x == ox + 127 * k  y == oy + 127 * m
      <4>1. y = hy
        BY <1>3, <3>4, <3>6
      <4>2. x \in {L, L + 127, L + 254}
        BY <3>2, <3>4, <3>6
      <4> HIDE DEF x, y
      <4>3. <<x, y>> \in {spot(0), spot(1), spot(2)}
        BY <3>1, <4>1, <4>2
      <4> QED
        BY <2>1, <4>3 DEF x, y
    <3>7. b[1] <= b[3] /\ b[2] <= b[4]
      BY <1>3, <3>3, <3>4
    <3> QED
      BY <3>4, <3>5, <3>6, <3>7 DEF b
  <2>3. CASE d \in {<<0, -1>>, <<0, 1>>}
    <3> DEFINE L == IF d = <<0, -1>> THEN hy - 254 ELSE hy
    <3>1. /\ b = <<hx, L, hx, L + 254>>
          /\ {spot(0), spot(1), spot(2)} = {<<hx, L>>, <<hx, L + 127>>, <<hx, L + 254>>}
      <4>1. CASE d = <<0, -1>>
        <5>1. b = <<hx, hy - 254, hx, hy>>
          BY <1>3, <1>7, <1>9, <4>1 DEF Box, Less, More
        <5>2. spot(0) = <<hx, hy>> /\ spot(1) = <<hx, hy - 127>> /\ spot(2) = <<hx, hy - 254>>
          BY <1>3, <4>1 DEF spot
        <5>3. L = hy - 254 /\ L + 127 = hy - 127 /\ L + 254 = hy
          BY <1>3, <4>1
        <5> QED
          BY <5>1, <5>2, <5>3
      <4>2. CASE d = <<0, 1>>
        <5>1. b = <<hx, hy, hx, hy + 254>>
          BY <1>3, <1>7, <1>9, <4>2 DEF Box, Less, More
        <5>2. spot(0) = <<hx, hy>> /\ spot(1) = <<hx, hy + 127>> /\ spot(2) = <<hx, hy + 254>>
          BY <1>3, <4>2 DEF spot
        <5>3. L = hy
          BY <4>2
        <5> QED
          BY <5>1, <5>2, <5>3
      <4> QED
        BY <2>3, <4>1, <4>2
    <3>2. PICK l \in Int : L = oy + 127 * l
      <4>1. CASE d = <<0, -1>>
        BY <4>1 DEF hy
      <4>2. CASE d # <<0, -1>>
        BY <4>2 DEF hy
      <4> QED
        BY <4>1, <4>2
    <3> HIDE DEF L
    <3>3. L \in Int
      BY <3>2
    <3>4. Ints(b) /\ b[1] = hx /\ b[2] = L /\ b[3] = hx /\ b[4] = L + 254
      BY <1>3, <3>1, <3>3 DEF Ints
    <3>5. Lattice(b[1], ox) /\ Lattice(b[2], oy)
      BY <3>2, <3>4 DEF Lattice, hx
    <3>6. ASSUME NEW k \in Int, NEW m \in Int, b[1] <= ox + 127 * k, ox + 127 * k <= b[3],
                 b[2] <= oy + 127 * m, oy + 127 * m <= b[4]
          PROVE  <<<<ox + 127 * k, oy + 127 * m>>, Net(c, p)>> \in Marks(c)
      <4> DEFINE x == ox + 127 * k  y == oy + 127 * m
      <4>1. x = hx
        BY <1>3, <3>4, <3>6
      <4>2. y \in {L, L + 127, L + 254}
        BY <3>2, <3>4, <3>6
      <4> HIDE DEF x, y
      <4>3. <<x, y>> \in {spot(0), spot(1), spot(2)}
        BY <3>1, <4>1, <4>2
      <4> QED
        BY <2>1, <4>3 DEF x, y
    <3>7. b[1] <= b[3] /\ b[2] <= b[4]
      BY <1>3, <3>3, <3>4
    <3> QED
      BY <3>4, <3>5, <3>6, <3>7 DEF b
  <2> QED
    BY <1>5, <2>2, <2>3
<1> QED
  BY <1>8, <1>9

SheetOn(comps, ox, oy) == \A i \in DOMAIN comps : GridPart(comps[i], ox, oy)

\* If check() finds nothing, nothing drawn for one net touches what is drawn for another.
LEMMA CleanOnGrid ==
  ASSUME NEW sheet, NEW sh, NEW ox \in Int, NEW oy \in Int,
         SheetOn(sh.comps, ox, oy), check(sh.comps) = {}
  PROVE  ~ Touching(labels(sheet, sh))
<1> SUFFICES ASSUME NEW e \in labels(sheet, sh), NEW f \in labels(sheet, sh),
                    e.net # f.net, Meet(e.body, f.body)
             PROVE  FALSE
  BY DEF Touching
<1>1. \A l \in labels(sheet, sh) : \E i \in DOMAIN sh.comps : \E p \in Netted(sh.comps[i]) :
        l.net = Net(sh.comps[i], p) /\ l.body = Body(sh.comps[i], p)
  BY DEF labels, Body
<1>2. PICK i \in DOMAIN sh.comps : \E p \in Netted(sh.comps[i]) :
        e.net = Net(sh.comps[i], p) /\ e.body = Body(sh.comps[i], p)
  BY <1>1
<1>3. PICK p \in Netted(sh.comps[i]) : e.net = Net(sh.comps[i], p) /\ e.body = Body(sh.comps[i], p)
  BY <1>2
<1>4. PICK j \in DOMAIN sh.comps : \E q \in Netted(sh.comps[j]) :
        f.net = Net(sh.comps[j], q) /\ f.body = Body(sh.comps[j], q)
  BY <1>1
<1>5. PICK q \in Netted(sh.comps[j]) : f.net = Net(sh.comps[j], q) /\ f.body = Body(sh.comps[j], q)
  BY <1>4
<1> DEFINE a == e.body  b == f.body
<1>6. /\ Ints(a) /\ a[1] <= a[3] /\ a[2] <= a[4] /\ Lattice(a[1], ox) /\ Lattice(a[2], oy)
      /\ \A k, m \in Int : LET x == ox + 127 * k  y == oy + 127 * m IN
           a[1] <= x /\ x <= a[3] /\ a[2] <= y /\ y <= a[4] => <<<<x, y>>, e.net>> \in Marks(sh.comps[i])
  <2>1. GridPart(sh.comps[i], ox, oy)
    BY DEF SheetOn
  <2> DEFINE B == Body(sh.comps[i], p)
  <2>2. /\ Ints(B) /\ B[1] <= B[3] /\ B[2] <= B[4] /\ Lattice(B[1], ox) /\ Lattice(B[2], oy)
        /\ \A k, m \in Int : LET x == ox + 127 * k  y == oy + 127 * m IN
             B[1] <= x /\ x <= B[3] /\ B[2] <= y /\ y <= B[4]
               => <<<<x, y>>, Net(sh.comps[i], p)>> \in Marks(sh.comps[i])
    BY <2>1, Sampled
  <2> HIDE DEF B
  <2> QED
    BY <1>3, <2>2 DEF B
<1>7. /\ Ints(b) /\ b[1] <= b[3] /\ b[2] <= b[4] /\ Lattice(b[1], ox) /\ Lattice(b[2], oy)
      /\ \A k, m \in Int : LET x == ox + 127 * k  y == oy + 127 * m IN
           b[1] <= x /\ x <= b[3] /\ b[2] <= y /\ y <= b[4] => <<<<x, y>>, f.net>> \in Marks(sh.comps[j])
  <2>1. GridPart(sh.comps[j], ox, oy)
    BY DEF SheetOn
  <2> DEFINE B == Body(sh.comps[j], q)
  <2>2. /\ Ints(B) /\ B[1] <= B[3] /\ B[2] <= B[4] /\ Lattice(B[1], ox) /\ Lattice(B[2], oy)
        /\ \A k, m \in Int : LET x == ox + 127 * k  y == oy + 127 * m IN
             B[1] <= x /\ x <= B[3] /\ B[2] <= y /\ y <= B[4]
               => <<<<x, y>>, Net(sh.comps[j], q)>> \in Marks(sh.comps[j])
    BY <2>1, Sampled
  <2> HIDE DEF B
  <2> QED
    BY <1>5, <2>2 DEF B
<1>8. a[1] <= b[3] /\ b[1] <= a[3] /\ a[2] <= b[4] /\ b[2] <= a[4]
  BY DEF Meet
<1> HIDE DEF a, b
<1>9. PICK k \in Int : LET x == ox + 127 * k IN a[1] <= x /\ x <= a[3] /\ b[1] <= x /\ x <= b[3]
  <2>1. PICK g \in Int : a[1] = ox + 127 * g
    BY <1>6 DEF Lattice
  <2>2. PICK h \in Int : b[1] = ox + 127 * h
    BY <1>7 DEF Lattice
  <2>3. CASE a[1] <= b[1]
    BY <1>6, <1>7, <1>8, <2>2, <2>3 DEF Ints
  <2>4. CASE b[1] <= a[1]
    BY <1>6, <1>7, <1>8, <2>1, <2>4 DEF Ints
  <2> QED
    BY <1>6, <1>7, <2>3, <2>4 DEF Ints
<1>10. PICK m \in Int : LET y == oy + 127 * m IN a[2] <= y /\ y <= a[4] /\ b[2] <= y /\ y <= b[4]
  <2>1. PICK g \in Int : a[2] = oy + 127 * g
    BY <1>6 DEF Lattice
  <2>2. PICK h \in Int : b[2] = oy + 127 * h
    BY <1>7 DEF Lattice
  <2>3. CASE a[2] <= b[2]
    BY <1>6, <1>7, <1>8, <2>2, <2>3 DEF Ints
  <2>4. CASE b[2] <= a[2]
    BY <1>6, <1>7, <1>8, <2>1, <2>4 DEF Ints
  <2> QED
    BY <1>6, <1>7, <2>3, <2>4 DEF Ints
<1> DEFINE pt == <<ox + 127 * k, oy + 127 * m>>
<1>11. <<pt, e.net>> \in Marks(sh.comps[i]) /\ <<pt, f.net>> \in Marks(sh.comps[j])
  BY <1>6, <1>7, <1>9, <1>10
<1> HIDE DEF pt
<1> DEFINE occ == UNION {Marks(sh.comps[h]) : h \in DOMAIN sh.comps}
           n == <<pt, e.net>>  o == <<pt, f.net>>
<1>12. n \in occ /\ o \in occ
  BY <1>11
<1>13. n[1] = pt /\ o[1] = n[1] /\ o[2] # n[2]
  OBVIOUS
<1> HIDE DEF n, o, occ
<1>14. pt \in {h[1] : h \in {g \in occ : \E r \in occ : r[1] = g[1] /\ r[2] # g[2]}}
  BY <1>12, <1>13
<1> QED
  BY <1>14 DEF check, occ

-----------------------------------------------------------------------------
(* autofit() moves all parts alike.                                        *)

SamePart(c, e) ==
  c.lib = e.lib /\ c.unit = e.unit /\ c.nets = e.nets /\ c.stub = e.stub

MovedPart(c, e, dx, dy) == SamePart(c, e) /\ c.x = e.x + dx /\ c.y = e.y + dy

\* The points autofit() looks at are numbers, and finitely many.
PartPts(c, gnets) ==
  {<<c.x + 300, c.y - 300>>} \cup {pin_xy(c, p) : p \in pins(c)}
  \cup UNION {{Shift(LabelXY(c, p, UseStub(c)), <<s, 0>>, Reach(gnets, Net(c, p))) : s \in {-1, 1}} :
                p \in Netted(c)}

LEMMA ContentIs ==
  ASSUME NEW comps, NEW gnets
  PROVE  content_pts(comps, gnets) = UNION {PartPts(comps[i], gnets) : i \in DOMAIN comps}
  BY DEF content_pts, PartPts

TextXY(c, p, gnets, s) == Shift(LabelXY(c, p, UseStub(c)), <<s, 0>>, Reach(gnets, Net(c, p)))

Lengths(c) == \A p \in DOMAIN c.nets : Len(c.nets[p]) \in Nat

LEMMA TextNumbers ==
  ASSUME NEW c, NEW gnets, c.lib \in DOMAIN Lib, c.x \in Int, c.y \in Int, Lengths(c),
         NEW p \in Netted(c), NEW s \in {-1, 0, 1}
  PROVE  LET l == LabelXY(c, p, UseStub(c))  r == Reach(gnets, Net(c, p)) IN
         /\ l[1] \in Int /\ l[2] \in Int /\ r \in Nat
         /\ TextXY(c, p, gnets, s) = <<l[1] + r * s, l[2]>>
<1> DEFINE l == LabelXY(c, p, UseStub(c))  r == Reach(gnets, Net(c, p))
<1>1. p \in pins(c) /\ p.x \in Int /\ p.y \in Int /\ p.ang \in {0, 90, 180, 270}
  <2>1. p \in pins(c)
    BY DEF Netted
  <2>3. \A q \in pins(c) : OnGrid(q.x) /\ OnGrid(q.y) /\ q.ang \in {0, 90, 180, 270}
    BY PinFacts
  <2>2. OnGrid(p.x) /\ OnGrid(p.y) /\ p.ang \in {0, 90, 180, 270}
    BY <2>1, <2>3
  <2> QED
    BY <2>1, <2>2 DEF OnGrid
<1>2. LET xy == pin_xy(c, p) IN xy[1] \in Int /\ xy[2] \in Int
  BY <1>1 DEF pin_xy
<1>3. LET d == Outward(p) IN d[1] \in Int /\ d[2] \in Int
  BY <1>1 DEF Outward
<1>4. l[1] \in Int /\ l[2] \in Int
  <2> DEFINE xy == pin_xy(c, p)  d == Outward(p)
  <2>1. l = IF UseStub(c) THEN <<xy[1] + 254 * d[1], xy[2] + 254 * d[2]>> ELSE xy
    BY DEF LabelXY, Shift, STUB
  <2> HIDE DEF l, xy, d
  <2> QED
    BY <1>2, <1>3, <2>1 DEF xy, d
<1>5. r \in Nat
  <2>1. Len(Net(c, p)) \in Nat
    BY DEF Netted, Net, Lengths
  <2> QED
    BY <2>1 DEF Reach
<1>6. TextXY(c, p, gnets, s) = <<l[1] + r * s, l[2] + r * 0>>
  BY DEF TextXY, Shift
<1> HIDE DEF l, r
<1>7. TextXY(c, p, gnets, s) = <<l[1] + r * s, l[2]>>
  BY <1>4, <1>5, <1>6
<1> QED
  BY <1>4, <1>5, <1>7 DEF l, r

LEMMA PartPtsFinite ==
  ASSUME NEW c, NEW gnets, c.lib \in DOMAIN Lib, c.x \in Int, c.y \in Int, Lengths(c)
  PROVE  /\ IsFiniteSet(PartPts(c, gnets)) /\ PartPts(c, gnets) # {}
         /\ \A q \in PartPts(c, gnets) : q[1] \in Int /\ q[2] \in Int
<1> DEFINE T(p) == {TextXY(c, p, gnets, s) : s \in {-1, 1}}
           A == {pin_xy(c, p) : p \in pins(c)}  B == UNION {T(p) : p \in Netted(c)}
           o == <<c.x + 300, c.y - 300>>
<1>1. PartPts(c, gnets) = {o} \cup A \cup B
  BY DEF PartPts, TextXY
<1>2. IsFiniteSet(A)
  <2> DEFINE f == [p \in pins(c) |-> pin_xy(c, p)]
  <2>1. IsFiniteSet(DOMAIN f) /\ A = {f[p] : p \in DOMAIN f}
    BY PinFacts
  <2> HIDE DEF f
  <2> QED
    BY <2>1, FiniteRange
<1>3. IsFiniteSet(B)
  <2> DEFINE f == [p \in Netted(c) |-> T(p)]
  <2>1. IsFiniteSet(DOMAIN f) /\ B = UNION {f[p] : p \in DOMAIN f}
    <3>1. IsFiniteSet(Netted(c))
      <4>1. Netted(c) \in SUBSET pins(c) /\ IsFiniteSet(pins(c))
        BY PinFacts DEF Netted
      <4> QED
        BY <4>1, FS_Subset
    <3> QED
      BY <3>1
  <2>2. \A p \in DOMAIN f : IsFiniteSet(f[p])
    <3> SUFFICES ASSUME NEW p \in Netted(c) PROVE IsFiniteSet(T(p))
      OBVIOUS
    <3> DEFINE u == TextXY(c, p, gnets, -1)  v == TextXY(c, p, gnets, 1)
    <3>1. T(p) = {u, v}
      OBVIOUS
    <3> HIDE DEF u, v, T
    <3> QED
      BY <3>1, PairCard
  <2> HIDE DEF f, T
  <2>3. IsFiniteSet({f[p] : p \in DOMAIN f})
    BY <2>1, FiniteRange
  <2> QED
    BY <2>1, <2>2, <2>3, FS_UNION
<1>4. IsFiniteSet({o})
  <2> HIDE DEF o
  <2> QED
    BY FS_Singleton
<1>5. \A q \in A : q[1] \in Int /\ q[2] \in Int
  <2>1. \A p \in pins(c) : OnGrid(p.x) /\ OnGrid(p.y)
    BY PinFacts
  <2>2. \A p \in pins(c) : p.x \in Int /\ p.y \in Int
    BY <2>1 DEF OnGrid
  <2> QED
    BY <2>2 DEF pin_xy
<1>6. \A q \in B : q[1] \in Int /\ q[2] \in Int
  <2> SUFFICES ASSUME NEW p \in Netted(c), NEW s \in {-1, 1}
               PROVE  TextXY(c, p, gnets, s)[1] \in Int /\ TextXY(c, p, gnets, s)[2] \in Int
    OBVIOUS
  <2> DEFINE l == LabelXY(c, p, UseStub(c))  r == Reach(gnets, Net(c, p))
  <2>1. l[1] \in Int /\ l[2] \in Int /\ r \in Nat /\ TextXY(c, p, gnets, s) = <<l[1] + r * s, l[2]>>
    BY TextNumbers
  <2> HIDE DEF l, r
  <2>2. r * s \in Int
    BY <2>1
  <2> QED
    BY <2>1, <2>2
<1>7. o[1] \in Int /\ o[2] \in Int
  OBVIOUS
<1> HIDE DEF o, A, B
<1>8. IsFiniteSet({o} \cup A \cup B)
  BY <1>2, <1>3, <1>4, FS_Union
<1> QED
  BY <1>1, <1>5, <1>6, <1>7, <1>8

LEMMA ContentFinite ==
  ASSUME NEW comps, NEW gnets, Placeable(comps)
  PROVE  LET pts == content_pts(comps, gnets) IN
         /\ IsFiniteSet(pts) /\ (pts = {} <=> DOMAIN comps = {})
         /\ \A q \in pts : q[1] \in Int /\ q[2] \in Int
<1> DEFINE f == [i \in DOMAIN comps |-> PartPts(comps[i], gnets)]
<1>1. content_pts(comps, gnets) = UNION {f[i] : i \in DOMAIN f}
  BY ContentIs
<1>2. ASSUME NEW i \in DOMAIN f
      PROVE  /\ IsFiniteSet(f[i]) /\ f[i] # {}
             /\ \A q \in f[i] : q[1] \in Int /\ q[2] \in Int
  <2>1. i \in DOMAIN comps
    OBVIOUS
  <2>2. /\ comps[i].lib \in DOMAIN Lib /\ comps[i].x \in Int /\ comps[i].y \in Int
        /\ Lengths(comps[i])
    BY <2>1 DEF Placeable, Lengths
  <2> QED
    BY <2>1, <2>2, PartPtsFinite
<1>3. IsFiniteSet(DOMAIN f) /\ DOMAIN f = DOMAIN comps
  BY DEF Placeable
<1> HIDE DEF f
<1>4. IsFiniteSet({f[i] : i \in DOMAIN f})
  BY <1>3, FiniteRange
<1>5. IsFiniteSet(UNION {f[i] : i \in DOMAIN f})
  BY <1>2, <1>4, FS_UNION
<1>6. UNION {f[i] : i \in DOMAIN f} = {} <=> DOMAIN comps = {}
  BY <1>2, <1>3
<1>7. \A q \in UNION {f[i] : i \in DOMAIN f} : q[1] \in Int /\ q[2] \in Int
  BY <1>2
<1> QED
  BY <1>1, <1>5, <1>6, <1>7

Sheet(comps, gnets) == [comps |-> comps, gnets |-> gnets, paper |-> "A0"]
DX(comps, gnets) == MARGIN_FRAME - Min({q[1] : q \in content_pts(comps, gnets)})
DY(comps, gnets) == MARGIN_FRAME - Min({q[2] : q \in content_pts(comps, gnets)})

LEMMA Fitted ==
  ASSUME NEW comps, NEW gnets, Placeable(comps), DOMAIN comps # {}
  PROVE  LET sh == autofit(Sheet(comps, gnets)) IN
         /\ sh.gnets = gnets /\ DOMAIN sh.comps = DOMAIN comps
         /\ sh.paper = PaperFor(Extent(content_pts(comps, gnets)))[1]
         /\ \A i \in DOMAIN comps :
              MovedPart(sh.comps[i], comps[i], DX(comps, gnets), DY(comps, gnets))
<1> DEFINE sh == Sheet(comps, gnets)  dx == DX(comps, gnets)  dy == DY(comps, gnets)
           pts == content_pts(comps, gnets)
           new == [i \in DOMAIN comps |-> [comps[i] EXCEPT !.x = @ + dx, !.y = @ + dy]]
           paper == PaperFor(Extent(pts))[1]
<1>1. pts # {}
  BY ContentFinite
<1>2. autofit(sh) = [sh EXCEPT !.paper = paper, !.comps = new]
  <2>1. sh.comps = comps /\ sh.gnets = gnets
    BY DEF Sheet
  <2> HIDE DEF sh
  <2> QED
    BY <1>1, <2>1 DEF autofit, DX, DY
<1> HIDE DEF paper
<1>3. autofit(sh) = [comps |-> new, gnets |-> gnets, paper |-> paper]
  BY <1>2 DEF Sheet
<1>4. ASSUME NEW i \in DOMAIN comps PROVE MovedPart(new[i], comps[i], dx, dy)
  <2> DEFINE c == comps[i]
  <2>1. DOMAIN c = {"lib", "ref", "x", "y", "nets", "fp", "unit", "stub", "nc"}
    BY DEF Placeable
  <2>2. new[i] = [c EXCEPT !.x = @ + dx, !.y = @ + dy]
    OBVIOUS
  <2> HIDE DEF c, new, dx, dy
  <2>3. MovedPart(new[i], c, dx, dy)
    BY <2>1, <2>2 DEF MovedPart, SamePart
  <2> QED
    BY <2>3 DEF c
<1>5. DOMAIN new = DOMAIN comps
  OBVIOUS
<1> HIDE DEF new, sh
<1> QED
  BY <1>3, <1>4, <1>5 DEF sh, paper

LEMMA ShiftIsWhole ==
  ASSUME NEW comps, NEW gnets, Placeable(comps), DOMAIN comps # {}
  PROVE  LET pts == content_pts(comps, gnets)
             xs == {q[1] : q \in pts}  ys == {q[2] : q \in pts} IN
         /\ Min(xs) \in Int /\ Max(xs) \in Int /\ Min(ys) \in Int /\ Max(ys) \in Int
         /\ \A q \in pts : /\ Min(xs) <= q[1] /\ q[1] <= Max(xs)
                           /\ Min(ys) <= q[2] /\ q[2] <= Max(ys)
         /\ DX(comps, gnets) \in Int /\ DY(comps, gnets) \in Int
<1> DEFINE pts == content_pts(comps, gnets)
           xs == {q[1] : q \in pts}  ys == {q[2] : q \in pts}
<1>1. IsFiniteSet(pts) /\ pts # {} /\ \A q \in pts : q[1] \in Int /\ q[2] \in Int
  BY ContentFinite
<1> HIDE DEF pts
<1>2. IsFiniteSet(xs) /\ xs \subseteq Int /\ xs # {}
  <2> DEFINE f == [q \in pts |-> q[1]]
  <2>1. IsFiniteSet(DOMAIN f) /\ xs = {f[q] : q \in DOMAIN f}
    BY <1>1
  <2> HIDE DEF f
  <2>2. IsFiniteSet(xs)
    BY <2>1, FiniteRange
  <2> QED
    BY <1>1, <2>2
<1>3. IsFiniteSet(ys) /\ ys \subseteq Int /\ ys # {}
  <2> DEFINE f == [q \in pts |-> q[2]]
  <2>1. IsFiniteSet(DOMAIN f) /\ ys = {f[q] : q \in DOMAIN f}
    BY <1>1
  <2> HIDE DEF f
  <2>2. IsFiniteSet(ys)
    BY <2>1, FiniteRange
  <2> QED
    BY <1>1, <2>2
<1>4. \A q \in pts : q[1] \in xs /\ q[2] \in ys
  OBVIOUS
<1>5. DX(comps, gnets) = 2500 - Min(xs) /\ DY(comps, gnets) = 2500 - Min(ys)
  BY DEF DX, DY, MARGIN_FRAME, pts
<1> HIDE DEF xs, ys
<1>6. /\ Max(xs) \in xs /\ \A y \in xs : y <= Max(xs)
      /\ Min(xs) \in xs /\ \A y \in xs : Min(xs) <= y
  BY <1>2, Extremes
<1>7. /\ Max(ys) \in ys /\ \A y \in ys : y <= Max(ys)
      /\ Min(ys) \in ys /\ \A y \in ys : Min(ys) <= y
  BY <1>3, Extremes
<1>8. Min(xs) \in Int /\ Max(xs) \in Int /\ Min(ys) \in Int /\ Max(ys) \in Int
  BY <1>2, <1>3, <1>6, <1>7
<1>9. \A q \in pts : /\ Min(xs) <= q[1] /\ q[1] <= Max(xs)
                     /\ Min(ys) <= q[2] /\ q[2] <= Max(ys)
  BY <1>4, <1>6, <1>7
<1>10. DX(comps, gnets) \in Int /\ DY(comps, gnets) \in Int
  BY <1>5, <1>8
<1> QED
  BY <1>8, <1>9, <1>10 DEF xs, ys, pts

\* What is drawn for a part that was moved.
LEMMA MovedDrawing ==
  ASSUME NEW c, NEW e, NEW dx \in Int, NEW dy \in Int, MovedPart(c, e, dx, dy)
  PROVE  /\ pins(c) = pins(e) /\ Netted(c) = Netted(e) /\ UseStub(c) = UseStub(e)
         /\ \A p : Net(c, p) = Net(e, p)
<1>1. pins(c) = pins(e)
  BY DEF pins, MovedPart, SamePart
<1>2. \A p : Net(c, p) = Net(e, p)
  BY DEF Net, MovedPart, SamePart
<1> QED
  BY <1>1, <1>2 DEF Netted, UseStub, MovedPart, SamePart

Follows(c, e, gnets, dx, dy) ==
  /\ \A p \in pins(e) : pin_xy(c, p) = <<pin_xy(e, p)[1] + dx, pin_xy(e, p)[2] + dy>>
  /\ \A p \in Netted(e) : \A s \in {-1, 0, 1} :
       TextXY(c, p, gnets, s) = <<TextXY(e, p, gnets, s)[1] + dx, TextXY(e, p, gnets, s)[2] + dy>>

LEMMA Sums ==
  ASSUME NEW a \in Int, NEW b \in Int, NEW d \in Int, NEW e, e = a + d
  PROVE  e + b = a + b + d /\ e - b = a - b + d
  OBVIOUS

LEMMA MovedPoints ==
  ASSUME NEW c, NEW e, NEW dx \in Int, NEW dy \in Int, MovedPart(c, e, dx, dy),
         e.lib \in DOMAIN Lib, e.x \in Int, e.y \in Int, Lengths(e), NEW gnets
  PROVE  Follows(c, e, gnets, dx, dy)
<1>1. /\ c.lib \in DOMAIN Lib /\ c.x = e.x + dx /\ c.y = e.y + dy /\ c.nets = e.nets
  BY DEF MovedPart, SamePart
<1>2. c.x \in Int /\ c.y \in Int /\ Lengths(c)
  BY <1>1 DEF Lengths
<1>3. ASSUME NEW p \in pins(e)
      PROVE  /\ pin_xy(e, p)[1] \in Int /\ pin_xy(e, p)[2] \in Int
             /\ pin_xy(c, p) = <<pin_xy(e, p)[1] + dx, pin_xy(e, p)[2] + dy>>
  <2>1. p.x \in Int /\ p.y \in Int
    BY PinFacts DEF OnGrid
  <2>3. e.x + p.x \in Int /\ e.y - p.y \in Int
    BY <2>1
  <2>4. pin_xy(e, p) = <<e.x + p.x, e.y - p.y>>
    BY DEF pin_xy
  <2>5. pin_xy(c, p) = <<c.x + p.x, c.y - p.y>>
    BY DEF pin_xy
  <2> DEFINE x == e.x + p.x  y == e.y - p.y
  <2>6. c.x + p.x = x + dx /\ c.y - p.y = y + dy /\ x \in Int /\ y \in Int
    BY <1>1, <2>1, <2>3, Sums
  <2> HIDE DEF x, y
  <2>7. pin_xy(e, p)[1] = x /\ pin_xy(e, p)[2] = y
    BY <2>4 DEF x, y
  <2> QED
    BY <2>5, <2>6, <2>7
<1>4. ASSUME NEW p \in Netted(e), NEW s \in {-1, 0, 1}
      PROVE  TextXY(c, p, gnets, s) = <<TextXY(e, p, gnets, s)[1] + dx, TextXY(e, p, gnets, s)[2] + dy>>
  <2> DEFINE l == LabelXY(e, p, UseStub(e))  m == LabelXY(c, p, UseStub(c))
             r == Reach(gnets, Net(e, p))    x == pin_xy(e, p)  d == Outward(p)
  <2>1. p \in pins(e) /\ p \in Netted(c)
    BY MovedDrawing DEF Netted
  <2>2. x[1] \in Int /\ x[2] \in Int /\ pin_xy(c, p) = <<x[1] + dx, x[2] + dy>>
    BY <1>3, <2>1
  <2>3. d[1] \in Int /\ d[2] \in Int
    <3>1. p.ang \in {0, 90, 180, 270}
      BY <2>1, PinFacts
    <3> QED
      BY <3>1 DEF Outward
  <2>4. l[1] \in Int /\ l[2] \in Int /\ r \in Nat /\ TextXY(e, p, gnets, s) = <<l[1] + r * s, l[2]>>
    BY TextNumbers
  <2>5. TextXY(c, p, gnets, s) = <<m[1] + r * s, m[2]>>
    <3>1. Reach(gnets, Net(c, p)) = r
      BY MovedDrawing
    <3> QED
      BY <1>1, <1>2, <2>1, <3>1, TextNumbers
  <2>6. m[1] = l[1] + dx /\ m[2] = l[2] + dy
    <3>1. l = IF UseStub(e) THEN <<x[1] + 254 * d[1], x[2] + 254 * d[2]>> ELSE x
      BY DEF LabelXY, Shift, STUB
    <3>2. m = IF UseStub(e) THEN <<pin_xy(c, p)[1] + 254 * d[1], pin_xy(c, p)[2] + 254 * d[2]>>
              ELSE pin_xy(c, p)
      BY MovedDrawing DEF LabelXY, Shift, STUB
    <3> HIDE DEF l, m, x, d
    <3>3. m = IF UseStub(e) THEN <<x[1] + dx + 254 * d[1], x[2] + dy + 254 * d[2]>>
              ELSE <<x[1] + dx, x[2] + dy>>
      BY <2>2, <3>2
    <3>4. CASE UseStub(e)
      BY <2>2, <2>3, <3>1, <3>3, <3>4
    <3>5. CASE ~UseStub(e)
      BY <2>2, <3>1, <3>3, <3>5
    <3> QED
      BY <3>4, <3>5
  <2> HIDE DEF l, m, r
  <2>7. r * s \in Int
    BY <2>4
  <2>8. m[1] + r * s = l[1] + r * s + dx
    BY <2>4, <2>6, <2>7
  <2> QED
    BY <2>4, <2>5, <2>6, <2>8
<1> QED
  BY <1>3, <1>4 DEF Follows

-----------------------------------------------------------------------------
(* The frame.                                                              *)

LEMMA PaperNamed ==
  ASSUME NEW k \in 1 .. 5
  PROVE  PaperSize(PAPERS[k][1]) = <<PAPERS[k][2], PAPERS[k][3]>>
<1>1. DOMAIN PAPERS = 1 .. 5
  BY DEF PAPERS
<1>2. /\ PAPERS[1][1] = "A4" /\ PAPERS[2][1] = "A3" /\ PAPERS[3][1] = "A2"
      /\ PAPERS[4][1] = "A1" /\ PAPERS[5][1] = "A0"
  BY DEF PAPERS
<1>3. \A j \in 1 .. 5 : PAPERS[j][1] = PAPERS[k][1] => j = k
  BY <1>2
<1>4. (CHOOSE j \in DOMAIN PAPERS : PAPERS[j][1] = PAPERS[k][1]) = k
  BY <1>1, <1>3
<1> QED
  BY <1>4 DEF PaperSize

LEMMA PaperSizes ==
  /\ DOMAIN PAPERS = 1 .. 5
  /\ \A k \in 1 .. 5 : PAPERS[k][2] \in Int /\ PAPERS[k][3] \in Int
  /\ Len(PAPERS) = 5
BY SMT DEF PAPERS

LEMMA LeastOfFive ==
  ASSUME NEW S, S \subseteq 1 .. 5, S # {}
  PROVE  Min(S) \in S
<1>1. IsFiniteSet(1 .. 5)
  <2>1. \A a, b \in Int : IsFiniteSet(a .. b)
    BY FS_Interval, Zenon
  <2>2. 1 \in Int /\ 5 \in Int
    OBVIOUS
  <2> QED
    BY <2>1, <2>2, Zenon
<1>2. IsFiniteSet(S)
  BY <1>1, FS_Subset, Zenon
<1>3. S \subseteq Int
  BY SMT
<1> QED
  BY <1>2, <1>3, Extremes, Zenon

LEMMA FirstFit ==
  ASSUME NEW w \in Int, NEW h \in Int, w <= PAPERS[5][2], h <= PAPERS[5][3],
         NEW fits, fits = {k \in DOMAIN PAPERS : w <= PAPERS[k][2] /\ h <= PAPERS[k][3]}
  PROVE  fits # {} /\ Min(fits) \in fits
<1>1. 5 \in fits /\ fits \subseteq 1 .. 5
  BY PaperSizes, SMT
<1> QED
  BY <1>1, LeastOfFive, Zenon

LEMMA PaperFits ==
  ASSUME NEW size, size[1] \in Int, size[2] \in Int, size[1] <= PAPERS[5][2], size[2] <= PAPERS[5][3]
  PROVE  \E k \in 1 .. 5 : /\ PaperFor(size) = PAPERS[k]
                           /\ size[1] <= PAPERS[k][2] /\ size[2] <= PAPERS[k][3]
                           /\ PAPERS[k][2] \in Int /\ PAPERS[k][3] \in Int
<1>1. PICK fits : fits = {k \in DOMAIN PAPERS : size[1] <= PAPERS[k][2] /\ size[2] <= PAPERS[k][3]}
  OBVIOUS
<1>2. fits # {} /\ Min(fits) \in fits
  BY <1>1, FirstFit
<1>3. PaperFor(size) = PAPERS[Min(fits)]
  BY <1>1, <1>2, Zenon DEF PaperFor
<1>4. PICK k : k = Min(fits)
  OBVIOUS
<1>5. k \in 1 .. 5 /\ size[1] <= PAPERS[k][2] /\ size[2] <= PAPERS[k][3]
  BY <1>1, <1>2, <1>4, PaperSizes, Zenon
<1> QED
  BY <1>3, <1>4, <1>5, PaperSizes, Zenon

\* autofit() takes one of the papers, the largest where none is large enough.
LEMMA PaperKnown ==
  ASSUME NEW size
  PROVE  \E k \in 1 .. 5 : PaperFor(size) = PAPERS[k]
<1>1. PICK fits : fits = {k \in DOMAIN PAPERS : size[1] <= PAPERS[k][2] /\ size[2] <= PAPERS[k][3]}
  OBVIOUS
<1>2. fits \subseteq 1 .. 5
  BY <1>1, PaperSizes
<1>3. CASE fits = {}
  <2>1. PaperFor(size) = PAPERS[5]
    BY <1>1, <1>3, PaperSizes, Zenon DEF PaperFor
  <2> QED
    BY <2>1
<1>4. CASE fits # {}
  <2>1. Min(fits) \in fits
    BY <1>2, <1>4, LeastOfFive
  <2>2. PaperFor(size) = PAPERS[Min(fits)]
    BY <1>1, <1>4, Zenon DEF PaperFor
  <2> QED
    BY <1>2, <2>1, <2>2
<1> QED
  BY <1>3, <1>4

\* A text that is no longer than the margin is wide, from a label inside the frame, is on the
\* paper whichever way it runs.
LEMMA NearFrame ==
  ASSUME NEW l, l[1] \in Int, l[2] \in Int, NEW d, d[1] \in {-1, 0, 1}, d[2] \in {-1, 0, 1},
         NEW r \in Nat, r <= MARGIN_FRAME, NEW k \in 1 .. 5, InFrame(l, PAPERS[k][1])
  PROVE  OnPaper(Shift(l, d, r), PAPERS[k][1])
<1> DEFINE w == PAPERS[k][2]  h == PAPERS[k][3]  t == Shift(l, d, r)
<1>1. PaperSize(PAPERS[k][1])[1] = w /\ PaperSize(PAPERS[k][1])[2] = h /\ w \in Int /\ h \in Int
  <2>1. PaperSize(PAPERS[k][1]) = <<w, h>>
    BY PaperNamed
  <2> QED
    BY <2>1, PaperSizes
<1>2. /\ 2500 <= l[1] /\ l[1] <= w - 2500
      /\ 2500 <= l[2] /\ l[2] <= h - 2500 - 3500
  BY <1>1 DEF InFrame, MARGIN_FRAME, TITLE_ALLOW
<1>3. t[1] = l[1] + r * d[1] /\ t[2] = l[2] + r * d[2]
  BY DEF Shift
<1> HIDE DEF w, h, t
<1>4. t[1] \in {l[1] - r, l[1], l[1] + r} /\ t[2] \in {l[2] - r, l[2], l[2] + r}
  BY <1>3
<1>5. r <= 2500
  BY DEF MARGIN_FRAME
<1>6. 0 <= t[1] /\ t[1] <= w /\ 0 <= t[2] /\ t[2] <= h
  BY <1>1, <1>2, <1>4, <1>5
<1> QED
  BY <1>1, <1>6 DEF OnPaper, t

\* All of a part's pins and texts lie between the extremes of the content.
LEMMA Between ==
  ASSUME NEW comps, NEW gnets, Placeable(comps), NEW i \in DOMAIN comps, NEW p \in pins(comps[i]),
         NEW q, \/ q = pin_xy(comps[i], p)
                \/ p \in Netted(comps[i]) /\ \E s \in {-1, 0, 1} : q = TextXY(comps[i], p, gnets, s)
  PROVE  LET pts == content_pts(comps, gnets)
             xs == {r[1] : r \in pts}  ys == {r[2] : r \in pts} IN
         /\ q[1] \in Int /\ q[2] \in Int
         /\ Min(xs) <= q[1] /\ q[1] <= Max(xs) /\ Min(ys) <= q[2] /\ q[2] <= Max(ys)
<1> DEFINE pts == content_pts(comps, gnets)  e == comps[i]
           x0 == Min({r[1] : r \in pts})  x1 == Max({r[1] : r \in pts})
           y0 == Min({r[2] : r \in pts})  y1 == Max({r[2] : r \in pts})
<1>1. /\ x0 \in Int /\ x1 \in Int /\ y0 \in Int /\ y1 \in Int
      /\ \A r \in pts : x0 <= r[1] /\ r[1] <= x1 /\ y0 <= r[2] /\ r[2] <= y1
  BY ShiftIsWhole
<1>2. \A r \in pts : r[1] \in Int /\ r[2] \in Int
  BY ContentFinite
<1>3. e.lib \in DOMAIN Lib /\ e.x \in Int /\ e.y \in Int /\ Lengths(e)
  BY DEF Placeable, Lengths
<1>4. PartPts(e, gnets) \subseteq pts
  BY ContentIs
<1> HIDE DEF pts, x0, x1, y0, y1, e
<1>5. CASE q = pin_xy(e, p)
  <2>1. q \in pts
    BY <1>4, <1>5 DEF PartPts, e
  <2> QED
    BY <1>1, <1>2, <2>1 DEF x0, x1, y0, y1, pts
<1>6. ASSUME p \in Netted(e), NEW s \in {-1, 0, 1}, q = TextXY(e, p, gnets, s)
      PROVE  /\ q[1] \in Int /\ q[2] \in Int
             /\ x0 <= q[1] /\ q[1] <= x1 /\ y0 <= q[2] /\ q[2] <= y1
  <2> DEFINE l == LabelXY(e, p, UseStub(e))  r == Reach(gnets, Net(e, p))
             u == TextXY(e, p, gnets, -1)  v == TextXY(e, p, gnets, 1)
  <2>1. /\ l[1] \in Int /\ l[2] \in Int /\ r \in Nat
        /\ u = <<l[1] + r * (-1), l[2]>> /\ v = <<l[1] + r * 1, l[2]>> /\ q = <<l[1] + r * s, l[2]>>
    BY <1>3, <1>6, TextNumbers
  <2>2. u \in pts /\ v \in pts
    BY <1>4, <1>6 DEF PartPts, TextXY
  <2> HIDE DEF l, r, u, v
  <2>3. u[1] = l[1] - r /\ v[1] = l[1] + r /\ u[2] = l[2] /\ q[2] = l[2]
    BY <2>1
  <2>4. q[1] \in {l[1] - r, l[1], l[1] + r}
    BY <1>6, <2>1
  <2> QED
    BY <1>1, <2>1, <2>2, <2>3, <2>4
<1> QED
  BY <1>5, <1>6 DEF e, x0, x1, y0, y1, pts

\* The drawing moved by autofit() lies inside the frame of the paper it chose.
LEMMA Framing ==
  ASSUME NEW comps, NEW gnets, Placeable(comps), DOMAIN comps # {},
         Extent(content_pts(comps, gnets))[1] <= PAPERS[5][2],
         Extent(content_pts(comps, gnets))[2] <= PAPERS[5][3],
         NEW i \in DOMAIN comps, NEW p \in pins(comps[i]),
         NEW q, \/ q = pin_xy(comps[i], p)
                \/ p \in Netted(comps[i]) /\ \E s \in {-1, 0, 1} : q = TextXY(comps[i], p, gnets, s)
  PROVE  InFrame(<<q[1] + DX(comps, gnets), q[2] + DY(comps, gnets)>>,
                 PaperFor(Extent(content_pts(comps, gnets)))[1])
<1> DEFINE pts == content_pts(comps, gnets)  size == Extent(pts)
           x0 == Min({r[1] : r \in pts})  x1 == Max({r[1] : r \in pts})
           y0 == Min({r[2] : r \in pts})  y1 == Max({r[2] : r \in pts})
           dx == DX(comps, gnets)  dy == DY(comps, gnets)
<1>1. x0 \in Int /\ x1 \in Int /\ y0 \in Int /\ y1 \in Int
  BY ShiftIsWhole
<1>2. /\ q[1] \in Int /\ q[2] \in Int
      /\ x0 <= q[1] /\ q[1] <= x1 /\ y0 <= q[2] /\ q[2] <= y1
  BY Between
<1>3. dx = 2500 - x0 /\ dy = 2500 - y0
  BY DEF DX, DY, MARGIN_FRAME
<1>4. size = <<x1 - x0 + 2 * 2500, y1 - y0 + 2 * 2500 + 3500>>
  BY DEF Extent, MARGIN_FRAME, TITLE_ALLOW
<1> HIDE DEF x0, x1, y0, y1, dx, dy
<1>5. size[1] = x1 - x0 + 5000 /\ size[2] = y1 - y0 + 8500
  BY <1>1, <1>4
<1> HIDE DEF size, pts
<1>6. size[1] \in Int /\ size[2] \in Int
  BY <1>1, <1>5
<1>7. PICK k \in 1 .. 5 : /\ PaperFor(size) = PAPERS[k]
                         /\ size[1] <= PAPERS[k][2] /\ size[2] <= PAPERS[k][3]
                         /\ PAPERS[k][2] \in Int /\ PAPERS[k][3] \in Int
  BY <1>6, PaperFits DEF size, pts
<1> DEFINE paper == PaperFor(size)[1]
<1>8. PaperSize(paper)[1] = PAPERS[k][2] /\ PaperSize(paper)[2] = PAPERS[k][3]
  <2>1. PaperSize(paper) = <<PAPERS[k][2], PAPERS[k][3]>>
    BY <1>7, PaperNamed
  <2> QED
    BY <2>1
<1> HIDE DEF paper
<1>9. /\ 2500 <= q[1] + dx /\ q[1] + dx <= PAPERS[k][2] - 2500
      /\ 2500 <= q[2] + dy /\ q[2] + dy <= PAPERS[k][3] - 2500 - 3500
  BY <1>1, <1>2, <1>3, <1>5, <1>7, SMT
<1> DEFINE spot == <<q[1] + dx, q[2] + dy>>
<1>10. spot[1] = q[1] + dx /\ spot[2] = q[2] + dy
  OBVIOUS
<1> HIDE DEF spot
<1>11. /\ MARGIN_FRAME <= spot[1] /\ spot[1] <= PAPERS[k][2] - MARGIN_FRAME
       /\ MARGIN_FRAME <= spot[2] /\ spot[2] <= PAPERS[k][3] - MARGIN_FRAME - TITLE_ALLOW
  BY <1>9, <1>10 DEF MARGIN_FRAME, TITLE_ALLOW
<1>12. InFrame(spot, paper)
  BY <1>8, <1>11, Zenon DEF InFrame
<1> QED
  BY <1>12 DEF spot, dx, dy, paper, size, pts

\* What Framed asks of a label, from the points autofit() looks at.
TextsHold(c, p, gnets, paper) ==
  /\ InFrame(LabelXY(c, p, UseStub(c)), paper)
  /\ p.ang \in {0, 180} => InFrame(TextEnd(c, p, gnets), paper)
  /\ Reach(gnets, Net(c, p)) <= MARGIN_FRAME => OnPaper(TextEnd(c, p, gnets), paper)

LEMMA TextsFramed ==
  ASSUME NEW c, NEW gnets, c.lib \in DOMAIN Lib, c.x \in Int, c.y \in Int, Lengths(c),
         NEW p \in Netted(c), NEW k \in 1 .. 5, NEW paper, paper = PAPERS[k][1],
         \A s \in {-1, 0, 1} : InFrame(TextXY(c, p, gnets, s), paper)
  PROVE  TextsHold(c, p, gnets, paper)
<1> DEFINE l == LabelXY(c, p, UseStub(c))  r == Reach(gnets, Net(c, p))  d == Outward(p)
<1>1. p.ang \in {0, 90, 180, 270}
  <2>1. p \in pins(c)
    BY DEF Netted
  <2> QED
    BY <2>1, PinFacts
<1>2. /\ d[1] \in {-1, 0, 1} /\ d[2] \in {-1, 0, 1}
      /\ p.ang \in {0, 180} => d[1] \in {-1, 1} /\ d[2] = 0
  BY <1>1 DEF Outward
<1>3. /\ l[1] \in Int /\ l[2] \in Int /\ r \in Nat
      /\ \A s \in {-1, 0, 1} : TextXY(c, p, gnets, s) = <<l[1] + r * s, l[2]>>
  BY TextNumbers
<1>4. TextEnd(c, p, gnets) = Shift(l, d, r)
  BY DEF TextEnd
<1> HIDE DEF l, r, d
<1>5. InFrame(l, paper)
  <2>1. InFrame(<<l[1], l[2]>>, paper)
    <3>1. TextXY(c, p, gnets, 0) = <<l[1] + r * 0, l[2]>>
      BY <1>3
    <3>2. l[1] + r * 0 = l[1]
      BY <1>3
    <3> QED
      BY <3>1, <3>2
  <2> QED
    BY <2>1 DEF InFrame
<1>6. ASSUME p.ang \in {0, 180} PROVE InFrame(Shift(l, d, r), paper)
  <2>1. Shift(l, d, r) = <<l[1] + r * d[1], l[2] + r * d[2]>>
    BY DEF Shift
  <2>2. l[2] + r * d[2] = l[2]
    BY <1>2, <1>3, <1>6
  <2>3. TextXY(c, p, gnets, d[1]) = <<l[1] + r * d[1], l[2]>>
    BY <1>2, <1>3
  <2> QED
    BY <1>2, <2>1, <2>2, <2>3
<1>7. r <= MARGIN_FRAME => OnPaper(Shift(l, d, r), paper)
  BY <1>2, <1>3, <1>5, NearFrame
<1> QED
  BY <1>4, <1>5, <1>6, <1>7 DEF TextsHold, l, r

LEMMA FittedFramed ==
  ASSUME NEW comps, NEW gnets, Placeable(comps),
         LET pts == content_pts(comps, gnets) IN
         pts # {} => /\ Extent(pts)[1] <= PAPERS[Len(PAPERS)][2]
                     /\ Extent(pts)[2] <= PAPERS[Len(PAPERS)][3]
  PROVE  Framed(autofit(Sheet(comps, gnets)))
<1> DEFINE sh == autofit(Sheet(comps, gnets))  dx == DX(comps, gnets)  dy == DY(comps, gnets)
           paper == PaperFor(Extent(content_pts(comps, gnets)))[1]
<1>1. CASE DOMAIN comps = {}
  <2>1. content_pts(comps, gnets) = {}
    BY <1>1, ContentFinite
  <2>2. sh = Sheet(comps, gnets)
    <3>1. Sheet(comps, gnets).comps = comps /\ Sheet(comps, gnets).gnets = gnets
      BY DEF Sheet
    <3> QED
      BY <2>1, <3>1 DEF autofit
  <2>3. DOMAIN sh.comps = {}
    BY <1>1, <2>2 DEF Sheet
  <2> QED
    BY <2>3 DEF Framed
<1>2. CASE DOMAIN comps # {}
  <2>1. /\ sh.gnets = gnets /\ DOMAIN sh.comps = DOMAIN comps /\ sh.paper = paper
        /\ \A i \in DOMAIN comps : MovedPart(sh.comps[i], comps[i], dx, dy)
    BY <1>2, Fitted
  <2>2. dx \in Int /\ dy \in Int
    BY <1>2, ShiftIsWhole
  <2>3. /\ Extent(content_pts(comps, gnets))[1] <= PAPERS[5][2]
        /\ Extent(content_pts(comps, gnets))[2] <= PAPERS[5][3]
    BY <1>2, ContentFinite, PaperSizes
  <2> HIDE DEF sh, dx, dy, paper
  <2>4. ASSUME NEW i \in DOMAIN comps, NEW p \in pins(sh.comps[i])
        PROVE  /\ InFrame(pin_xy(sh.comps[i], p), paper)
               /\ Net(sh.comps[i], p) # "" => TextsHold(sh.comps[i], p, gnets, paper)
    <3> DEFINE c == sh.comps[i]  e == comps[i]
    <3>1. MovedPart(c, e, dx, dy)
      BY <2>1
    <3>2. e.lib \in DOMAIN Lib /\ e.x \in Int /\ e.y \in Int /\ Lengths(e)
      BY DEF Placeable, Lengths
    <3> HIDE DEF c, e
    <3>3. p \in pins(e)
      BY <3>1, MovedDrawing, <2>2, <2>4 DEF c
    <3>4. InFrame(<<pin_xy(e, p)[1] + dx, pin_xy(e, p)[2] + dy>>, paper)
      BY <1>2, <2>3, <3>3, Framing DEF e, dx, dy, paper
    <3>5. Follows(c, e, gnets, dx, dy)
      BY <2>2, <3>1, <3>2, MovedPoints
    <3>6. pin_xy(c, p) = <<pin_xy(e, p)[1] + dx, pin_xy(e, p)[2] + dy>>
      BY <3>3, <3>5, Zenon DEF Follows
    <3>7. ASSUME Net(c, p) # "" PROVE TextsHold(c, p, gnets, paper)
      <4>1. p \in Netted(e)
        BY <2>2, <3>1, <3>3, <3>7, MovedDrawing DEF Netted
      <4>2. ASSUME NEW s \in {-1, 0, 1} PROVE InFrame(TextXY(c, p, gnets, s), paper)
        <5>1. TextXY(c, p, gnets, s)
                = <<TextXY(e, p, gnets, s)[1] + dx, TextXY(e, p, gnets, s)[2] + dy>>
          BY <3>5, <4>1, Zenon DEF Follows
        <5>2. InFrame(<<TextXY(e, p, gnets, s)[1] + dx, TextXY(e, p, gnets, s)[2] + dy>>, paper)
          BY <1>2, <2>3, <3>3, <4>1, Framing DEF e, dx, dy, paper
        <5> QED
          BY <5>1, <5>2
      <4>3. PICK k \in 1 .. 5 : paper = PAPERS[k][1]
        BY PaperKnown DEF paper
      <4>4. c.lib \in DOMAIN Lib /\ c.x \in Int /\ c.y \in Int /\ Lengths(c)
        BY <2>2, <3>1, <3>2 DEF MovedPart, SamePart, Lengths
      <4>5. p \in Netted(c)
        BY <2>2, <3>1, <4>1, MovedDrawing
      <4> QED
        BY <4>2, <4>3, <4>4, <4>5, TextsFramed
    <3> QED
      BY <3>4, <3>6, <3>7 DEF c
  <2>5. ASSUME NEW i \in DOMAIN sh.comps, NEW p \in pins(sh.comps[i])
        PROVE  /\ InFrame(pin_xy(sh.comps[i], p), sh.paper)
               /\ Net(sh.comps[i], p) # "" => TextsHold(sh.comps[i], p, sh.gnets, sh.paper)
    BY <2>1, <2>4, Zenon
  <2>6. Framed(sh)
    BY <2>5, Zenon DEF Framed, TextsHold
  <2> QED
    BY <2>6 DEF sh
<1> QED
  BY <1>1, <1>2

-----------------------------------------------------------------------------
(* The files.                                                              *)

LEMMA FilesAre ==
  ASSUME NEW d \in DOMAIN Designs, NEW i \in DOMAIN Designs[d]
  PROVE  /\ File[d][i]["build"] = autofit(Sheet(Comps(Designs[d], i), global_nets(Designs[d])))
         /\ File[d][i]["solo"].comps = Designs[d][i][2]
<1>1. \A w \in Writers : File[d][i][w] = FileBy(Designs[d], i, w)
  BY DEF File
<1> QED
  BY <1>1 DEF FileBy, Writers, Drawn, Solo, Sheet

LEMMA OnSheet ==
  ASSUME NEW comps, Placeable(comps)
  PROVE  SheetOn(comps, 0, 0)
<1> SUFFICES ASSUME NEW i \in DOMAIN comps PROVE GridPart(comps[i], 0, 0)
  BY DEF SheetOn
<1> DEFINE c == comps[i]
<1>1. c.lib \in DOMAIN Lib /\ c.x \in Int /\ c.y \in Int /\ c.x = Snap(c.x) /\ c.y = Snap(c.y)
  BY DEF Placeable
<1> HIDE DEF c
<1>2. Lattice(c.x, 0) /\ Lattice(c.y, 0)
  BY <1>1, SnapOnGrid, GridIsLattice
<1> QED
  BY <1>1, <1>2 DEF GridPart, c

LEMMA OnFittedSheet ==
  ASSUME NEW comps, NEW gnets, Placeable(comps)
  PROVE  \E ox, oy \in Int : SheetOn(autofit(Sheet(comps, gnets)).comps, ox, oy)
<1> DEFINE sh == autofit(Sheet(comps, gnets))  dx == DX(comps, gnets)  dy == DY(comps, gnets)
<1>1. CASE DOMAIN comps = {}
  <2>1. content_pts(comps, gnets) = {}
    BY <1>1, ContentFinite
  <2>2. Sheet(comps, gnets).comps = comps /\ Sheet(comps, gnets).gnets = gnets
    BY DEF Sheet
  <2>3. sh.comps = comps
    BY <2>1, <2>2 DEF autofit
  <2> QED
    BY <2>3, OnSheet
<1>2. CASE DOMAIN comps # {}
  <2>1. /\ DOMAIN sh.comps = DOMAIN comps
        /\ \A i \in DOMAIN comps : MovedPart(sh.comps[i], comps[i], dx, dy)
    BY <1>2, Fitted
  <2>2. dx \in Int /\ dy \in Int
    BY <1>2, ShiftIsWhole
  <2>3. SheetOn(comps, 0, 0)
    BY OnSheet
  <2> HIDE DEF sh, dx, dy
  <2>4. ASSUME NEW i \in DOMAIN comps PROVE GridPart(sh.comps[i], dx, dy)
    <3>1. GridPart(comps[i], 0, 0) /\ MovedPart(sh.comps[i], comps[i], dx, dy)
      BY <2>1, <2>3 DEF SheetOn
    <3>2. PICK k \in Int : comps[i].x = 0 + 127 * k
      BY <3>1 DEF GridPart, Lattice
    <3>3. PICK m \in Int : comps[i].y = 0 + 127 * m
      BY <3>1 DEF GridPart, Lattice
    <3>4. sh.comps[i].x = dx + 127 * k /\ sh.comps[i].y = dy + 127 * m
      BY <2>2, <3>1, <3>2, <3>3 DEF MovedPart
    <3> QED
      BY <3>1, <3>4 DEF GridPart, Lattice, MovedPart, SamePart
  <2>5. SheetOn(sh.comps, dx, dy)
    BY <2>1, <2>4 DEF SheetOn
  <2> QED
    BY <2>2, <2>5 DEF sh
<1> QED
  BY <1>1, <1>2

LEMMA FilesSafe ==
  ASSUME NEW d \in DOMAIN Designs, NEW i \in DOMAIN Designs[d], NEW w \in Writers
  PROVE  SafeFiles[d][i][w]
<1>1. SafeFiles[d][i][w] = CleanOrSaid(Designs[d][i][1], File[d][i][w])
  BY DEF SafeFiles, OfFiles
<1>2. \E ox, oy \in Int : SheetOn(File[d][i][w].comps, ox, oy)
  <2>1. Placeable(Designs[d][i][2]) /\ Placeable(Comps(Designs[d], i))
    BY SheetsOK
  <2>2. CASE w = "build"
    BY <2>1, <2>2, FilesAre, OnFittedSheet
  <2>3. CASE w = "solo"
    BY <2>1, <2>3, FilesAre, OnSheet
  <2> QED
    BY <2>2, <2>3 DEF Writers
<1> QED
  BY <1>1, <1>2, CleanOnGrid DEF CleanOrSaid

LEMMA FilesFramed ==
  ASSUME NEW d \in DOMAIN Designs, NEW i \in DOMAIN Designs[d]
  PROVE  FramedFiles[d][i]["build"]
<1>1. FramedFiles[d][i]["build"] = Framed(File[d][i]["build"])
  BY DEF FramedFiles, OfFiles, Writers
<1>2. Placeable(Comps(Designs[d], i))
  BY SheetsOK
<1>3. LET pts == content_pts(Comps(Designs[d], i), global_nets(Designs[d])) IN
      pts # {} => /\ Extent(pts)[1] <= PAPERS[Len(PAPERS)][2]
                  /\ Extent(pts)[2] <= PAPERS[Len(PAPERS)][3]
  BY PaperOK
<1> QED
  BY <1>1, <1>2, <1>3, FilesAre, FittedFramed

\* What a step writes is the sheet of a build, or of a script.
LEMMA OnlyWritten ==
  ASSUME board \in DOMAIN Designs, BNext
  PROVE  \A i \in Written : i \in DOMAIN Designs[board] /\ sch'[i] \in Writers
<1>1. ASSUME sch' = sch PROVE Written = {}
  BY <1>1 DEF Written
<1>2. CASE BuildSheet
  <2>1. /\ bi \in DOMAIN Designs[board]
        /\ sch' = [i \in DOMAIN sch \cup {bi} |-> IF i = bi THEN "build" ELSE sch[i]]
    BY <1>2 DEF BuildSheet
  <2>2. Written \subseteq {bi} /\ sch'[bi] = "build"
    BY <2>1 DEF Written
  <2> QED
    BY <2>1, <2>2 DEF Writers
<1>3. CASE SoloSheet
  <2>1. PICK s \in DOMAIN Designs[board] :
          sch' = [i \in DOMAIN sch \cup {s} |-> IF i = s THEN "solo" ELSE sch[i]]
    BY <1>3 DEF SoloSheet
  <2>2. Written \subseteq {s} /\ sch'[s] = "solo"
    BY <2>1 DEF Written
  <2> QED
    BY <2>2 DEF Writers
<1>4. CASE BuildStart \/ BuildRoot
  BY <1>1, <1>4 DEF BuildStart, BuildRoot
<1>5. CASE PcbStart \/ ExportStart \/ LayStart
  BY <1>1, <1>5 DEF PcbStart, ExportStart, LayStart, schVars
<1>6. CASE Stop
  BY <1>1, <1>6 DEF Stop, schVars
<1>7. CASE \/ (PlaceNext \/ WritePcb) /\ UNCHANGED <<nxml, full, schVars>> /\ Runs
           \/ (PlacePass \/ ZonesPass \/ FillPass \/ HolesPass \/ PlaceFails) /\ UNCHANGED schVars /\ Runs
  <2>1. sch' = sch
    BY <1>7 DEF schVars
  <2> QED
    BY <1>1, <2>1
<1> QED
  BY <1>2, <1>3, <1>4, <1>5, <1>6, <1>7 DEF BNext

\* Where check() says nothing of a sheet, two nets of the drawing never touch: every body
\* begins and ends on the grid the sheet lies on, which autofit() shifts as a whole, and the
\* samples take in every grid point of it.
THEOREM CleanSheetsTheorem == BSpec => CleanSheetsTouch
<1>1. BInv /\ [BNext]_vars => [\A i \in Written : SafeFiles[board][i][sch'[i]]]_vars
  BY OnlyWritten, FilesSafe DEF BInv
<1> QED
  BY <1>1, BoardInvariant, PTL DEF BSpec, CleanSheetsTouch

\* On a sheet of a build every pin and label, and the text of a label on a pin to the left or
\* right, is in the frame of the paper autofit() chose: the shift and the paper come from the
\* same extremes, which take in every one of them.  A text that runs up or down, which they do
\* not take in, is on the paper if it is no longer than the margin is wide.
THEOREM FramesTheorem == BSpec => FramesHold
<1>1. BInv /\ [BNext]_vars
        => [\A i \in Written : sch'[i] = "build" => FramedFiles[board][i]["build"]]_vars
  BY OnlyWritten, FilesFramed DEF BInv
<1> QED
  BY <1>1, BoardInvariant, PTL DEF BSpec, FramesHold
=============================================================================
