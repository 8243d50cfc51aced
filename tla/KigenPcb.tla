------------------------------ MODULE KigenPcb ------------------------------
(***************************************************************************)
(* kigen_pcb.py: from the schematic's netlist to a board file with every   *)
(* footprint placed and the nets on its pads.  One step per footprint, so  *)
(* that the program can be stopped before it writes.  Lengths are whole    *)
(* hundredths of a millimetre.                                             *)
(*                                                                         *)
(* A netlist is a sequence of [ref, fp, sheet, nets], nets naming pins'    *)
(* nets as <<sheet, name>>, the sheet "" for a net of all sheets.  A board *)
(* file is [parts, at, pads, edge, planes, pour, holes]: the               *)
(* footprints' origins, the nets of their pads, the outline as a box, and  *)
(* what pcb_layout.py adds.                                                *)
(***************************************************************************)
EXTENDS Integers, Sequences

CONSTANT
  Mods       \* footprint -> [ink, crt, pads]: what pads and lines cover and the courtyard,
             \* as boxes <<minx, miny, maxx, maxy>> about the origin or <<>>, and the pads

IsBox(b) == b \in Int \X Int \X Int \X Int /\ b[1] <= b[3] /\ b[2] <= b[4]

ASSUME ModsOK ==
  \A fp \in DOMAIN Mods :
    /\ Mods[fp].crt = <<>> \/ IsBox(Mods[fp].crt)
    /\ \/ Mods[fp].ink = <<>>
       \/ IsBox(Mods[fp].ink) /\ Mods[fp].ink[3] - Mods[fp].ink[1] <= 15100   \* fits on a shelf

VARIABLES
  proc,      \* the program that runs, "idle" for none
  parts,     \* main: the netlist
  todo,      \* main: the parts not placed yet
  xpos, ypos, rowh,
  at,        \* main: origins of the parts placed
  pcb        \* the board file, <<>> for none

mainVars == <<parts, todo, xpos, ypos, rowh, at>>
pcbVars == <<proc, mainVars, pcb>>

GAP == 400
BOARD_W == 16500
MARGIN == 1200
EDGE == 300

\* fp_bbox: one millimetre around the ink; eight by eight without any.
fp_bbox(fp) ==
  LET b == Mods[fp].ink
  IN  IF b = <<>> THEN <<-400, -400, 400, 400>>
      ELSE <<b[1] - 100, b[2] - 100, b[3] + 100, b[4] + 100>>

Width(fp)  == fp_bbox(fp)[3] - fp_bbox(fp)[1]
Height(fp) == fp_bbox(fp)[4] - fp_bbox(fp)[2]

\* What a footprint with its origin at a covers.
Cell(fp, a) == LET b == fp_bbox(fp)
               IN  <<a[1] + b[1], a[2] + b[2], a[1] + b[3], a[2] + b[4]>>

Init ==
  /\ proc = "idle" /\ parts = <<>> /\ todo = {}
  /\ xpos = MARGIN /\ ypos = MARGIN /\ rowh = 0 /\ at = <<>> /\ pcb = <<>>

\* main: the netlist, and the loop's start.
Main(nl) ==
  /\ proc = "idle" /\ proc' = "pcb"
  /\ parts' = nl
  /\ todo' = {i \in DOMAIN nl : nl[i].fp # ""}
  /\ xpos' = MARGIN /\ ypos' = MARGIN /\ rowh' = 0 /\ at' = <<>>
  /\ UNCHANGED pcb

\* Tallest first, in the netlist's order among equals.
IsNext(i) ==
  /\ i \in todo
  /\ \A j \in todo : LET hi == Height(parts[i].fp)  hj == Height(parts[j].fp)
                     IN  hi > hj \/ (hi = hj /\ i <= j)

\* place(): the origin where the cell's corner comes to <<cx, cy>>.
\* Mutant: the corner is taken for the origin.
OriginAtCorner(i, cx, cy) == <<cx, cy>>
Origin(i, cx, cy) == LET b == fp_bbox(parts[i].fp) IN <<cx - b[1], cy - b[2]>>

\* Mutant: a new shelf starts below the last part instead of the tallest.
NextRowShort == ypos + GAP
NextRow == ypos + rowh + GAP

\* One round of the loop.
PlaceNext ==
  /\ proc = "pcb"
  /\ \E i \in todo :
       LET w == Width(parts[i].fp)
           h == Height(parts[i].fp)
           wrap == xpos + w > BOARD_W /\ xpos > MARGIN
           cx == IF wrap THEN MARGIN ELSE xpos
           cy == IF wrap THEN NextRow ELSE ypos
           rh == IF wrap THEN 0 ELSE rowh
       IN  /\ IsNext(i)
           /\ at' = [j \in DOMAIN at \cup {i} |-> IF j = i THEN Origin(i, cx, cy) ELSE at[j]]
           /\ xpos' = cx + w + GAP /\ ypos' = cy
           /\ rowh' = IF h > rh THEN h ELSE rh
           /\ todo' = todo \ {i}
  /\ UNCHANGED <<proc, parts, pcb>>

\* place(): the pads that carry a net; a pin without a pad is passed over.
PadNets(i) == [p \in Mods[parts[i].fp].pads \cap DOMAIN parts[i].nets |-> parts[i].nets[p]]

\* main: the file, with its outline.
Board == [parts |-> parts, at |-> at, pads |-> [i \in DOMAIN at |-> PadNets(i)],
          edge |-> <<EDGE, EDGE, BOARD_W + MARGIN, ypos + rowh + MARGIN>>,
          planes |-> {}, pour |-> {}, holes |-> {}]

WritePcb ==
  /\ proc = "pcb" /\ todo = {}
  /\ pcb' = Board
  /\ proc' = "idle" /\ UNCHANGED mainVars

\* The program is stopped, or fails: nothing was written.
Kill ==
  /\ proc = "pcb"
  /\ proc' = "idle" /\ UNCHANGED <<mainVars, pcb>>
-----------------------------------------------------------------------------
Clear(a, b, g) == \/ a[3] + g <= b[1] \/ b[3] + g <= a[1]
                  \/ a[4] + g <= b[2] \/ b[4] + g <= a[2]

\* No two footprints placed by kigen_pcb come closer than GAP, their ink with a
\* millimetre around it counted: "shelf-packed so nothing overlaps".
CellsApart ==
  \A i, j \in DOMAIN at :
    i # j => Clear(Cell(parts[i].fp, at[i]), Cell(parts[j].fp, at[j]), GAP)

\* Whatever was placed last, on whichever shelf, the outline of the file goes
\* round every footprint.
PartsOnBoard ==
  pcb # <<>> =>
    \A i \in DOMAIN pcb.at :
      LET c == Cell(pcb.parts[i].fp, pcb.at[i])
      IN  /\ pcb.edge[1] < c[1] /\ pcb.edge[2] < c[2]
          /\ c[3] < pcb.edge[3] /\ c[4] < pcb.edge[4]
=============================================================================
