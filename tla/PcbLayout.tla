----------------------------- MODULE PcbLayout -----------------------------
(***************************************************************************)
(* pcb_layout.py after kigen_pcb.py: four passes, each a process of its    *)
(* own that loads the board file, changes it and saves it.  The chain can  *)
(* be entered at any pass by its flag and stops when a pass is stopped.    *)
(* The placement groups the parts by the sheets that /tmp/n.xml names, a   *)
(* netlist exported by hand, not the one kigen_pcb.py used.                *)
(***************************************************************************)
EXTENDS KigenPcb, FiniteSets, FiniteSetsExt, SequencesExt

VARIABLES
  nxml,    \* /tmp/n.xml, a netlist or <<>> for none; an entry's sheet is the part's
  full     \* whether the chain that runs began with the placement

layVars == <<pcbVars, nxml, full>>

SHELF_GAP == 250
WMAX == 4600
PAD == 900
LAYOUT_MARGIN == 1000
HALF_LINE == 5           \* the outline's line counts as board
HOLE == 245              \* a mounting hole's radius with its clearance

order == << "FPGA", "USB", "ESP32", "Power", "Level Shift", "CAN" >>

Moved(b, a) == <<a[1] + b[1], a[2] + b[2], a[1] + b[3], a[2] + b[4]>>

\* A box round all of B.
Hull(B) == <<Min({b[1] : b \in B}), Min({b[2] : b \in B}),
             Max({b[3] : b \in B}), Max({b[4] : b \in B})>>

Grown(b, n) == <<b[1] - n, b[2] - n, b[3] + n, b[4] + n>>

\* fp_size: the courtyard's size, or else that of what is drawn.
fp_size(fp) ==
  LET m == Mods[fp]
      b == IF m.crt # <<>> THEN m.crt ELSE IF m.ink # <<>> THEN m.ink ELSE <<0, 0, 0, 0>>
  IN  <<b[3] - b[1], b[4] - b[2]>>

\* sheet_of, groups: the parts of the file by the netlist's sheet, with their sizes.
groups(n) ==
  LET refs == {e.ref : e \in {e \in Range(nxml) : e.sheet = n}}
  IN  {<<i, fp_size(pcb.parts[i].fp)>> : i \in {i \in DOMAIN pcb.at : pcb.parts[i].ref \in refs}}

\* pack: shelves again, big parts first, each part's origin in the middle of its cell.
\* Equals come in the order of the file, which KiCad chooses: here the netlist's.
\* Mutant: a new shelf starts the gap under the row's first part.
ShelfShort(p, size) ==
  IF p.x + size[1] > WMAX /\ p.x > 0
  THEN [x |-> 0, y |-> p.y + size[2] + SHELF_GAP, rowh |-> size[2]]
  ELSE [x |-> p.x, y |-> p.y, rowh |-> Max({p.rowh, size[2]})]
Shelf(p, size) ==
  IF p.x + size[1] > WMAX /\ p.x > 0
  THEN [x |-> 0, y |-> p.y + p.rowh + SHELF_GAP, rowh |-> size[2]]
  ELSE [x |-> p.x, y |-> p.y, rowh |-> Max({p.rowh, size[2]})]

long(e) == Max({e[2][1], e[2][2]})
NotBefore(e, f) == long(e) < long(f) \/ (long(e) = long(f) /\ e[1] >= f[1])
Smallest(T) == CHOOSE e \in T : \A f \in T : NotBefore(e, f)

Put(e, p) ==
  LET size == e[2]  c == Shelf(p, size)
  IN  [placed |-> p.placed \cup {<<e[1], c.x + size[1] \div 2, c.y + size[2] \div 2>>},
       x |-> c.x + size[1] + SHELF_GAP, y |-> c.y, rowh |-> c.rowh,
       w |-> Max({p.w, c.x + size[1]})]

NoShelf == [placed |-> {}, x |-> 0, y |-> 0, rowh |-> 0, w |-> 0]
packed(S) == MapThenFoldSet(Put, NoShelf, LAMBDA e : e, Smallest, S)

\* place_pass: the blocks in two rows of three, as wide and high as they need.
ColW(blocks, c) == Max({b[2].w : b \in {b \in blocks : b[1] % 3 = c}})
RowH(blocks, r) == Max({b[2].y + b[2].rowh : b \in {b \in blocks : b[1] \div 3 = r}})
ColX(blocks, c) == LAYOUT_MARGIN + IF c = 0 THEN 0
                                   ELSE ColW(blocks, 0) + PAD + IF c = 1 THEN 0
                                                                ELSE ColW(blocks, 1) + PAD
RowY(blocks, r) == LAYOUT_MARGIN + IF r = 0 THEN 0 ELSE RowH(blocks, 0) + PAD
Arranged(blocks) ==
  UNION {{<<d[1], ColX(blocks, b[1] % 3) + d[2], RowY(blocks, b[1] \div 3) + d[3]>> :
            d \in b[2].placed} : b \in blocks}

\* SetPosition: the parts of no block stay where they are.
Repositioned(moves) ==
  [i \in DOMAIN pcb.at |->
     LET to == {d \in moves : d[1] = i}
         d == CHOOSE d \in to : TRUE
     IN  IF to = {} THEN pcb.at[i] ELSE <<d[2], d[3]>>]

Placed == Repositioned(Arranged({<<k, packed(groups(order[k + 1]))>> : k \in 0 .. 5}))

\* What the footprints cover, with the holes of an earlier chain.
Ink(parts_, at_) ==
  {Moved(IF Mods[parts_[i].fp].ink = <<>> THEN <<0, 0, 0, 0>> ELSE Mods[parts_[i].fp].ink, at_[i]) :
     i \in DOMAIN at_}
HoleBoxes(holes) == {Grown(<<h[1], h[2], h[1], h[2]>>, HOLE) : h \in holes}

LayoutInit == Init /\ nxml = <<>> /\ full = FALSE

\* The netlist is exported by hand.
Export(nl) ==
  /\ proc = "idle" /\ nxml' = nl
  /\ UNCHANGED <<pcbVars, full>>

\* The program, with or without a pass named on the command line.
LayoutStart(pass) ==
  /\ proc = "idle" /\ pcb # <<>>
  /\ proc' = pass /\ full' = FALSE
  /\ UNCHANGED <<mainVars, pcb, nxml>>

\* __main__: a pass that has saved the board starts the next one.
Saved(board, next) == pcb' = board /\ proc' = next

\* place_pass; without the netlist or without parts it fails.
PlacePass ==
  /\ proc = "place" /\ nxml # <<>> /\ DOMAIN pcb.at # {}
  /\ \E to \in {Placed} :
       Saved([pcb EXCEPT !.at = to,
                !.edge = Grown(Hull(Ink(pcb.parts, to) \cup HoleBoxes(pcb.holes)), LAYOUT_MARGIN)],
             "zones")
  /\ full' = TRUE /\ UNCHANGED <<mainVars, nxml>>

\* The outline as the later passes read it.
Edges == Grown(pcb.edge, HALF_LINE)

NetNames == UNION {{pcb.pads[i][p] : p \in DOMAIN pcb.pads[i]} : i \in DOMAIN pcb.pads}

\* zones_pass: a plane for each supply that is a net of the board.
\* Mutant: the planes of an earlier run stay.
Planes == {[net |-> n, box |-> Grown(Edges, -50)] :
             n \in {<<"", "GND">>, <<"", "+3V3">>} \cap NetNames}
ZonesKept == pcb.planes \cup Planes
Zones == Planes

ZonesPass ==
  /\ proc = "zones"
  /\ Saved([pcb EXCEPT !.planes = Zones, !.pour = {}], "fill")
  /\ UNCHANGED <<mainVars, nxml, full>>

\* fill_pass: copper where there is a plane and no hole at the time.
FillPass ==
  /\ proc = "fill"
  /\ Saved([pcb EXCEPT !.pour = {[net |-> z.net, box |-> z.box, holes |-> pcb.holes] : z \in pcb.planes}],
           "holes")
  /\ UNCHANGED <<mainVars, nxml, full>>

\* holes_pass: new holes in the corners for the old ones (no part's reference begins with H).
\* Mutant: the old ones stay.
InCorners == LET e == Edges
             IN  {<<a, b>> : a \in {e[1] + 400, e[3] - 400}, b \in {e[2] + 400, e[4] - 400}}
HolesKept == pcb.holes \cup InCorners
Holes == InCorners

HolesPass ==
  /\ proc = "holes"
  /\ Saved([pcb EXCEPT !.holes = Holes], "idle")
  /\ UNCHANGED <<mainVars, nxml, full>>

\* A pass is stopped or fails, and with it the chain: nothing more is saved.
LayoutKill ==
  /\ proc \in {"place", "zones", "fill", "holes"}
  /\ proc' = "idle" /\ UNCHANGED <<mainVars, pcb, nxml, full>>
-----------------------------------------------------------------------------
Within(a, b) == b[1] <= a[1] /\ b[2] <= a[2] /\ a[3] <= b[3] /\ a[4] <= b[4]

Centred(fp) == LET b == Mods[fp].crt
               IN  b # <<>> /\ b[1] = -b[3] /\ b[2] = -b[4]

\* What a chain of all four passes leaves: the outline stands the margin off every part
\* and hole, there are four holes, in the outline's corners, off every part; and every
\* plane lies inside the outline and is poured, whatever earlier chains that stopped
\* half-way left in the file.
Finished(b) ==
  LET ink == Ink(b.parts, b.at)
  IN
  /\ \A box \in ink : Within(Grown(box, LAYOUT_MARGIN), b.edge)
  /\ Cardinality(b.holes) = 4
  /\ \A h \in HoleBoxes(b.holes) : /\ Within(h, b.edge)
                                   /\ \A box \in ink : Clear(h, box, 0)
  /\ \A z \in b.planes : Within(z.box, b.edge)
  /\ {[net |-> q.net, box |-> q.box] : q \in b.pour} = b.planes
  /\ Cardinality(b.planes) = Cardinality({z.net : z \in b.planes})

LayoutFinished == [][full /\ HolesPass => Finished(pcb')]_layVars

\* Placed by sheets, two parts whose courtyards are centred on their origins keep the
\* shelves' distance, although blocks of other sheets grew around them.
LayoutApart ==
  [][PlacePass =>
       LET moved == {e[1] : e \in UNION {groups(order[k]) : k \in DOMAIN order}}
           crt == {<<i, Moved(Mods[pcb.parts[i].fp].crt, pcb'.at[i])>> :
                     i \in {i \in moved : Centred(pcb.parts[i].fp)}}
       IN  \A e, f \in crt : e[1] < f[1] => Clear(e[2], f[2], SHELF_GAP)]_layVars
=============================================================================
