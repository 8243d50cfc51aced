------------------------------- MODULE Kigen -------------------------------
(***************************************************************************)
(* The schematic generator kigen.py: what it draws for a list of parts,    *)
(* and what KiCad reads out of the drawing.  A length is a whole number of *)
(* hundredths of a millimetre; sheet y runs down, symbol y up.             *)
(*                                                                         *)
(* A part is [lib, ref, x, y, nets, fp, unit, stub, nc]: nets names the    *)
(* net of a pin by number.  A sheet file is [comps, gnets, paper].         *)
(***************************************************************************)
EXTENDS Integers, FiniteSets, FiniteSetsExt, Functions, Sequences

CONSTANT
  Lib        \* symbol libraries: lib_id -> [extends, power, units]; extends is a lib_id or "",
             \* power the net a power symbol stands for or "", units: unit -> set of pins

GRID == 127
STUB == 254
STUB_MAX_PINS == 24
MARGIN_FRAME == 2500
TITLE_ALLOW == 3500

\* A pin is [num, x, y, ang], ang pointing from its end to the body.
AllPins(units) == UNION {units[u] : u \in DOMAIN units}

\* pins_by_unit: a symbol without pins of its own takes its parent's.
pins_by_unit[l \in DOMAIN Lib] ==
  IF AllPins(Lib[l].units) = {} /\ Lib[l].extends # ""
  THEN pins_by_unit[Lib[l].extends] ELSE Lib[l].units

\* raw(), _base_block: what is embedded in the file is the drawing of the last ancestor.
raw[l \in DOMAIN Lib] == IF Lib[l].extends # "" THEN raw[Lib[l].extends] ELSE Lib[l].units

\* add(): "pin offsets are already on grid"; and pins stand at right angles.
OnGrid(v) == v \in Int /\ v % GRID = 0
ASSUME LibOK ==
  \A l \in DOMAIN Lib :
    /\ IsFiniteSet(AllPins(pins_by_unit[l]))
    /\ \A p \in AllPins(pins_by_unit[l]) :
         OnGrid(p.x) /\ OnGrid(p.y) /\ p.ang \in {0, 90, 180, 270}

UnitPins(units, u) == UNION {units[v] : v \in {0, u} \cap DOMAIN units}

\* pins(): those of a unit with the common ones of unit 0.
pins(c) == UnitPins(pins_by_unit[c.lib], c.unit)

Net(c, p) == IF p.num \in DOMAIN c.nets THEN c.nets[p.num] ELSE ""
Netted(c) == {p \in pins(c) : Net(c, p) # ""}

\* Comp, add: the origin goes to the nearest grid point (never a tie: GRID is odd).
Snap(v) == ((2 * v + GRID) \div (2 * GRID)) * GRID
add(lib, ref, px, py, nets, fp) ==
  [lib |-> lib, ref |-> ref, x |-> Snap(100 * px), y |-> Snap(100 * py), nets |-> nets,
   fp |-> fp, unit |-> 1, stub |-> TRUE, nc |-> FALSE]

\* pin_xy, at rotation 0.
pin_xy(c, p) == <<c.x + p.x, c.y - p.y>>

\* Away from the body, in sheet space.
Outward(p) == CASE p.ang = 0 -> <<-1, 0>> [] p.ang = 90  -> <<0, 1>>
                [] p.ang = 180 -> <<1, 0>> [] p.ang = 270 -> <<0, -1>>

Shift(xy, d, n) == <<xy[1] + n * d[1], xy[2] + n * d[2]>>

UseStub(c) == c.stub /\ Cardinality(pins(c)) <= STUB_MAX_PINS

\* _labels: the label goes to the end of the stub, or on the pin.
LabelXY(c, p, stub) == IF stub THEN Shift(pin_xy(c, p), Outward(p), STUB) ELSE pin_xy(c, p)

\* A label's text, and a global one's flag, reach this far.
Reach(gnets, net) == 95 * Len(net) + (IF net \in gnets THEN 700 ELSE 300)

\* _labels: the text is turned to run on from the pin, away from the part.
TextEnd(c, p, gnets) ==
  Shift(LabelXY(c, p, UseStub(c)), Outward(p), Reach(gnets, Net(c, p)))

-----------------------------------------------------------------------------
(* check(): two nets on one grid point.  Stubs are sampled every GRID.     *)

\* Mutant: the far end of a stub is not sampled.
MarksShort(c) ==
  LET stub == UseStub(c)
  IN  UNION {{<<Shift(pin_xy(c, p), Outward(p), GRID * i), Net(c, p)>> :
            i \in IF stub THEN 0 .. 1 ELSE {0}} : p \in Netted(c)}

Marks(c) ==
  LET stub == UseStub(c)
  IN  UNION {{<<Shift(pin_xy(c, p), Outward(p), GRID * i), Net(c, p)>> :
            i \in IF stub THEN 0 .. 2 ELSE {0}} : p \in Netted(c)}

check(comps) ==
  LET occ == UNION {Marks(comps[i]) : i \in DOMAIN comps}
  IN  {m[1] : m \in {n \in occ : \E o \in occ : o[1] = n[1] /\ o[2] # n[2]}}

-----------------------------------------------------------------------------
(* autofit(): shift everything inside the margin, choose the paper.        *)

PAPERS == << <<"A4", 29700, 21000>>, <<"A3", 42000, 29700>>, <<"A2", 59400, 42000>>,
             <<"A1", 84100, 59400>>, <<"A0", 118900, 84100>> >>

\* Mutant: only pins count.
PinPts(comps, gnets) == UNION {{pin_xy(comps[i], p) : p \in pins(comps[i])} : i \in DOMAIN comps}

content_pts(comps, gnets) ==
  UNION {LET c == comps[i]  stub == UseStub(c) IN
         {<<c.x + 300, c.y - 300>>} \cup {pin_xy(c, p) : p \in pins(c)}
         \cup UNION {{Shift(LabelXY(c, p, stub), <<s, 0>>, Reach(gnets, Net(c, p))) : s \in {-1, 1}} :
                       p \in Netted(c)} : i \in DOMAIN comps}

\* The size of what is drawn, with margins and title block.
Extent(pts) ==
  LET xs == {q[1] : q \in pts}   ys == {q[2] : q \in pts}
  IN  <<Max(xs) - Min(xs) + 2 * MARGIN_FRAME, Max(ys) - Min(ys) + 2 * MARGIN_FRAME + TITLE_ALLOW>>

\* The first paper that is large enough, else A0.
PaperFor(size) ==
  LET fits == {k \in DOMAIN PAPERS : size[1] <= PAPERS[k][2] /\ size[2] <= PAPERS[k][3]}
  IN  PAPERS[IF fits = {} THEN Len(PAPERS) ELSE Min(fits)]

autofit(sh) ==
  LET pts == content_pts(sh.comps, sh.gnets)
      dx == MARGIN_FRAME - Min({q[1] : q \in pts})
      dy == MARGIN_FRAME - Min({q[2] : q \in pts})
  IN  IF pts = {} THEN sh
      ELSE [sh EXCEPT !.paper = PaperFor(Extent(pts))[1],
                      !.comps = [i \in DOMAIN sh.comps |->
                                   [sh.comps[i] EXCEPT !.x = @ + dx, !.y = @ + dy]]]

-----------------------------------------------------------------------------
(* What KiCad makes of a file.  A keyed body is a label with its stub, or   *)
(* the pin of a power symbol: a global label or power pin holds the key     *)
(* <<"", name>> on every sheet, a local label <<sheet, name>>.  Bodies that *)
(* touch are one net, and so is every body with the same key.               *)

Less(v, w) == IF v < w THEN v ELSE w
More(v, w) == IF v < w THEN w ELSE v
Box(a, b) == <<Less(a[1], b[1]), Less(a[2], b[2]), More(a[1], b[1]), More(a[2], b[2])>>
Meet(b1, b2) == /\ b1[1] <= b2[3] /\ b2[1] <= b1[3]
                /\ b1[2] <= b2[4] /\ b2[2] <= b1[4]

\* _labels: global_label or label.  Mutant: every label is local.
LocalLabel(sheet, gnets, net) == <<sheet, net>>
Label(sheet, gnets, net) == IF net \in gnets THEN <<"", net>> ELSE <<sheet, net>>

\* _labels: what is drawn for the pins that have a net.
labels(sheet, sh) ==
  UNION {LET c == sh.comps[i]  stub == UseStub(c) IN
         {[key |-> Label(sheet, sh.gnets, Net(c, p)), net |-> Net(c, p),
           body |-> Box(pin_xy(c, p), LabelXY(c, p, stub))] : p \in Netted(c)} : i \in DOMAIN sh.comps}

\* The pins in the file, by the embedded drawing; _no_connects flags the spare ones.
DrawnPins(sh) ==
  UNION {LET c == sh.comps[i] IN
         {[ref |-> c.ref, num |-> p.num, power |-> Lib[c.lib].power,
           flagged |-> c.nc /\ Net(c, p) = "",
           at |-> Box(pin_xy(c, p), pin_xy(c, p))] :
            p \in UnitPins(raw[c.lib], c.unit)} : i \in DOMAIN sh.comps}

Keyed(sheet, sh) ==
  {[key |-> l.key, body |-> l.body] : l \in labels(sheet, sh)}
  \cup {[key |-> <<"", p.power>>, body |-> p.at] : p \in {q \in DrawnPins(sh) : q.power # ""}}

\* The pairs of keys that touching bodies of a sheet join.
Joins(keyed) ==
  UNION {{{a.key, b.key} : b \in {b \in keyed : b.key # a.key /\ Meet(a.body, b.body)}} : a \in keyed}

\* The pins that touch a keyed body, each with the body's key.
PinKeys(keyed, drawn) ==
  UNION {{<<p.ref, p.num, a.key>> : a \in {a \in keyed : Meet(a.body, p.at)}} : p \in drawn}

\* What a file says of the nets.
ReadKeyed(keyed, drawn) == [pins |-> PinKeys(keyed, drawn), joins |-> Joins(keyed)]
Read(sheet, sh) == ReadKeyed(Keyed(sheet, sh), DrawnPins(sh))

\* The nets of the files read: the keys' partition by what joins them.
KeyNets(reads) ==
  LET merge(e, nets) == LET met == {n \in nets : n \cap e # {}} IN (nets \ met) \cup {UNION met}
      joins == UNION {r.joins : r \in reads}
  IN  FoldSet(merge, {{t[3]} : t \in UNION {r.pins : r \in reads}} \cup {{k} : k \in UNION joins}, joins)

\* A net's name: a global one if it has any.
NetName(net) == CHOOSE k \in net : (\E g \in net : g[1] = "") => k[1] = ""

PinsOn(net, name, pinkeys) == {<<t[1], t[2], name>> : t \in {t \in pinkeys : t[3] \in net}}

\* Every pin that has a net, with its name.
PinNets(reads) ==
  LET all == UNION {r.pins : r \in reads}
  IN  UNION {PinsOn(net, NetName(net), all) : net \in KeyNets(reads)}
=============================================================================
