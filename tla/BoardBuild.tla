----------------------------- MODULE BoardBuild -----------------------------
(***************************************************************************)
(* The board's files and the programs that write them: build_board.py, the *)
(* sheet scripts run alone, the netlist export, kigen_pcb.py and           *)
(* pcb_layout.py.  They are started one after another in any order, and    *)
(* may be stopped: a file that was written stays.                          *)
(***************************************************************************)
EXTENDS PcbLayout, BoardSheets

CONSTANTS
  Others,   \* boards that BLOCKS may define besides: name -> sequence of <<sheet, parts>>
  Script,   \* bound: board -> for the first, second, ... program started, what it may be
  MaxKills  \* bound: board -> how many programs are stopped

VARIABLES
  board,    \* the board defined
  sch,      \* the sheets' files: by the sheet's place in BLOCKS, who wrote it
  root,     \* whether the root schematic is there
  bi,       \* build: the next sheet
  runs, kills

vars == <<layVars, board, sch, root, bi, runs, kills>>

HardFuzz == <<"HardFuzz">>
Designs == HardFuzz :> BLOCKS @@ Others

RAILS == {"+5V", "+3V3", "+1V0", "+1V8", "GND"}
FLAGS == << "+3V3", "+1V0", "+1V8", "VREF" >>

block_nets(comps) == UNION {Range(comps[i].nets) : i \in DOMAIN comps}

\* The names on more than one sheet, but for the rails.
global_nets(b) ==
  {n \in UNION {block_nets(b[i][2]) : i \in DOMAIN b} :
     Cardinality({i \in DOMAIN b : n \in block_nets(b[i][2])}) > 1} \ RAILS

\* build: the sheet's own parts, on the USB sheet with the power flags.
Comps(b, i) ==
  b[i][2] \o IF b[i][1] = "USB"
             THEN [j \in DOMAIN FLAGS |->
                     flag(FLAGS[j], 40 + (j - 1) * 18, 250, "#FLG" \o ToString(49 + j))]
             ELSE << >>

\* The parts are of the library and where add() snaps them, and a net's name has a length.
Placeable(comps) ==
  /\ IsFiniteSet(DOMAIN comps)
  /\ \A k \in DOMAIN comps :
       LET c == comps[k]
       IN  /\ DOMAIN c = {"lib", "ref", "x", "y", "nets", "fp", "unit", "stub", "nc"}
           /\ c.lib \in DOMAIN Lib /\ c.x \in Int /\ c.y \in Int
           /\ c.x = Snap(c.x) /\ c.y = Snap(c.y)
           /\ \A p \in DOMAIN c.nets : Len(c.nets[p]) \in Nat
ASSUME SheetsOK ==
  \A d \in DOMAIN Designs : \A i \in DOMAIN Designs[d] :
    /\ Placeable(Designs[d][i][2])
    /\ Placeable(Comps(Designs[d], i))

\* Every sheet fits the largest paper: autofit() takes A0 for a larger one too.
ASSUME PaperOK ==
  \A d \in DOMAIN Designs : \A i \in DOMAIN Designs[d] :
    LET pts == content_pts(Comps(Designs[d], i), global_nets(Designs[d]))
    IN  pts # {} => /\ Extent(pts)[1] <= PAPERS[Len(PAPERS)][2]
                     /\ Extent(pts)[2] <= PAPERS[Len(PAPERS)][3]

Drawn(b, i) == autofit([comps |-> Comps(b, i), gnets |-> global_nets(b), paper |-> "A0"])

\* A sheet script run alone: no global nets, no autofit.
Solo(b, i) == [comps |-> b[i][2], gnets |-> {}, paper |-> IF b[i][1] = "FPGA" THEN "A1" ELSE "A2"]

\* What is in a file, by who wrote it; and the same by board and sheet, with the nets read
\* from it.
Writers == {"build", "solo"}
FileBy(b, i, writer) == IF writer = "build" THEN Drawn(b, i) ELSE Solo(b, i)
File ==
  [d \in DOMAIN Designs |->
     [i \in DOMAIN Designs[d] |-> [w \in Writers |-> FileBy(Designs[d], i, w)]]]
OfFiles(what(_, _)) ==
  [d \in DOMAIN Designs |->
     [i \in DOMAIN Designs[d] |-> [w \in Writers |-> what(Designs[d][i][1], File[d][i][w])]]]
Nets == OfFiles(Read)

AllComps(b) == FoldLeft(LAMBDA s, e : s \o [k \in DOMAIN e[2] |-> [sheet |-> e[1], comp |-> e[2][k]]],
                        << >>, b)

\* The parts of the netlist KiCad exports: each once, however many units it has.
Parts ==
  [d \in DOMAIN Designs |->
     LET all == AllComps(Designs[d])
         new(k) == \A j \in 1 .. k - 1 : all[j].comp.ref # all[k].comp.ref
     IN  [k \in DOMAIN SelectSeq([k \in DOMAIN all |-> k], new) |->
            LET c == all[SelectSeq([j \in DOMAIN all |-> j], new)[k]]
            IN  [ref |-> c.comp.ref, fp |-> c.comp.fp, sheet |-> c.sheet]]]

\* Every footprint named is in the library.
ASSUME PartsOK ==
  \A d \in DOMAIN Designs :
    Parts[d] \in Seq([ref : STRING, fp : {""} \cup DOMAIN Mods, sheet : STRING])

\* The netlist of the files that pins have these nets in.
Netlist(parts_, nets) ==
  [k \in DOMAIN parts_ |->
     LET of == {n \in nets : n[1] = parts_[k].ref}
     IN  [ref |-> parts_[k].ref, fp |-> parts_[k].fp, sheet |-> parts_[k].sheet,
          nets |-> [p \in {n[2] : n \in of} |-> (CHOOSE n \in of : n[2] = p)[3]]]]
netlist == Netlist(Parts[board], PinNets({Nets[board][i][sch[i]] : i \in DOMAIN sch}))

-----------------------------------------------------------------------------
BInit ==
  /\ LayoutInit
  /\ board \in DOMAIN Designs
  /\ sch = <<>> /\ root = FALSE /\ bi = 0 /\ runs = 0 /\ kills = 0

schVars == <<board, sch, root, bi>>

\* The engineer starts a program.
Start(program) ==
  /\ runs < Len(Script[board]) /\ program \in Script[board][runs + 1]
  /\ runs' = runs + 1 /\ UNCHANGED kills
Runs == UNCHANGED <<runs, kills>>

BuildStart ==
  /\ proc = "idle" /\ Start("build")
  /\ proc' = "build" /\ bi' = 1
  /\ UNCHANGED <<mainVars, pcb, nxml, full, board, sch, root>>

\* One round of the loop; a net collision is reported and nothing else.
BuildSheet ==
  /\ proc = "build" /\ bi \in DOMAIN Designs[board]
  /\ sch' = [i \in DOMAIN sch \cup {bi} |-> IF i = bi THEN "build" ELSE sch[i]]
  /\ bi' = bi + 1
  /\ UNCHANGED <<layVars, board, root>> /\ Runs

BuildRoot ==
  /\ proc = "build" /\ bi = Len(Designs[board]) + 1
  /\ root' = TRUE /\ bi' = 0 /\ proc' = "idle"
  /\ UNCHANGED <<mainVars, pcb, nxml, full, board, sch>> /\ Runs

\* A sheet script on its own.
SoloSheet ==
  /\ proc = "idle" /\ Start("solo")
  /\ \E s \in DOMAIN Designs[board] :
       sch' = [i \in DOMAIN sch \cup {s} |-> IF i = s THEN "solo" ELSE sch[i]]
  /\ UNCHANGED <<layVars, board, root, bi>>

\* The export fails without the root or one of its sheets.
Exports == root /\ DOMAIN sch = DOMAIN Designs[board]

PcbStart ==
  /\ proc = "idle" /\ Exports /\ Start("pcb")
  /\ \E nl \in {netlist} : Main(nl)
  /\ UNCHANGED <<nxml, full, schVars>>

ExportStart ==
  /\ proc = "idle" /\ Exports /\ Start("export")
  /\ \E nl \in {netlist} : Export(nl)
  /\ UNCHANGED schVars

LayStart ==
  /\ \E pass \in {"place", "zones", "fill", "holes"} : Start(pass) /\ LayoutStart(pass)
  /\ UNCHANGED schVars

\* A program is stopped.
Stop ==
  /\ kills < MaxKills[board] /\ kills' = kills + 1 /\ UNCHANGED runs
  /\ \/ Kill /\ UNCHANGED <<nxml, full, schVars>>
     \/ LayoutKill /\ UNCHANGED schVars
     \/ /\ proc = "build" /\ proc' = "idle" /\ bi' = 0
        /\ UNCHANGED <<mainVars, pcb, nxml, full, board, sch, root>>

\* Nothing to place, or no netlist: the pass ends with an exception.
PlaceFails == proc = "place" /\ (nxml = <<>> \/ DOMAIN pcb.at = {}) /\ LayoutKill

BNext ==
  \/ BuildStart \/ BuildSheet \/ BuildRoot \/ SoloSheet
  \/ PcbStart \/ ExportStart \/ LayStart \/ Stop
  \/ (PlaceNext \/ WritePcb) /\ UNCHANGED <<nxml, full, schVars>> /\ Runs
  \/ (PlacePass \/ ZonesPass \/ FillPass \/ HolesPass \/ PlaceFails) /\ UNCHANGED schVars /\ Runs

BSpec == BInit /\ [][BNext]_vars
-----------------------------------------------------------------------------
Written == {i \in DOMAIN sch' : i \notin DOMAIN sch \/ sch'[i] # sch[i]}

\* Where check() finds no net collision on a sheet it writes, no label or stub of one net
\* touches one of another, whether drawn from a pin, along a stub or at its end.
Touching(drawn) == \E e, f \in drawn : e.net # f.net /\ Meet(e.body, f.body)
CleanOrSaid(sheet, sh) == check(sh.comps) # {} \/ ~Touching(labels(sheet, sh))
SafeFiles == OfFiles(CleanOrSaid)
CleanSheetsTouch == [][\A i \in Written : SafeFiles[board][i][sch'[i]]]_vars

\* On a sheet of a build every pin, stub and label, and the text of every label on a pin to
\* the left or right, stays within the frame of the paper chosen, off its margin, and above
\* the title block.  The text on a pin up or down runs up or down, where autofit() reserves
\* no room: it may cross the margin or the title block's room, but if it is no longer than
\* the margin is wide it stays on the paper.
PaperSize(paper) == LET k == CHOOSE k \in DOMAIN PAPERS : PAPERS[k][1] = paper
                    IN  <<PAPERS[k][2], PAPERS[k][3]>>
InFrame(pt, paper) ==
  /\ MARGIN_FRAME <= pt[1] /\ pt[1] <= PaperSize(paper)[1] - MARGIN_FRAME
  /\ MARGIN_FRAME <= pt[2] /\ pt[2] <= PaperSize(paper)[2] - MARGIN_FRAME - TITLE_ALLOW
OnPaper(pt, paper) ==
  /\ 0 <= pt[1] /\ pt[1] <= PaperSize(paper)[1]
  /\ 0 <= pt[2] /\ pt[2] <= PaperSize(paper)[2]
Framed(sh) ==
  \A i \in DOMAIN sh.comps :
    LET c == sh.comps[i]
    IN  \A p \in pins(c) :
          /\ InFrame(pin_xy(c, p), sh.paper)
          /\ Net(c, p) # "" =>
               /\ InFrame(LabelXY(c, p, UseStub(c)), sh.paper)
               /\ p.ang \in {0, 180} => InFrame(TextEnd(c, p, sh.gnets), sh.paper)
               /\ Reach(sh.gnets, Net(c, p)) <= MARGIN_FRAME
                    => OnPaper(TextEnd(c, p, sh.gnets), sh.paper)
FramedFiles == OfFiles(LAMBDA sheet, sh : Framed(sh))
FramesHold ==
  [][\A i \in Written : sch'[i] = "build" => FramedFiles[board][i]["build"]]_vars

-----------------------------------------------------------------------------
\* The files are those of one build: none missing, none by a sheet script.
Complete == Exports /\ \A i \in DOMAIN sch : sch[i] = "build"

\* The board is drawn without a collision, and no label or stub lies on a pin without a net.
Clean(b) ==
  \A i \in DOMAIN b :
    LET comps == Comps(b, i)
        bodies == {l.body : l \in labels("", [comps |-> comps, gnets |-> {}, paper |-> "A0"])}
    IN  /\ check(comps) = {}
        /\ \A k \in DOMAIN comps : \A p \in pins(comps[k]) \ Netted(comps[k]) :
             \A body \in bodies : ~Meet(body, Box(pin_xy(comps[k], p), pin_xy(comps[k], p)))

CleanDesigns == {d \in DOMAIN Designs : Clean(Designs[d])}

\* The names the generators give the parts' pins.
PinNames ==
  [d \in DOMAIN Designs |->
     UNION {{<<a.comp.ref, p, a.comp.nets[p]>> : p \in DOMAIN a.comp.nets} :
              a \in Range(AllComps(Designs[d]))}]

\* From the files of one clean build, two pads of the board file share a net exactly if the
\* generators give their pins one name: across the sheets through global labels and
\* power symbols, within a sheet through local labels, and nothing else is joined.  (Of a pin
\* without a pad it says nothing: kigen_pcb.py passes over it.)
PadsCarryNets ==
  [][proc = "pcb" /\ pcb' # pcb /\ Complete /\ board \in CleanDesigns =>
       LET pads == UNION {{<<i, p>> : p \in Mods[parts[i].fp].pads} : i \in DOMAIN pcb'.at}
           net(e) == IF e[2] \in DOMAIN pcb'.pads[e[1]] THEN pcb'.pads[e[1]][e[2]] ELSE <<>>
           name(e) == {n[3] : n \in {m \in PinNames[board] : m[1] = parts[e[1]].ref /\ m[2] = e[2]}}
           pairs == {<<name(e), net(e)>> : e \in pads}
       IN  /\ \A q \in pairs : q[1] = {} <=> q[2] = <<>>
           /\ Cardinality({q[1] : q \in pairs}) = Cardinality(pairs)
           /\ Cardinality({q[2] : q \in pairs}) = Cardinality(pairs)]_vars
=============================================================================
