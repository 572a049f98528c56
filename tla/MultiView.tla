------------------------------ MODULE MultiView ------------------------------
(***************************************************************************)
(* HMultiView: the widgets of the main window, laid out on a table.  Each  *)
(* widget has a number, playerid; the cell of that number is where it is   *)
(* shown.  The user drags one widget onto another to exchange them, drags  *)
(* a rectangle with the right button to merge what it covers, and double   *)
(* clicks a widget to see it alone and again to come back.                 *)
(*                                                                         *)
(* Everything here runs in the GUI thread.  Positions of the mouse are     *)
(* slots of the table.  The geometry of a widget is the rectangle of slots *)
(* it covers; updateUI sets it anew for each widget it shows, so that of a *)
(* hidden widget is left out and area is a function on the shown ones.     *)
(***************************************************************************)
EXTENDS Table, FiniteSets, Functions

CONSTANTS
  Layouts,        \* the styles of the menu: <<row, col>>
  NumViews        \* MV_STYLE_MAXNUM

ASSUME ViewAssumption ==
  /\ NumViews \in Nat \ {0}
  /\ Layouts \subseteq (Nat \ {0}) \X (Nat \ {0})
  /\ \A layout \in Layouts : layout[1] * layout[2] <= NumViews

Views == 1 .. NumViews

VARIABLES
  table, prev_table,
  bStretch,
  playerid,       \* the number of each widget
  area,           \* the geometry of each widget that is visible
  playing,        \* the widgets whose status is not STOP
  action          \* what the last drag was: garbage until there is one

tableVars == <<table, prev_table>>
vars == <<tableVars, bStretch, playerid, area, playing, action>>

Visible == DOMAIN area

(* Where updateUI puts the widget of a cell: at the slot of its number, as *)
(* large as the cell.                                                      *)
Place(t, id) ==
  LET r == RowOf(id, t.col)
      c == ColOf(id, t.col)
      cell == t.cells[id]
  IN Cell(r, r + (cell.r2 - cell.r1), c, c + (cell.c2 - cell.c1))

Laid(t, ids) ==
  [w \in {v \in Views : ids[v] \in DOMAIN t.cells} |-> Place(t, ids[w])]

(* updateUI(): all are hidden, then those of the cells are shown. *)
UpdateUI(t, ids) ==
  /\ area' = Laid(t, ids)
  /\ bStretch' = (Cardinality(DOMAIN Laid(t, ids)) = 1)

(* The constructor's setLayout; then it clears bStretch. *)
Init ==
  /\ \E layout \in Layouts : table = NewTable(layout[1], layout[2])
  /\ prev_table = NoTable
  /\ playerid = [w \in Views |-> w]
  /\ area = Laid(table, playerid)
  /\ bStretch = FALSE
  /\ playing = {}
  /\ action \in {"STRETCH", "EXCHANGE", "MERGE"}
-----------------------------------------------------------------------------
(* getPlayerByPos: of several at a position, the first. *)
PlayerAt(pos) ==
  CHOOSE w \in Visible : /\ pos \in SlotsOf(area[w])
                         /\ \A v \in Visible : pos \in SlotsOf(area[v]) => w <= v

Positions == {pos \in (1 .. table.row) \X (1 .. table.col) :
                \E w \in Visible : pos \in SlotsOf(area[w])}

Swap(f, x, y) == [f EXCEPT ![x] = f[y], ![y] = f[x]]

(* setLayout. *)
SetLayout ==
  \E layout \in Layouts :
    /\ table' = NewTable(layout[1], layout[2])
    /\ prev_table' = table
    /\ UpdateUI(table', playerid)
    /\ UNCHANGED <<playerid, playing, action>>

(* exchangeCells: the geometries and the numbers. *)
ExchangeCells(w1, w2) ==
  /\ playerid' = Swap(playerid, w1, w2)
  /\ area' = Swap(area, w1, w2)
  /\ UNCHANGED <<tableVars, bStretch, playing>>

PlayerById(n) == CHOOSE w \in Views : playerid[w] = n

PlayingFrom(lt, rb) == {n \in lt .. rb : PlayerById(n) \in playing}

(* Mutant of Numbered: no search. *)
NumberedAsBefore(lt, rb) == playerid

(* The search in mergeCells: the first widget from lt to rb that plays     *)
(* takes the place of lt, so that the merged cell shows it.  These are     *)
(* numbers, not the cells of the rectangle: some of them may lie outside   *)
(* of it, some of its cells are not among them, and there are none when lt *)
(* is a cell that reaches from below rb to its left.                       *)
Numbered(lt, rb) ==
  LET found == PlayingFrom(lt, rb)
      first == IF found = {} THEN lt ELSE CHOOSE n \in found : \A m \in found : n <= m
  IN Swap(playerid, PlayerById(first), PlayerById(lt))

(* mergeCells. *)
MergeCells(lt, rb) ==
  /\ playerid' = Numbered(lt, rb)
  /\ prev_table' = table
  /\ table' = Merge(table, lt, rb)
  /\ UpdateUI(table', playerid')
  /\ UNCHANGED playing

(* From mousePressEvent to mouseReleaseEvent.  Only a drag with the left   *)
(* button that lasts, or one with the right button, sets action; a quick   *)
(* one ends in what the drag before it was.                                *)
Drag(from, to, kind) ==
  LET lt == PlayerAt(<<Smaller(from[1], to[1]), Smaller(from[2], to[2])>>)
      rb == PlayerAt(<<Larger(from[1], to[1]), Larger(from[2], to[2])>>)
  IN /\ action' = kind
     /\ CASE kind = "EXCHANGE" /\ PlayerAt(from) # PlayerAt(to) ->
               ExchangeCells(PlayerAt(from), PlayerAt(to))
          [] kind = "MERGE" /\ lt # rb ->
               MergeCells(playerid[lt], playerid[rb])
          [] OTHER -> UNCHANGED <<tableVars, bStretch, playerid, area, playing>>

UserDrags ==
  \E from, to \in Positions : \E kind \in {"EXCHANGE", "MERGE", action} :
    Drag(from, to, kind)

(* Mutant of StretchOut: without saveLayout. *)
StretchOutOnly(w) ==
  /\ area' = [v \in {w} |-> Cell(1, table.row + 1, 1, table.col + 1)]
  /\ bStretch' = TRUE
  /\ UNCHANGED tableVars

(* stretch(): the widget alone, as large as the window ... *)
StretchOut(w) ==
  /\ area' = [v \in {w} |-> Cell(1, table.row + 1, 1, table.col + 1)]
  /\ prev_table' = table
  /\ bStretch' = TRUE
  /\ UNCHANGED table

(* ... and back: restoreLayout, in which the two tables change places. *)
StretchBack ==
  /\ table' = prev_table /\ prev_table' = table
  /\ area' = Laid(table', playerid)
  /\ bStretch' = FALSE

DoubleClick ==
  /\ <<table.row, table.col>> # <<1, 1>>
  /\ \/ bStretch /\ StretchBack
     \/ ~bStretch /\ \E pos \in Positions : StretchOut(PlayerAt(pos))
  /\ UNCHANGED <<playerid, playing, action>>

(* resizeEvent. *)
Resize ==
  /\ UpdateUI(table, playerid)
  /\ UNCHANGED <<tableVars, playerid, playing, action>>

(* play(): the first idle widget; or the user starts a visible one. *)
Play ==
  /\ \E w \in Visible \ playing : playing' = playing \cup {w}
  /\ UNCHANGED <<tableVars, bStretch, playerid, area, action>>

(* A widget stops: the user's click, or the end of its media, visible or   *)
(* not.                                                                    *)
StopPlaying ==
  /\ \E w \in playing : playing' = playing \ {w}
  /\ UNCHANGED <<tableVars, bStretch, playerid, area, action>>

Next ==
  \/ SetLayout \/ UserDrags \/ DoubleClick \/ Resize \/ Play \/ StopPlaying

Spec == Init /\ [][Next]_vars
-----------------------------------------------------------------------------
TableOK(t) ==
  /\ t.row \in Nat /\ t.col \in Nat /\ t.row * t.col <= NumViews
  /\ DOMAIN t.cells \subseteq 1 .. t.row * t.col
  /\ \A id \in DOMAIN t.cells :
       t.cells[id] \in [r1 : Nat, r2 : Nat, c1 : Nat, c2 : Nat]

(* Every variable has the shape the code gives it; no two widgets have the *)
(* same number.                                                            *)
TypeOK ==
  /\ TableOK(table) /\ TableOK(prev_table)
  /\ bStretch \in BOOLEAN
  /\ playerid \in [Views -> Views] /\ IsInjective(playerid)
  /\ area \in [Visible -> [r1 : Nat, r2 : Nat, c1 : Nat, c2 : Nat]]
  /\ Visible \subseteq Views /\ Visible # {}
  /\ playing \subseteq Views
  /\ action \in {"STRETCH", "EXCHANGE", "MERGE"}

(* However the table is merged, no slot of it is without a cell, and each  *)
(* cell lies in the grid with its number at its top left, where updateUI   *)
(* puts its widget and the next merge looks for it.                        *)
CellsCover ==
  /\ \A slot \in (1 .. table.row) \X (1 .. table.col) :
       \E id \in DOMAIN table.cells : slot \in SlotsOf(table.cells[id])
  /\ \A id \in DOMAIN table.cells :
       LET cell == table.cells[id]
       IN /\ id = IdAt(table, cell.r1, cell.c1)
          /\ cell.r1 < cell.r2 /\ cell.r2 <= table.row + 1
          /\ cell.c1 < cell.c2 /\ cell.c2 <= table.col + 1

(* Types and table together, which is what every operation may rely on.    *)
TableInv == TypeOK /\ CellsCover

Stretched == bStretch /\ Cardinality(DOMAIN table.cells) > 1

(* Whatever was exchanged, merged, resized and stretched, the screen shows *)
(* the table: each cell its widget in its place.  Or one widget is         *)
(* stretched, alone on all of the table; then the layout saved last is the *)
(* one that was shown, so that a second double click undoes the first,     *)
(* although every other change of the layout saves one too.                *)
ShowsTheTable ==
  IF Stretched
  THEN /\ Cardinality(Visible) = 1
       /\ \A w \in Visible : area[w] = Cell(1, table.row + 1, 1, table.col + 1)
       /\ prev_table = table
  ELSE /\ Visible = {w \in Views : playerid[w] \in DOMAIN table.cells}
       /\ \A w \in Visible : area[w] = table.cells[playerid[w]]

(* What a merge does to widgets that play.  If the merged cell keeps the   *)
(* number of the first one, it shows one that plays if any of the numbers  *)
(* searched did, and no widget that plays outside of it disappears.        *)
MergeKeepsPlaying ==
  [][playing # {} /\ table' # table =>
       \A lt, rb \in DOMAIN table.cells :
         LET new == Merged(table, lt, rb)
         IN /\ lt # rb /\ MergeCells(lt, rb)
            /\ IdAt(table, new.r1, new.c1) = lt
            => /\ PlayingFrom(lt, rb) # {} =>
                     \E w \in playing : w \in DOMAIN area' /\ area'[w] = new
               /\ \A w \in playing \cap Visible :
                    w \in DOMAIN area' \/ Overlaps(area[w], new)]_vars

=============================================================================
