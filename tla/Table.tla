-------------------------------- MODULE Table --------------------------------
(***************************************************************************)
(* HTable: a grid of row x col slots whose cells are rectangles of slots.  *)
(* A cell is known by the number of its top left slot; slots are counted   *)
(* from 1, row by row.  A cell reaches from row r1 to before row r2 and    *)
(* from column c1 to before column c2.                                     *)
(***************************************************************************)
EXTENDS Integers

Smaller(a, b) == IF a <= b THEN a ELSE b
Larger(a, b) == IF a >= b THEN a ELSE b

Cell(r1, r2, c1, c2) == [r1 |-> r1, r2 |-> r2, c1 |-> c1, c2 |-> c2]

(* The slots of a cell. *)
SlotsOf(cell) == (cell.r1 .. cell.r2 - 1) \X (cell.c1 .. cell.c2 - 1)

IdAt(t, r, c) == (r - 1) * t.col + c
RowOf(id, col) == ((id - 1) \div col) + 1
ColOf(id, col) == ((id - 1) % col) + 1

(* The table before init. *)
NoTable == [row |-> 0, col |-> 0, cells |-> [id \in {} |-> Cell(0, 0, 0, 0)]]

(* init(row, col): one cell for each slot. *)
NewTable(row, col) ==
  [row |-> row, col |-> col,
   cells |-> [id \in 1 .. row * col |->
                LET r == RowOf(id, col)
                    c == ColOf(id, col)
                IN Cell(r, r + 1, c, c + 1)]]

(* combine(): the smallest rectangle around two. *)
Combine(a, b) ==
  Cell(Smaller(a.r1, b.r1), Larger(a.r2, b.r2), Smaller(a.c1, b.c1), Larger(a.c2, b.c2))

(* overlap(): the intersection is not empty. *)
Overlaps(a, b) ==
  /\ Larger(a.r1, b.r1) < Smaller(a.r2, b.r2)
  /\ Larger(a.c1, b.c1) < Smaller(a.c2, b.c2)

(* The loop of merge() over the cells in the order of their numbers: the   *)
(* rectangle after each number.  It grows on the way, and a cell that was  *)
(* passed is not looked at again.                                          *)
Sweep(t, lt, rb) ==
  LET comb[n \in 0 .. t.row * t.col] ==
        IF n = 0 THEN Combine(t.cells[lt], t.cells[rb])
        ELSE IF n \in DOMAIN t.cells /\ Overlaps(comb[n - 1], t.cells[n])
        THEN Combine(comb[n - 1], t.cells[n])
        ELSE comb[n - 1]
  IN comb

Merged(t, lt, rb) == Sweep(t, lt, rb)[t.row * t.col]

(* Mutant of Merge: the new cell takes the number lt. *)
MergeAtFirst(t, lt, rb) ==
  LET comb == Sweep(t, lt, rb)
      kept == {n \in DOMAIN t.cells : ~Overlaps(comb[n - 1], t.cells[n])}
  IN IF {lt, rb} \subseteq DOMAIN t.cells
     THEN [t EXCEPT !.cells = [n \in kept \cup {lt} |->
                                 IF n = lt THEN Merged(t, lt, rb) ELSE t.cells[n]]]
     ELSE t

(* merge(lt, rb): the cells the rectangle met when it came to them go, and *)
(* the rectangle takes the number of its own top left slot.                *)
Merge(t, lt, rb) ==
  LET comb == Sweep(t, lt, rb)
      new == Merged(t, lt, rb)
      id == IdAt(t, new.r1, new.c1)
      kept == {n \in DOMAIN t.cells : ~Overlaps(comb[n - 1], t.cells[n])}
  IN IF {lt, rb} \subseteq DOMAIN t.cells
     THEN [t EXCEPT !.cells = [n \in kept \cup {id} |-> IF n = id THEN new ELSE t.cells[n]]]
     ELSE t
=============================================================================
