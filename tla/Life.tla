-------------------------------- MODULE Life ---------------------------------
(* The cellular automaton of the demonstration programs, as in                *)
(* src/software/programs/test_embedded/ecp5_cgol.c.                           *)
EXTENDS Naturals, Integers, FiniteSets

CONSTANTS CELL_COLS, CELL_ROWS,
          Held  \* the cells main() sets before every step

Columns == 0 .. CELL_COLS - 1
Lines == 0 .. CELL_ROWS - 1

\* The held cells are on the map: 10 .. 20 by 2 .. 23 of 64 x 64 and more.
ASSUME CellAssumption ==
  CELL_COLS \in Nat \ {0} /\ CELL_ROWS \in Nat \ {0} /\ Held \subseteq Columns \X Lines

Map == [0 .. CELL_ROWS * CELL_COLS - 1 -> BOOLEAN]
Empty == [i \in 0 .. CELL_ROWS * CELL_COLS - 1 |-> FALSE]

\* Mutant: the left neighbour of the first column is in the line above.
cell_i_unwrapped(X, Y) ==
  (Y % CELL_ROWS) * CELL_COLS + (IF X < 0 THEN 0 ELSE IF X >= CELL_COLS THEN X - CELL_COLS ELSE X)

cell_i(X, Y) ==
  LET x == IF X < 0 THEN X + CELL_COLS ELSE X
      xw == IF x >= CELL_COLS THEN x - CELL_COLS ELSE x
      y == IF Y < 0 THEN Y + CELL_ROWS ELSE Y
      yw == IF y >= CELL_ROWS THEN y - CELL_ROWS ELSE y
  IN  yw * CELL_COLS + xw

get_cell(map, X, Y) == map[cell_i(X, Y)]
set_cell(map, X, Y, state) == [map EXCEPT ![cell_i(X, Y)] = state]

count_neighbors(map, X, Y) ==
  LET n(dx, dy) == IF get_cell(map, X + dx, Y + dy) THEN 1 ELSE 0
  IN  n(-1, -1) + n(-1, 0) + n(-1, 1) + n(0, -1) + n(0, 1) + n(1, -1) + n(1, 0) + n(1, 1)

HoldCells(map) == [i \in DOMAIN map |-> map[i] \/ \E h \in Held : cell_i(h[1], h[2]) = i]

\* The map update computes from map.
NextMap(map) ==
  [i \in DOMAIN map |->
    LET n == count_neighbors(map, i % CELL_COLS, i \div CELL_COLS)
    IN  IF map[i] THEN n = 2 \/ n = 3 ELSE n = 3]

-----------------------------------------------------------------------------
(* The rule on the torus of cells: the set of living cells to the next.       *)

Cells == Columns \X Lines
Directions == ((-1 .. 1) \X (-1 .. 1)) \ {<<0, 0>>}
Toward(c, d) == <<(c[1] + d[1]) % CELL_COLS, (c[2] + d[2]) % CELL_ROWS>>
Alive(map) == {c \in Cells : map[c[2] * CELL_COLS + c[1]]}
Rule(alive) ==
  {c \in Cells : LET n == Cardinality({d \in Directions : Toward(c, d) \in alive})
                 IN  n = 3 \/ (n = 2 /\ c \in alive)}
==============================================================================
