------------------------------ MODULE Automata ------------------------------
(***************************************************************************)
(* The cellular automata of the repository: CellularAutomatonEngine        *)
(* (os/kernels/aios_phase4_nn.py) with its two-state rules on a torus, and *)
(* CAWallpaper (os/desktop/aios_desktop.py) with Brian's Brain and two     *)
(* buffers that swap.  A grid is a function from flat indices to cells, as *)
(* the code's lists are; a pattern is a set of offsets.                    *)
(***************************************************************************)
EXTENDS Integers, FiniteSets

CONSTANTS
  GridRows, GridCols,   \* the torus
  MaxGenerations        \* bound on the generations that are run

VARIABLES
  rule,        \* which automaton runs: a name of RuleBook, or "brain"
  cells,       \* grid / _grid
  spare,       \* _next of the wallpaper: the buffer the next step writes
  generation,
  seeded       \* history: the pattern and the place it was put at

autVars == <<rule, cells, spare, generation, seeded>>

Dead == 0
Alive == 1
Dying == 2

Flat == 0 .. GridRows * GridCols - 1
RowOf(k) == k \div GridCols
ColOf(k) == k % GridCols

CellAt(r, c) == (r % GridRows) * GridCols + (c % GridCols)

Offsets == {<<dr, dc>> : dr \in -1 .. 1, dc \in -1 .. 1} \ {<<0, 0>>}

\* A fault: the neighbours beyond an edge are left out.
AroundInside(g, k) ==
  Cardinality({d \in Offsets : /\ RowOf(k) + d[1] \in 0 .. GridRows - 1
                               /\ ColOf(k) + d[2] \in 0 .. GridCols - 1
                               /\ g[CellAt(RowOf(k) + d[1], ColOf(k) + d[2])] = Alive})

\* The live cells among the eight around k; one is counted once per offset.
Around(g, k) ==
  Cardinality({d \in Offsets : g[CellAt(RowOf(k) + d[1], ColOf(k) + d[2])] = Alive})

RuleBook ==
  [life       |-> [birth |-> {3},          survive |-> {2, 3}],
   highlife   |-> [birth |-> {3, 6},       survive |-> {2, 3}],
   seeds      |-> [birth |-> {2},          survive |-> {}],
   replicator |-> [birth |-> {1, 3, 5, 7}, survive |-> {1, 3, 5, 7}]]

Evolved(g, r) ==
  [k \in Flat |-> IF Around(g, k) \in (IF g[k] = Alive THEN RuleBook[r].survive
                                                       ELSE RuleBook[r].birth)
                  THEN Alive ELSE Dead]

BrainEvolved(g) ==
  [k \in Flat |-> CASE g[k] = Alive -> Dying
                    [] g[k] = Dying -> Dead
                    [] OTHER -> IF Around(g, k) = 2 THEN Alive ELSE Dead]

Glider  == {<<0, 1>>, <<1, 2>>, <<2, 0>>, <<2, 1>>, <<2, 2>>}
Blinker == {<<0, 0>>, <<0, 1>>, <<0, 2>>}
Block   == {<<0, 0>>, <<0, 1>>, <<1, 0>>, <<1, 1>>}
Toad    == {<<0, 1>>, <<0, 2>>, <<0, 3>>, <<1, 0>>, <<1, 1>>, <<1, 2>>}

PlacePattern(g, pattern, row, col) ==
  [k \in Flat |-> IF \E d \in pattern : k = CellAt(row + d[1], col + d[2])
                  THEN Alive ELSE g[k]]

Empty == [k \in Flat |-> Dead]

\* What the patterns do in Life: after `period` generations they are where they
\* were, moved by `drift`.
Gallery ==
  {[shape |-> Glider,  period |-> 4, drift |-> 1],
   [shape |-> Blinker, period |-> 2, drift |-> 0],
   [shape |-> Block,   period |-> 1, drift |-> 0],
   [shape |-> Toad,    period |-> 2, drift |-> 0]}

AutInit ==
  /\ \E p \in Gallery, row \in 0 .. GridRows - 1, col \in 0 .. GridCols - 1,
        r \in {"life", "seeds", "brain"} :
       /\ rule = r
       /\ cells = PlacePattern(Empty, p.shape, row, col)
       /\ seeded = [pattern |-> p, row |-> row, col |-> col]
  /\ spare = Empty
  /\ generation = 0

StepEngine ==
  /\ rule # "brain" /\ generation < MaxGenerations
  /\ cells' = Evolved(cells, rule)
  /\ generation' = generation + 1
  /\ UNCHANGED <<rule, spare, seeded>>

\* The wallpaper writes into the spare buffer and swaps the two.
StepWallpaper ==
  /\ rule = "brain" /\ generation < MaxGenerations
  /\ cells' = BrainEvolved(cells)
  /\ spare' = cells
  /\ generation' = generation + 1
  /\ UNCHANGED <<rule, seeded>>

Clear ==
  /\ rule # "brain" /\ cells # Empty
  /\ cells' = Empty
  /\ seeded' = [seeded EXCEPT !.pattern = [shape |-> {}, period |-> 1, drift |-> 0]]
  /\ UNCHANGED <<rule, spare, generation>>

AutNext == StepEngine \/ StepWallpaper \/ Clear
AutSpec == AutInit /\ [][AutNext]_autVars

------------------------------------------------------------------------------
\* The shapes the engine ships do on the torus, wherever they are put and across
\* both edges, what they are named for: a glider travels one cell down and one
\* to the right in four generations, the others return ("Count live
\* Moore-neighbourhood cells (8 neighbours, toroidal)", aios_phase4_nn.py:1501).
PatternsPersist ==
  LET p == seeded.pattern
      n == (generation \div p.period) * p.drift
  IN  rule = "life" /\ generation % p.period = 0 =>
        cells = PlacePattern(Empty, p.shape, seeded.row + n, seeded.col + n)
==============================================================================
