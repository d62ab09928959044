---------------------------- MODULE AntSimulation -----------------------------
(***************************************************************************)
(* The world of examples/artificial_ant: an ant walks over a board that is  *)
(* closed at its borders and eats the food of a trail; the nodes of its     *)
(* tree say which way.  A field of the board is a number, row by row, as    *)
(* position_1d counts them, and size_t has Word values.                     *)
(*                                                                         *)
(* The evaluation of a tree is a sequence of steps here, one per node that  *)
(* is entered; todo holds the nodes the calls under way have still to       *)
(* enter.                                                                   *)
(***************************************************************************)
EXTENDS Terms, Integers, FiniteSets, Sequences

CONSTANT Word

\* size_t holds more than twice the numbers of the columns and rows of a board.
ASSUME WordAssumption == Word \in Nat /\ Word >= 64

VARIABLES
  sim,    \* the ant_simulation with its board and its ant
  todo

antVars == <<sim, todo>>

-----------------------------------------------------------------------------
(* board                                                                    *)

North == 0
East == 1
South == 2
West == 3

PosTo1d(b, x, y) == y * b.size_x + x

PosTo2d(b, pos) == [x |-> pos % b.size_x, y |-> pos \div b.size_x]

\* Mutant: the remainder of a number that may have wrapped.
WrapBare(i, size) == (i % Word) % size

\* A coordinate of size_t one beyond the border comes in at the other side.
Wrap(i, size) == (((i % Word) + size) % Word) % size

MovePos(b, pos, dir) ==
  LET p == PosTo2d(b, pos)
      dx == CASE dir = East -> 1 [] dir = West -> -1 [] OTHER -> 0
      dy == CASE dir = South -> 1 [] dir = North -> -1 [] OTHER -> 0
  IN  PosTo1d(b, Wrap(p.x + dx, b.size_x), Wrap(p.y + dy, b.size_y))

-----------------------------------------------------------------------------
(* ant and ant_simulation                                                   *)

\* The constructor; the trail is a map from fields to whether food is left there.
Simulation(size_x, size_y, trail, start, direction, max_steps) ==
  [size_x |-> size_x, size_y |-> size_y, trail |-> [p \in trail |-> TRUE],
   start_count |-> Cardinality(trail), eaten |-> 0,
   pos |-> PosTo1d([size_x |-> size_x], start[1], start[2]), dir |-> direction,
   steps |-> 0, max_steps |-> max_steps]

\* s has just been constructed, with its food and its ant on a board that size_t can count.
NewSimulation(s) ==
  LET start == PosTo2d(s, s.pos) fields == 0 .. s.size_x * s.size_y - 1 IN
  /\ \A size \in {s.size_x, s.size_y} : size \in Nat \ {0} /\ 2 * size <= Word
  /\ s.pos \in fields /\ DOMAIN s.trail \subseteq fields
  /\ s.dir \in North .. West /\ s.max_steps \in Nat
  /\ s = Simulation(s.size_x, s.size_y, DOMAIN s.trail, <<start.x, start.y>>, s.dir, s.max_steps)

HasFood(s, pos) == pos \in DOMAIN s.trail /\ s.trail[pos]

FoodInFront(s) == HasFood(s, MovePos(s, s.pos, s.dir))

TurnedLeft(s) ==
  [s EXCEPT !.dir = <<West, North, East, South>>[@ + 1], !.steps = @ + 1]

TurnedRight(s) ==
  [s EXCEPT !.dir = <<East, South, West, North>>[@ + 1], !.steps = @ + 1]

\* Mutant: the food stays where it was eaten.
MovedOver(s) ==
  LET pos == MovePos(s, s.pos, s.dir) IN
  [s EXCEPT !.pos = pos, !.steps = @ + 1, !.eaten = IF HasFood(s, pos) THEN @ + 1 ELSE @]

Moved(s) ==
  LET pos == MovePos(s, s.pos, s.dir)
      ant == [s EXCEPT !.pos = pos, !.steps = @ + 1]
  IN  IF HasFood(s, pos) THEN [ant EXCEPT !.eaten = @ + 1, !.trail[pos] = FALSE] ELSE ant

IsFinish(s) == s.eaten = s.start_count \/ s.steps >= s.max_steps

Score(s) == s.start_count - s.eaten

\* get_board_as_str: what is shown of each field.
BoardText(s) ==
  [pos \in 0 .. s.size_x * s.size_y - 1 |->
     IF pos = s.pos THEN <<"N", "E", "S", "W">>[s.dir + 1]
     ELSE IF pos \notin DOMAIN s.trail THEN " "
     ELSE IF s.trail[pos] THEN "0" ELSE "*"]

-----------------------------------------------------------------------------
(* The nodes and the evaluator                                              *)

\* while( ! c.is_finsh() ) t.root()->eval( c ), on a copy of the simulation.
Evaluate(tree) ==
  /\ todo = <<>> /\ ~ IsFinish(sim)
  /\ todo' = <<tree>>
  /\ UNCHANGED sim

\* prog2 and prog3 evaluate all their children.
Prog ==
  /\ todo # <<>> /\ Head(todo).v \in {"p2", "p3"}
  /\ todo' = Head(todo).sub \o Tail(todo)
  /\ UNCHANGED sim

IfFoodAhead ==
  /\ todo # <<>> /\ Head(todo).v = "if"
  /\ todo' = <<Head(todo).sub[IF FoodInFront(sim) THEN 1 ELSE 2]>> \o Tail(todo)
  /\ UNCHANGED sim

Terminal ==
  /\ todo # <<>> /\ Head(todo).v \in {"m", "l", "r"}
  /\ sim' = CASE Head(todo).v = "m" -> Moved(sim)
              [] Head(todo).v = "l" -> TurnedLeft(sim)
              [] Head(todo).v = "r" -> TurnedRight(sim)
  /\ todo' = Tail(todo)

Step == Prog \/ IfFoodAhead \/ Terminal

Finished == todo = <<>> /\ IsFinish(sim)

-----------------------------------------------------------------------------
(* The trail of Santa Fe: the columns with food, row by row                 *)

board1 ==
  <<  {1, 2, 3}, {3}, {3, 25, 26, 27}, {3, 24, 29}, {3, 24, 29},
      3 .. 6 \cup 8 .. 12 \cup {21, 22}, {12, 29}, {12, 20}, {12, 20}, {12, 20, 29}, {20}, {12},
      {12, 29}, {12, 20}, {12, 20, 26, 27, 28}, {17, 23}, {}, {12}, {12, 16, 24}, {12, 16, 27},
      {12, 16}, {12, 16}, {12, 26}, {12, 23}, 7 .. 11 \cup {3, 4, 16}, {1, 16}, {1, 16},
      8 .. 14 \cup {1}, {1, 7}, {7}, 2 .. 5, {}>>

MakeTrail(board, size_x, size_y) ==
  {PosTo1d([size_x |-> size_x], p[1], p[2]) :
     p \in {q \in (0 .. size_x - 1) \X (0 .. size_y - 1) : q[1] \in board[q[2] + 1]}}

SantaFe == Simulation(32, 32, MakeTrail(board1, 32, 32), <<0, 0>>, East, 400)
=============================================================================
