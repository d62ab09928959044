---------------------------- MODULE Program_proofs ----------------------------
(***************************************************************************)
(* Theorems about EvolutionProgram.                                         *)
(***************************************************************************)
EXTENDS EvolutionProgram, FiniteSetTheorems, SequenceTheorems, WellFoundedInduction, TLAPS

-----------------------------------------------------------------------------
(* The board and the ant                                                    *)

\* A number that is at most one field beyond the border is wrapped to the other side.
LEMMA Wrapped ==
  ASSUME NEW size \in Nat \ {0}, 2 * size <= Word, NEW x \in 0 .. size - 1,
         NEW d \in {-1, 0, 1}
  PROVE  Wrap(x + d, size) = IF x + d = -1 THEN size - 1 ELSE IF x + d = size THEN 0 ELSE x + d
<1> USE WordAssumption
<1>1. CASE x + d = -1
  <2>1. (-1) % Word = Word - 1
    OBVIOUS
  <2>2. (Word - 1 + size) % Word = size - 1
    OBVIOUS
  <2>3. (size - 1) % size = size - 1
    OBVIOUS
  <2>4. QED
    BY <1>1, <2>1, <2>2, <2>3 DEF Wrap
<1>2. CASE x + d = size
  <2>1. size % Word = size
    OBVIOUS
  <2>2. ((size + size) % Word) % size = 0
    <3>1. CASE 2 * size = Word
      <4>1. (size + size) % Word = 0
        BY <3>1
      <4>2. QED
        BY <4>1
    <3>2. CASE 2 * size < Word
      <4>1. (size + size) % Word = size + size
        BY <3>2
      <4>2. (size + size) % size = 0
        OBVIOUS
      <4>3. QED
        BY <4>1, <4>2
    <3>3. QED
      BY <3>1, <3>2
  <2>3. QED
    BY <1>2, <2>1, <2>2 DEF Wrap
<1>3. CASE x + d \in 0 .. size - 1
  <2> DEFINE i == x + d
  <2>1. i \in 0 .. size - 1 /\ i + size < Word /\ i < Word
    BY <1>3
  <2> HIDE DEF i
  <2>2. i % Word = i
    BY <2>1
  <2>3. (i + size) % Word = i + size
    BY <2>1
  <2>4. (i + size) % size = i
    BY <2>1
  <2>5. Wrap(i, size) = i
    BY <2>2, <2>3, <2>4 DEF Wrap
  <2>6. QED
    BY <1>3, <2>5 DEF i
<1>4. QED
  BY <1>1, <1>2, <1>3

\* The numbers of the fields of a board, and of its columns and rows.
Fields(s) == 0 .. s.size_x * s.size_y - 1

\* The board is small enough for size_t.
BoardFits(s) ==
  /\ s.size_x \in Nat \ {0} /\ 2 * s.size_x <= Word
  /\ s.size_y \in Nat \ {0} /\ 2 * s.size_y <= Word

\* A field has a column and a row of the board.
LEMMA FieldCoordinates ==
  ASSUME NEW w \in Nat \ {0}, NEW h \in Nat \ {0}, NEW pos \in 0 .. w * h - 1
  PROVE  /\ pos % w \in 0 .. w - 1 /\ pos \div w \in 0 .. h - 1
<1>1. /\ pos % w \in 0 .. w - 1 /\ pos \div w \in Int
      /\ pos = w * (pos \div w) + (pos % w)
  OBVIOUS
<1> DEFINE q == pos \div w
<1>2. q \in Int /\ w * q <= pos /\ pos < w * q + w /\ pos < w * h
  BY <1>1
<1> HIDE DEF q
<1>3. q >= 0
  <2>1. SUFFICES ASSUME q <= -1 PROVE FALSE
    BY <1>2
  <2>2. w * (q + 1) <= 0
    BY <1>2, <2>1
  <2>3. QED
    BY <1>2, <2>2
<1>4. q < h
  <2>1. SUFFICES ASSUME q >= h PROVE FALSE
    BY <1>2
  <2>2. w * (q - h) >= 0
    BY <1>2, <2>1
  <2>3. QED
    BY <1>2, <2>2
<1>5. QED
  BY <1>1, <1>2, <1>3, <1>4 DEF q

\* A column and a row make a field, which has that column and that row.
LEMMA FieldOfCoordinates ==
  ASSUME NEW w \in Nat \ {0}, NEW h \in Nat \ {0},
         NEW x \in 0 .. w - 1, NEW y \in 0 .. h - 1
  PROVE  /\ y * w + x \in 0 .. w * h - 1
         /\ (y * w + x) % w = x
         /\ (y * w + x) \div w = y
<1>1. y * w + x \in Int /\ 0 <= y * w
  OBVIOUS
<1>2. (h - 1 - y) * w >= 0
  OBVIOUS
<1>3. y * w + x <= w * h - 1
  BY <1>2
<1>4. y * w + x \in 0 .. w * h - 1
  BY <1>1, <1>3
<1>5. (y * w + x) % w = x
  OBVIOUS
<1>6. (y * w + x) \div w = y
  OBVIOUS
<1>7. QED
  BY <1>4, <1>5, <1>6

\* One step along a coordinate is a step to a coordinate beside it.
LEMMA WrapBeside ==
  ASSUME NEW size \in Nat \ {0}, 2 * size <= Word, NEW x \in 0 .. size - 1,
         NEW d \in {-1, 0, 1}
  PROVE  /\ Wrap(x + d, size) \in 0 .. size - 1
         /\ d = 0 => Wrap(x + d, size) = x
         /\ d # 0 => Beside(x, Wrap(x + d, size), size)
<1> DEFINE r == Wrap(x + d, size)
<1>1. r = IF x + d = -1 THEN size - 1 ELSE IF x + d = size THEN 0 ELSE x + d
  BY Wrapped
<1> HIDE DEF r
<1>2. r \in 0 .. size - 1 /\ (d = 0 => r = x)
  BY <1>1
<1>3. \A i \in 0 .. size - 1 : (i + 1) % size = IF i + 1 = size THEN 0 ELSE i + 1
  <2> TAKE i \in 0 .. size - 1
  <2>1. CASE i + 1 = size
    <3>1. size % size = 0
      OBVIOUS
    <3>2. QED
      BY <2>1, <3>1
  <2>2. CASE i + 1 < size
    <3> DEFINE k == i + 1
    <3>1. k \in 0 .. size - 1 /\ k # size
      BY <2>2
    <3> HIDE DEF k
    <3>2. k % size = k
      BY <3>1
    <3>3. QED
      BY <3>1, <3>2 DEF k
  <2>3. QED
    BY <2>1, <2>2
<1>4. CASE d = 1
  <2>1. (x + 1) % size = r
    BY <1>1, <1>3, <1>4
  <2>2. QED
    BY <1>2, <1>4, <2>1 DEF r, Beside
<1>5. CASE d = -1
  <2>1. (r + 1) % size = x
    BY <1>1, <1>2, <1>3, <1>5
  <2>2. QED
    BY <1>2, <1>5, <2>1 DEF r, Beside
<1>6. QED
  BY <1>2, <1>4, <1>5 DEF r

\* A step in a direction leads from a field to one beside it.
LEMMA MovedBeside ==
  ASSUME NEW s, BoardFits(s), NEW pos \in Fields(s), NEW dir \in North .. West
  PROVE  LET p == PosTo2d(s, pos)
             q == PosTo2d(s, MovePos(s, pos, dir))
         IN  /\ MovePos(s, pos, dir) \in Fields(s)
             /\ \/ p.x = q.x /\ Beside(p.y, q.y, s.size_y)
                \/ p.y = q.y /\ Beside(p.x, q.x, s.size_x)
<1> DEFINE w == s.size_x
           h == s.size_y
           px == pos % w
           py == pos \div w
           dx == CASE dir = East -> 1 [] dir = West -> -1 [] OTHER -> 0
           dy == CASE dir = South -> 1 [] dir = North -> -1 [] OTHER -> 0
           qx == Wrap(px + dx, w)
           qy == Wrap(py + dy, h)
           to == MovePos(s, pos, dir)
<1>1. w \in Nat \ {0} /\ 2 * w <= Word /\ h \in Nat \ {0} /\ 2 * h <= Word
  BY DEF BoardFits
<1>2. to = qy * w + qx
  BY DEF MovePos, PosTo1d, PosTo2d
<1>3. PosTo2d(s, pos) = [x |-> px, y |-> py] /\ PosTo2d(s, to) = [x |-> to % w, y |-> to \div w]
  BY DEF PosTo2d
<1>4. /\ dx \in {-1, 0, 1} /\ dy \in {-1, 0, 1}
      /\ (dx = 0 /\ dy # 0) \/ (dy = 0 /\ dx # 0)
  BY DEF North, East, South, West
<1>5. px \in 0 .. w - 1 /\ py \in 0 .. h - 1
  BY <1>1, FieldCoordinates DEF Fields
<1> HIDE DEF dx, dy, px, py
<1>6. /\ qx \in 0 .. w - 1 /\ (dx = 0 => qx = px) /\ (dx # 0 => Beside(px, qx, w))
      /\ qy \in 0 .. h - 1 /\ (dy = 0 => qy = py) /\ (dy # 0 => Beside(py, qy, h))
  BY <1>1, <1>4, <1>5, WrapBeside
<1> HIDE DEF qx, qy, w, h
<1>7. to \in 0 .. w * h - 1 /\ to % w = qx /\ to \div w = qy
  BY <1>1, <1>2, <1>6, FieldOfCoordinates
<1> HIDE DEF to
<1>8. QED
  BY <1>3, <1>4, <1>6, <1>7 DEF to, w, h, Fields

-----------------------------------------------------------------------------
(* The simulation                                                           *)

Left(s) == {p \in DOMAIN s.trail : s.trail[p]}

\* What holds of every simulation: the ant is on the board, the board remembers where
\* food was, and the food eaten is what is missing of it.
Sound(s) ==
  /\ DOMAIN s = {"size_x", "size_y", "trail", "start_count", "eaten", "pos", "dir", "steps", "max_steps"}
  /\ BoardFits(s) /\ s.pos \in Fields(s) /\ s.dir \in North .. West
  /\ s.steps \in Nat /\ s.max_steps \in Nat /\ s.start_count \in Nat /\ s.eaten \in Nat
  /\ s.trail \in [DOMAIN s.trail -> BOOLEAN] /\ DOMAIN s.trail \subseteq Fields(s)
  /\ s.start_count - s.eaten = Cardinality(Left(s))

\* The food on a board is finite.
LEMMA FoodFinite ==
  ASSUME NEW s, BoardFits(s), NEW F, F \subseteq Fields(s)
  PROVE  IsFiniteSet(F) /\ Cardinality(F) \in Nat
<1>1. s.size_x * s.size_y - 1 \in Int
  BY DEF BoardFits
<1>2. IsFiniteSet(Fields(s))
  BY <1>1, FS_Interval DEF Fields
<1>3. QED
  BY <1>2, FS_Subset, FS_CardinalityType

\* A new simulation is sound.
LEMMA NewSound ==
  ASSUME NEW s, NewSimulation(s)
  PROVE  Sound(s)
<1> DEFINE T == DOMAIN s.trail
<1>1. /\ BoardFits(s) /\ s.pos \in Fields(s) /\ T \subseteq Fields(s)
      /\ s.dir \in North .. West /\ s.max_steps \in Nat
  BY DEF NewSimulation, BoardFits, Fields
<1>2. s = [size_x |-> s.size_x, size_y |-> s.size_y, trail |-> [p \in T |-> TRUE],
           start_count |-> Cardinality(T), eaten |-> 0, pos |-> s.pos, dir |-> s.dir,
           steps |-> 0, max_steps |-> s.max_steps]
  BY DEF NewSimulation, Simulation
<1>3. /\ DOMAIN s = {"size_x", "size_y", "trail", "start_count", "eaten", "pos", "dir", "steps", "max_steps"}
      /\ s.trail = [p \in T |-> TRUE] /\ s.start_count = Cardinality(T) /\ s.eaten = 0 /\ s.steps = 0
  BY <1>2
<1>4. Left(s) = T /\ s.trail \in [T -> BOOLEAN]
  BY <1>3 DEF Left
<1>5. Cardinality(T) \in Nat
  BY <1>1, FoodFinite
<1>6. QED
  BY <1>1, <1>3, <1>4, <1>5 DEF Sound

\* A turn keeps a simulation sound, and the ant where it is.
LEMMA TurnSound ==
  ASSUME NEW s, Sound(s)
  PROVE  /\ Sound(TurnedLeft(s)) /\ Sound(TurnedRight(s))
         /\ TurnedLeft(s).pos = s.pos /\ TurnedLeft(s).size_x = s.size_x
         /\ TurnedRight(s).pos = s.pos /\ TurnedRight(s).size_x = s.size_x
<1>1. ASSUME NEW d \in North .. West,
             NEW r, r = [s EXCEPT !.dir = d, !.steps = s.steps + 1]
      PROVE  Sound(r) /\ r.pos = s.pos /\ r.size_x = s.size_x
  <2>1. /\ DOMAIN r = DOMAIN s /\ r.dir = d /\ r.steps = s.steps + 1
        /\ r.size_x = s.size_x /\ r.size_y = s.size_y /\ r.trail = s.trail /\ r.pos = s.pos
        /\ r.start_count = s.start_count /\ r.eaten = s.eaten /\ r.max_steps = s.max_steps
    BY <1>1 DEF Sound
  <2>2. QED
    BY <2>1 DEF Sound, Left, Fields, BoardFits
<1>2. s.dir \in North .. West
  BY DEF Sound
<1>3. /\ <<West, North, East, South>>[s.dir + 1] \in North .. West
      /\ <<East, South, West, North>>[s.dir + 1] \in North .. West
  BY <1>2 DEF North, East, South, West
<1>4. /\ TurnedLeft(s) = [s EXCEPT !.dir = <<West, North, East, South>>[s.dir + 1], !.steps = s.steps + 1]
      /\ TurnedRight(s) = [s EXCEPT !.dir = <<East, South, West, North>>[s.dir + 1], !.steps = s.steps + 1]
  BY DEF TurnedLeft, TurnedRight, Sound
<1>5. QED
  BY <1>1, <1>3, <1>4

\* A move keeps a simulation sound: food that is eaten is counted and gone.
LEMMA MoveSound ==
  ASSUME NEW s, Sound(s)
  PROVE  /\ Sound(Moved(s))
         /\ Moved(s).pos = MovePos(s, s.pos, s.dir)
         /\ Moved(s).size_x = s.size_x
<1> DEFINE pos == MovePos(s, s.pos, s.dir)
           r == Moved(s)
<1>1. pos \in Fields(s)
  BY MovedBeside DEF Sound
<1> HIDE DEF pos
<1>2. /\ DOMAIN r = DOMAIN s /\ r.pos = pos /\ r.steps = s.steps + 1
      /\ r.size_x = s.size_x /\ r.size_y = s.size_y /\ r.dir = s.dir
      /\ r.start_count = s.start_count /\ r.max_steps = s.max_steps
      /\ r.eaten = IF HasFood(s, pos) THEN s.eaten + 1 ELSE s.eaten
      /\ r.trail = IF HasFood(s, pos) THEN [s.trail EXCEPT ![pos] = FALSE] ELSE s.trail
  BY DEF Moved, Sound, pos
<1> HIDE DEF r
<1>3. /\ r.trail \in [DOMAIN s.trail -> BOOLEAN]
      /\ Left(r) = IF HasFood(s, pos) THEN Left(s) \ {pos} ELSE Left(s)
      /\ HasFood(s, pos) => pos \in Left(s)
  BY <1>2 DEF Left, HasFood, Sound
<1>4. IsFiniteSet(Left(s)) /\ Cardinality(Left(s)) \in Nat
  BY FoodFinite DEF Sound, Left
<1>5. Cardinality(Left(r)) = IF HasFood(s, pos) THEN Cardinality(Left(s)) - 1 ELSE Cardinality(Left(s))
  BY <1>3, <1>4, FS_RemoveElement
<1>6. r.start_count - r.eaten = Cardinality(Left(r)) /\ r.eaten \in Nat /\ r.start_count \in Nat
  BY <1>2, <1>4, <1>5 DEF Sound
<1>7. Sound(r)
  BY <1>1, <1>2, <1>3, <1>6 DEF Sound, Fields, BoardFits
<1>8. QED
  BY <1>2, <1>7 DEF r, pos

\* The score is a number, that of the food that is left.
LEMMA ScoreOfSound ==
  ASSUME NEW s, Sound(s)
  PROVE  Score(s) = Cardinality(Left(s)) /\ Score(s) \in Nat
BY FoodFinite DEF Sound, Score, Left

\* The board of Santa Fe is new and small enough.
LEMMA SantaFeSound == Sound(SantaFe)
<1> DEFINE trail == MakeTrail(board1, 32, 32)
<1>1. trail \subseteq 0 .. 32 * 32 - 1
  <2>1. \A p \in (0 .. 32 - 1) \X (0 .. 32 - 1) : p[2] * 32 + p[1] \in 0 .. 32 * 32 - 1
    OBVIOUS
  <2>2. QED
    BY <2>1 DEF MakeTrail, PosTo1d
<1> HIDE DEF trail
<1>2. SantaFe = [size_x |-> 32, size_y |-> 32, trail |-> [p \in trail |-> TRUE],
                 start_count |-> Cardinality(trail), eaten |-> 0, pos |-> 0, dir |-> East,
                 steps |-> 0, max_steps |-> 400]
  BY DEF SantaFe, Simulation, PosTo1d, trail
<1> DEFINE s == SantaFe
<1>3. /\ DOMAIN s = {"size_x", "size_y", "trail", "start_count", "eaten", "pos", "dir", "steps", "max_steps"}
      /\ s.size_x = 32 /\ s.size_y = 32 /\ s.trail = [p \in trail |-> TRUE] /\ s.pos = 0 /\ s.dir = East
      /\ s.start_count = Cardinality(trail) /\ s.eaten = 0 /\ s.steps = 0 /\ s.max_steps = 400
  BY <1>2
<1> HIDE DEF s
<1>4. BoardFits(s) /\ trail \subseteq Fields(s)
  BY <1>1, <1>3, WordAssumption DEF BoardFits, Fields
<1>5. Cardinality(trail) \in Nat
  BY <1>4, FoodFinite
<1>6. Left(s) = trail /\ s.trail \in [trail -> BOOLEAN] /\ DOMAIN s.trail = trail
  BY <1>3 DEF Left
<1>7. s.pos \in Fields(s) /\ s.dir \in North .. West
  BY <1>3 DEF Fields, North, East, West
<1>8. Sound(s)
  BY <1>3, <1>4, <1>5, <1>6, <1>7 DEF Sound
<1>9. QED
  BY <1>8 DEF s

-----------------------------------------------------------------------------
(* The run of an individual on its own                                      *)

\* Every set of natural numbers with an element has a least one.
LEMMA LeastNumber ==
  ASSUME NEW T, T \subseteq Nat, T # {}
  PROVE  \E m \in T : \A k \in T : m <= k
<1>1. PICK m \in T : \A y \in T : <<y, m>> \notin OpToRel(<, Nat)
  BY NatLessThanWellFounded, WFMin
<1>2. \A k \in T : ~ (k < m)
  BY <1>1 DEF OpToRel
<1>3. QED
  BY <1>2

\* The configuration c, a simulation with the nodes still to enter, after one more step
\* of the evaluation of g.
NextConf(g, c) ==
  LET s == c[1]
      td == c[2]
      v == Head(td).v
  IN  IF td = <<>> THEN <<s, <<g>>>>
      ELSE IF v \in {"p2", "p3"} THEN <<s, Head(td).sub \o Tail(td)>>
      ELSE IF v = "if" THEN <<s, <<Head(td).sub[IF FoodInFront(s) THEN 1 ELSE 2]>> \o Tail(td)>>
      ELSE <<IF v = "m" THEN Moved(s) ELSE IF v = "l" THEN TurnedLeft(s) ELSE TurnedRight(s), Tail(td)>>

Halted(c) == c[2] = <<>> /\ IsFinish(c[1])

Start == <<AntWorld, <<>>>>

\* r is a run of g from the world of the ants, of n steps, that has not halted before.
IsRun(g, n, r) ==
  /\ n \in Nat /\ r[0] = Start
  /\ \A i \in 0 .. n - 1 : ~ Halted(r[i]) /\ r[i + 1] = NextConf(g, r[i])

Reached(g, c) == \E n \in Nat : \E r : IsRun(g, n, r) /\ r[n] = c

\* A run begins at the world of the ants with the formula still to enter.
LEMMA ReachedStart ==
  ASSUME NEW g
  PROVE  Reached(g, Start)
<1>1. IsRun(g, 0, [i \in {0} |-> Start])
  BY DEF IsRun
<1>2. QED
  BY <1>1 DEF Reached

\* One more step of a run that has not halted.
LEMMA ReachedNext ==
  ASSUME NEW g, NEW c, Reached(g, c), ~ Halted(c), NEW d, d = NextConf(g, c)
  PROVE  Reached(g, d)
<1>r. PICK n \in Nat : \E r : IsRun(g, n, r) /\ r[n] = c
  BY DEF Reached
<1>1. PICK r : IsRun(g, n, r) /\ r[n] = c
  BY <1>r
<1> DEFINE q == [i \in 0 .. n + 1 |-> IF i = n + 1 THEN d ELSE r[i]]
<1>2. q[n + 1] = d /\ \A i \in 0 .. n : q[i] = r[i]
  OBVIOUS
<1> HIDE DEF q
<1>3. n + 1 \in Nat /\ q[0] = Start
  BY <1>1, <1>2 DEF IsRun
<1>4. ASSUME NEW i \in 0 .. (n + 1) - 1
      PROVE  ~ Halted(q[i]) /\ q[i + 1] = NextConf(g, q[i])
  <2>1. CASE i = n
    BY <1>1, <1>2, <2>1
  <2>2. CASE i < n
    <3>1. i \in 0 .. n - 1 /\ i \in 0 .. n /\ i + 1 \in 0 .. n
      BY <2>2
    <3>2. q[i] = r[i] /\ q[i + 1] = r[i + 1]
      BY <1>2, <3>1
    <3>3. QED
      BY <1>1, <3>1, <3>2 DEF IsRun
  <2>3. QED
    BY <2>1, <2>2
<1>5. IsRun(g, n + 1, q)
  BY <1>3, <1>4 DEF IsRun
<1>6. QED
  BY <1>2, <1>3, <1>5 DEF Reached

\* Two runs of the same individual are the same as long as both go on.
LEMMA RunsAgree ==
  ASSUME NEW g, NEW n \in Nat, NEW m \in Nat, NEW r, NEW q,
         IsRun(g, n, r), IsRun(g, m, q), n <= m
  PROVE  \A i \in 0 .. n : r[i] = q[i]
<1> DEFINE Differ == {i \in 0 .. n : r[i] # q[i]}
<1>1. SUFFICES ASSUME Differ # {} PROVE FALSE
  OBVIOUS
<1>2. PICK k \in Differ : \A i \in Differ : k <= i
  <2>1. Differ \subseteq Nat
    OBVIOUS
  <2> HIDE DEF Differ
  <2>2. QED
    BY <1>1, <2>1, LeastNumber
<1>3. k # 0
  BY DEF IsRun
<1>4. k - 1 \in 0 .. n - 1 /\ k - 1 \in 0 .. m - 1 /\ r[k - 1] = q[k - 1] /\ (k - 1) + 1 = k
  BY <1>2, <1>3
<1>5. r[k] = NextConf(g, r[k - 1]) /\ q[k] = NextConf(g, q[k - 1])
  BY <1>4 DEF IsRun
<1>6. QED
  BY <1>2, <1>4, <1>5

\* An individual comes to one halt at most.
LEMMA OneHalt ==
  ASSUME NEW g, NEW c, NEW d, Reached(g, c), Reached(g, d), Halted(c), Halted(d)
  PROVE  c = d
<1>r. PICK n \in Nat : \E r : IsRun(g, n, r) /\ r[n] = c
  BY DEF Reached
<1>1. PICK r : IsRun(g, n, r) /\ r[n] = c
  BY <1>r
<1>q. PICK m \in Nat : \E q : IsRun(g, m, q) /\ q[m] = d
  BY DEF Reached
<1>2. PICK q : IsRun(g, m, q) /\ q[m] = d
  BY <1>q
<1>3. CASE n <= m
  <2>1. r[n] = q[n]
    BY <1>1, <1>2, <1>3, RunsAgree
  <2>2. ~ (n < m)
    BY <1>1, <1>2, <2>1 DEF IsRun
  <2>3. QED
    BY <1>1, <1>2, <1>3, <2>1, <2>2
<1>4. CASE m <= n
  <2>1. q[m] = r[m]
    BY <1>1, <1>2, <1>4, RunsAgree
  <2>2. ~ (m < n)
    BY <1>1, <1>2, <2>1 DEF IsRun
  <2>3. QED
    BY <1>1, <1>2, <1>4, <2>1, <2>2
<1>5. QED
  BY <1>3, <1>4

\* A run only comes to sound simulations.
LEMMA ReachedSound ==
  ASSUME NEW g, NEW c, Reached(g, c)
  PROVE  Sound(c[1])
<1>r. PICK n \in Nat : \E r : IsRun(g, n, r) /\ r[n] = c
  BY DEF Reached
<1>1. PICK r : IsRun(g, n, r) /\ r[n] = c
  BY <1>r
<1> DEFINE Bad == {i \in 0 .. n : ~ Sound(r[i][1])}
<1>2. SUFFICES ASSUME Bad # {} PROVE FALSE
  BY <1>1
<1>3. PICK k \in Bad : \A i \in Bad : k <= i
  <2>1. Bad \subseteq Nat
    OBVIOUS
  <2> HIDE DEF Bad
  <2>2. QED
    BY <1>2, <2>1, LeastNumber
<1>4. k # 0
  BY <1>1, <1>3, WorldAssumption, NewSound DEF IsRun, Start
<1>5. k - 1 \in 0 .. n - 1 /\ Sound(r[k - 1][1]) /\ (k - 1) + 1 = k
  BY <1>3, <1>4
<1>6. r[k] = NextConf(g, r[k - 1])
  BY <1>1, <1>5 DEF IsRun
<1> DEFINE d == r[k - 1]
<1>7. NextConf(g, d)[1] \in {d[1], Moved(d[1]), TurnedLeft(d[1]), TurnedRight(d[1])}
  BY DEF NextConf
<1>8. Sound(NextConf(g, d)[1])
  BY <1>5, <1>7, MoveSound, TurnSound
<1>9. QED
  BY <1>3, <1>6, <1>8

-----------------------------------------------------------------------------
(* Fitness                                                                  *)

Value == Nat \cup {Broken}

\* The fitness v of the individual g in a program with this kind of fitness: that of its
\* formula, or the score of its own run from the world of the ants.
HasFitness(kind, g, v) ==
  IF kind = "ant" THEN \E c : Reached(g, c) /\ Halted(c) /\ v = Score(c[1])
  ELSE v = IF kind = "regression" /\ Chi2[g] = Broken THEN Worst ELSE Chi2[g]

\* An individual has one fitness.
LEMMA OneFitness ==
  ASSUME NEW kind, NEW g, NEW v, NEW w, HasFitness(kind, g, v), HasFitness(kind, g, w)
  PROVE  v = w
BY OneHalt DEF HasFitness

\* The fitness of a formula.
LEMMA FitnessOfFormula ==
  ASSUME NEW g \in Formula, program.fitness # "ant"
  PROVE  /\ FormulaFitness(g) \in Value /\ HasFitness(program.fitness, g, FormulaFitness(g))
         /\ program.fitness = "regression" => FormulaFitness(g) # Broken
BY ProgramAssumption DEF FormulaFitness, HasFitness, Value

\* Every fitness seen is no better than that of an individual of the population p.
Covered(kind, p, sn) ==
  \A f \in sn : \E i \in 1 .. PopSize : \E v \in Value :
    HasFitness(kind, p[i], v) /\ ~ Fitter(f, v)

\* The first individual of the programs that compare chi2 has a number.
GoodFront(kind, p) == kind = "chi2" => Chi2[p[1]] # Broken

\* "Not fitter" is an order of all values.
LEMMA FitterOrder ==
  ASSUME NEW f \in Value, NEW g \in Value, NEW h \in Value
  PROVE  /\ ~ Fitter(f, f)
         /\ ~ Fitter(f, g) /\ ~ Fitter(g, h) => ~ Fitter(f, h)
         /\ Fitter(f, g) => ~ Fitter(g, f)
         /\ f # Broken => (Fitter(g, f) <=> Less(g, f))
         /\ f # Broken /\ ~ Fitter(f, g) => g # Broken
BY ProgramAssumption DEF Fitter, Less, Value

\* What std::min_element gives for a population that does not begin with NaN.
LEMMA MinElementFound ==
  ASSUME NEW f \in [1 .. PopSize -> Value]
  PROVE  /\ MinElement(f) \in 1 .. PopSize
         /\ f[1] # Broken =>
              /\ f[MinElement(f)] # Broken
              /\ \A i \in 1 .. PopSize : ~ Less(f[i], f[MinElement(f)])
         /\ f[1] = Broken => MinElement(f) = 1
<1>1. PopSize \in Nat \ {0} /\ DOMAIN f = 1 .. PopSize /\ 1 \in 1 .. PopSize
  BY ProgramAssumption
<1>2. CASE f[1] = Broken
  BY <1>1, <1>2 DEF MinElement
<1>3. CASE f[1] # Broken
  <2> DEFINE Vals == {v \in Nat : \E i \in 1 .. PopSize : f[i] = v}
  <2>1. f[1] \in Nat
    BY <1>1, <1>3 DEF Value
  <2>2. PICK v \in Vals : \A w \in Vals : v <= w
    <3>1. Vals # {} /\ Vals \subseteq Nat
      BY <1>1, <2>1
    <3> HIDE DEF Vals
    <3>2. QED
      BY <3>1, LeastNumber
  <2>3. \A i \in 1 .. PopSize : f[i] # Broken => f[i] \in Nat /\ v <= f[i]
    BY <2>2 DEF Value
  <2> DEFINE At == {i \in 1 .. PopSize : f[i] = v}
  <2>4. PICK k \in At : \A i \in At : k <= i
    <3>1. At # {} /\ At \subseteq Nat
      BY <2>2, <1>1
    <3> HIDE DEF At
    <3>2. QED
      BY <3>1, LeastNumber
  <2>5. k \in 1 .. PopSize /\ f[k] = v /\ v \in Nat /\ v # Broken
    BY <2>2, <2>4, ProgramAssumption
  <2>6. \A i \in 1 .. k - 1 : i \in 1 .. PopSize /\ f[i] # v
    BY <1>1, <2>4, <2>5
  <2>7. /\ f[k] # Broken
        /\ \A i \in DOMAIN f : ~ Less(f[i], f[k])
        /\ \A i \in 1 .. k - 1 : f[i] = Broken \/ Less(f[k], f[i])
    BY <1>1, <2>3, <2>5, <2>6 DEF Less
  <2> DEFINE Right(j) == /\ f[j] # Broken
                         /\ \A i \in DOMAIN f : ~ Less(f[i], f[j])
                         /\ \A i \in 1 .. j - 1 : f[i] = Broken \/ Less(f[j], f[i])
  <2>8. MinElement(f) = CHOOSE j \in DOMAIN f : Right(j)
    BY <1>3 DEF MinElement
  <2>9. \E j \in DOMAIN f : Right(j)
    BY <1>1, <2>5, <2>7
  <2> HIDE DEF Right
  <2>10. MinElement(f) \in DOMAIN f /\ Right(MinElement(f))
    BY <2>8, <2>9
  <2>11. QED
    BY <1>1, <1>3, <2>10 DEF Right
<1>4. QED
  BY <1>2, <1>3

\* The winner is an individual no other one is fitter than.
LEMMA WinnerFittest ==
  ASSUME NEW k \in Winners, fitness \in [1 .. PopSize -> Value],
         program.winner = "min_element" => fitness[1] # Broken
  PROVE  k \in 1 .. PopSize /\ \A i \in 1 .. PopSize : ~ Fitter(fitness[i], fitness[k])
<1>1. CASE program.winner = "min_element"
  <2>1. k = MinElement(fitness)
    BY <1>1 DEF Winners
  <2>2. /\ k \in 1 .. PopSize /\ fitness[k] # Broken
        /\ \A i \in 1 .. PopSize : ~ Less(fitness[i], fitness[k])
    BY <1>1, <2>1, MinElementFound
  <2>3. QED
    BY <2>2 DEF Fitter
<1>2. CASE program.winner # "min_element"
  BY <1>2 DEF Winners, FirstSorted
<1>3. QED
  BY <1>1, <1>2

-----------------------------------------------------------------------------
(* The programs                                                             *)

\* What the proofs use of the records of the programs.
ProgramFields(p) ==
  /\ p.fitness \in {"regression", "chi2", "ant"} /\ p.loop \in {"for", "do", "tests"}
  /\ p.fitness = "ant" <=> p.loop # "for"
  /\ p.fitness = "ant" => p.winner = "min_element" /\ p.stop = "small"
  /\ p.fitness # "ant" => p.distinct = "no" /\ p.elite = 1 /\ p.winner = "sort_indices"
  /\ p.elite \in Nat /\ p.generations \in Nat /\ p.rounds \in Nat

\* Every program has its fields, and the one that plots runs its loop at least once.
LEMMA ProgramFacts ==
  ASSUME program \in Programs
  PROVE  /\ ProgramFields(program)
         /\ Plots => program.loop = "do" /\ program.distinct = "no"
<1>1. ASSUME NEW g \in Nat, NEW p, p = [symb_reg EXCEPT !.generations = g]
      PROVE  ProgramFields(p)
  BY <1>1 DEF ProgramFields, symb_reg
<1>2. ProgramFields(symb_reg)
  BY DEF ProgramFields, symb_reg
<1>3. /\ ProgramFields(symb_reg_basic_tree) /\ ProgramFields(symb_reg_basic_tree_erc)
      /\ ProgramFields(pagie2) /\ ProgramFields(pagie2_intrusive)
  BY <1>1 DEF symb_reg_basic_tree, symb_reg_basic_tree_erc, pagie2, pagie2_intrusive
<1>4. ProgramFields(lorenz)
  BY DEF ProgramFields, lorenz, symb_reg
<1>5. ProgramFields(lorenz_multi)
  BY DEF ProgramFields, lorenz_multi, lorenz, symb_reg
<1>6. ProgramFields(lorenz_single)
  BY DEF ProgramFields, lorenz_single, lorenz_multi, lorenz, symb_reg
<1>7. ProgramFields(artificial_ant)
  BY DEF ProgramFields, artificial_ant
<1>8. ProgramFields(artificial_ant_stat)
  BY DEF ProgramFields, artificial_ant_stat, artificial_ant
<1>9. /\ ProgramFields(artificial_ant_plots)
      /\ artificial_ant_plots.loop = "do" /\ artificial_ant_plots.distinct = "no"
  BY DEF ProgramFields, artificial_ant_plots, artificial_ant
<1>10. ProgramFields(artificial_ant_tests)
  BY DEF ProgramFields, artificial_ant_tests, artificial_ant
<1>11. QED
  BY <1>2, <1>3, <1>4, <1>5, <1>6, <1>7, <1>8, <1>9, <1>10
     DEF Programs, Plots, symb_reg_erc, symb_reg_simplify, symbolic_regression
-----------------------------------------------------------------------------
(* The inductive invariant                                                  *)

Phases == {"create", "evaluate", "simulate", "evolve", "finish", "row", "done", "thrown", "manual"}

Placed ==
  /\ program \in Programs /\ phase \in Phases
  /\ Testing => phase \in {"simulate", "manual", "done"}
  /\ ~ Testing => phase # "manual"
  /\ phase = "row" => Plots /\ at = 0

\* A population is being drawn.  The last individual may be one that is not kept.
Drawing ==
  ~ Testing /\ phase = "create" =>
    /\ generation = 0 /\ at \in 0 .. PopSize
    /\ pop \in Seq(Individuals) /\ Len(pop) \in {at, at + 1}
    /\ at = PopSize \/ program.loop # "for" => Len(pop) = at
    /\ program.loop # "for" => seen = {}
    /\ program.loop = "for" =>
         /\ fitness \in Seq(Value) /\ Len(fitness) = Len(pop)
         /\ \A i \in 1 .. at : HasFitness(program.fitness, pop[i], fitness[i])
         /\ \A i \in 1 .. at : program.fitness = "chi2" => fitness[i] # Broken
         /\ seen \subseteq {fitness[i] : i \in 1 .. at}
    /\ program.distinct # "no" => \A i, j \in 1 .. at : pop[i] = pop[j] => i = j

\* There is a population; the first at of its individuals have been evaluated, all of
\* them when a pipeline is called.
Populated ==
  ~ Testing /\ phase \in {"evaluate", "simulate", "evolve", "finish"} =>
    /\ pop \in [1 .. PopSize -> Individuals] /\ fitness \in [1 .. PopSize -> Value]
    /\ GoodFront(program.fitness, pop)
    /\ seen \subseteq Value /\ (NumberElite > 0 => Covered(program.fitness, pop, seen))

Evaluating ==
  ~ Testing /\ phase \in {"evaluate", "simulate"} =>
    /\ generation \in 0 .. MaxGenerations - 1 /\ at \in 0 .. PopSize
    /\ phase = "simulate" => at < PopSize /\ program.fitness = "ant"
    /\ \A i \in 1 .. at : HasFitness(program.fitness, pop[i], fitness[i])
    /\ program.distinct # "no" /\ generation = 0 => Cardinality(ToSet(pop)) = PopSize

Rated ==
  ~ Testing /\ phase \in {"evolve", "finish"} =>
    /\ at = 0 /\ \A i \in 1 .. PopSize : HasFitness(program.fitness, pop[i], fitness[i])
    /\ phase = "evolve" =>
         /\ generation \in 0 .. MaxGenerations - 1
         /\ generation = 0 => program.distinct = "no"
         /\ generation > 0 /\ program.stop = "small" => \A i \in 1 .. PopSize : fitness[i] # 0
    /\ phase = "finish" =>
         /\ generation \in 1 .. MaxGenerations
         /\ generation < Generations =>
              program.stop = "small" /\ \E i \in 1 .. PopSize : fitness[i] = 0

\* What the ants do, each on its own, and the three simulations of the test.
Simulated ==
  /\ Sound(sim)
  /\ ~ Testing => IF phase = "simulate" THEN Reached(pop[at + 1], <<sim, todo>>)
                  ELSE sim = AntWorld /\ todo = <<>>
  /\ Testing =>
       /\ results \in Seq(Nat)
       /\ phase = "simulate" => Len(results) \in {0, 2}
       /\ phase = "manual" => Len(results) = 1

Recorded ==
  ~ Testing =>
    /\ results \in Seq([generation : 1 .. MaxGenerations, best : Value])
    /\ \A i \in 1 .. Len(results) : results[i].generation < Generations =>
         program.stop = "small" /\ results[i].best = 0

LastOf(r) == IF IterationMax(r) > 0 THEN IterationMax(r) ELSE 0

\* The ranges the program can have.
FRange == [start : Int, end : Int, step : Int \ {0}, below : BOOLEAN, iteration : Nat]

\* The ranges rg after rw rows: each has moved with the rows up to its last value.
InStep(rg, rw) ==
  /\ DOMAIN Defaults \subseteq DOMAIN rg
  /\ rg = [a \in DOMAIN rg |-> rg[a]]
  /\ \A a \in DOMAIN rg : rg[a] \in FRange
  /\ rw \in Nat
  /\ \A a \in DOMAIN rg : rg[a].iteration = Least(rw, LastOf(rg[a]))

MoreToWrite(rg, rw) == \E a \in DOMAIN rg : rw <= LastOf(rg[a])

AllWritten(rg, rw) ==
  /\ \E a \in DOMAIN rg : rw = LastOf(rg[a]) + 1
  /\ \A a \in DOMAIN rg : LastOf(rg[a]) < rw

Plotted ==
  Plots => /\ InStep(ranges, rows)
           /\ IF phase = "done" THEN AllWritten(ranges, rows) ELSE MoreToWrite(ranges, rows)

IInv == Placed /\ Drawing /\ Populated /\ Evaluating /\ Rated /\ Simulated /\ Recorded /\ Plotted

-----------------------------------------------------------------------------
\* What the bounds of the model are.
LEMMA Bounds ==
  /\ PopSize \in Nat \ {0} /\ 1 \in 1 .. PopSize
  /\ MaxGenerations \in Nat \ {0} /\ MaxElite \in 1 .. PopSize /\ MaxElite \in Nat
<1>1. PopSize \in Nat \ {0} /\ MaxGenerations \in Nat \ {0}
  BY ProgramAssumption
<1>2. QED
  BY <1>1, ProgramAssumption

-----------------------------------------------------------------------------
(* Lemmas about populations                                                 *)

\* The numbers of elements of a population of n different individuals is n.
LEMMA AllDifferent ==
  ASSUME NEW n \in Nat, NEW S, NEW s \in [1 .. n -> S],
         \A i, j \in 1 .. n : s[i] = s[j] => i = j
  PROVE  IsFiniteSet(ToSet(s)) /\ Cardinality(ToSet(s)) = n
<1>1. s \in [1 .. n -> ToSet(s)] /\ \A x \in ToSet(s) : \E i \in 1 .. n : s[i] = x
  BY DEF ToSet
<1>2. s \in Bijection(1 .. n, ToSet(s))
  BY <1>1 DEF Bijection, Injection, Surjection, IsInjective
<1>3. ExistsBijection(1 .. n, ToSet(s))
  BY <1>2 DEF ExistsBijection
<1>4. IsFiniteSet(1 .. n) /\ Cardinality(1 .. n) = n
  BY FS_Interval
<1>5. QED
  BY <1>3, <1>4, FS_Bijection

\* The order of a set of different individuals keeps them all.
LEMMA Reordered ==
  ASSUME NEW n \in Nat, NEW S, NEW s \in [1 .. n -> S],
         \A i, j \in 1 .. n : s[i] = s[j] => i = j,
         NEW r \in SetToSeqs(ToSet(s))
  PROVE  r \in [1 .. n -> S] /\ Cardinality(ToSet(r)) = n
<1>1. Cardinality(ToSet(s)) = n
  BY AllDifferent
<1>2. r \in [1 .. n -> ToSet(s)] /\ \A i, j \in 1 .. n : i # j => r[i] # r[j]
  BY <1>1 DEF SetToSeqs
<1>3. r \in [1 .. n -> S]
  <2>1. ToSet(s) \subseteq S
    BY DEF ToSet
  <2>2. QED
    BY <1>2, <2>1
<1>4. QED
  BY <1>2, <1>3, AllDifferent

\* A sequence of known length is a function from its positions.
LEMMA SeqAsFunction ==
  ASSUME NEW S, NEW n \in Nat, NEW s \in Seq(S), Len(s) = n
  PROVE  s \in [1 .. n -> S]
BY LenProperties, ElementOfSeq

\* The n first elements of a sequence and one more.
LEMMA CutAndAppended ==
  ASSUME NEW S, NEW s \in Seq(S), NEW n \in Nat, n <= Len(s), NEW g \in S,
         NEW r, r = Append(SubSeq(s, 1, n), g)
  PROVE  /\ r \in Seq(S) /\ Len(r) = n + 1 /\ r[n + 1] = g
         /\ \A i \in 1 .. n : r[i] = s[i]
<1>1. \A i \in 1 .. n : s[i] \in S
  BY ElementOfSeq
<1> DEFINE c == SubSeq(s, 1, n)
<1>2. c \in Seq(S) /\ Len(c) = n /\ \A i \in 1 .. n : c[i] = s[i]
  BY <1>1, SubSeqProperties
<1> HIDE DEF c
<1>3. /\ Append(c, g) \in Seq(S) /\ Len(Append(c, g)) = n + 1 /\ Append(c, g)[n + 1] = g
      /\ \A i \in 1 .. n : Append(c, g)[i] = c[i]
  BY <1>2, AppendProperties
<1>4. QED
  BY <1>2, <1>3 DEF c

-----------------------------------------------------------------------------
(* What the actions have in common                                          *)

\* The limits depend on the program and its arguments only.
LEMMA LimitsKept ==
  ASSUME program' = program, ranges' = ranges
  PROVE  /\ Testing' = Testing /\ Plots' = Plots /\ Individuals' = Individuals
         /\ Generations' = Generations /\ NumberElite' = NumberElite /\ Rounds' = Rounds
BY DEF Testing, Plots, Individuals, Generations, NumberElite, Rounds

\* The limits are numbers below their bounds.
LEMMA Limits ==
  ASSUME Placed, Plotted
  PROVE  /\ Generations \in Int /\ Generations <= MaxGenerations
         /\ NumberElite \in Int /\ NumberElite <= MaxElite
         /\ program.fitness # "ant" => NumberElite = 1
<1>1. ProgramFields(program) /\ (Plots => program.loop = "do")
  BY ProgramFacts DEF Placed
<1>2. CASE Plots
  <2>1. ranges.generation_max \in FRange /\ ranges.number_elite \in FRange
    <3>1. {"generation_max", "number_elite"} \subseteq DOMAIN ranges
      BY <1>2 DEF Plotted, InStep, Defaults
    <3>2. QED
      BY <1>2, <3>1 DEF Plotted, InStep
  <2>2. ValueOf(ranges.generation_max) \in Int /\ ValueOf(ranges.number_elite) \in Int
    BY <2>1 DEF ValueOf, FRange
  <2>3. program.fitness = "ant"
    BY <1>1, <1>2 DEF ProgramFields
  <2>4. MaxGenerations \in Int /\ MaxElite \in Int
    BY Bounds
  <2>5. /\ Generations = Least(ValueOf(ranges.generation_max), MaxGenerations)
        /\ NumberElite = Least(ValueOf(ranges.number_elite), MaxElite)
    BY <1>2 DEF Generations, NumberElite
  <2>6. QED
    BY <2>2, <2>3, <2>4, <2>5 DEF Least
<1>3. CASE ~ Plots
  <2>1. /\ Generations = Least(program.generations, MaxGenerations)
        /\ NumberElite = Least(program.elite, MaxElite)
    BY <1>3 DEF Generations, NumberElite
  <2>2. /\ program.generations \in Nat /\ program.elite \in Nat
        /\ program.fitness # "ant" => program.elite = 1
    BY <1>1 DEF ProgramFields
  <2>3. MaxGenerations \in Int /\ MaxElite \in Int /\ MaxElite >= 1
    BY Bounds
  <2>4. QED
    BY <2>1, <2>2, <2>3 DEF Least
<1>4. QED
  BY <1>2, <1>3

\* A step that writes no row keeps what is said of the rows.
LEMMA PlottedKept ==
  ASSUME Plotted, UNCHANGED <<program, ranges, rows>>,
         Plots => phase # "done" /\ phase' # "done"
  PROVE  Plotted'
<1>1. Plots' = Plots
  BY LimitsKept
<1>2. QED
  BY <1>1 DEF Plotted

\* A step that ends no run keeps what is said of the results.
LEMMA RecordedKept ==
  ASSUME Recorded, UNCHANGED <<program, ranges, results>>
  PROVE  Recorded'
<1>1. Testing' = Testing /\ Generations' = Generations
  BY LimitsKept
<1>2. QED
  BY <1>1 DEF Recorded

\* Where no ant is simulated, the simulation rests.
LEMMA SimulatedKept ==
  ASSUME Simulated, ~ Testing, phase # "simulate", phase' # "simulate",
         UNCHANGED <<program, ranges, sim, todo>>
  PROVE  Simulated'
<1>1. ~ Testing'
  BY LimitsKept
<1>2. QED
  BY <1>1 DEF Simulated

\* Another phase of a program keeps Placed.
LEMMA PlacedKept ==
  ASSUME Placed, ~ Testing, UNCHANGED <<program, ranges>>,
         phase' \in {"create", "evaluate", "simulate", "evolve", "finish", "done", "thrown"}
  PROVE  Placed'
<1>1. Testing' = Testing /\ Plots' = Plots
  BY LimitsKept
<1>2. QED
  BY <1>1 DEF Placed, Phases

-----------------------------------------------------------------------------
(* The actions that create a population                                     *)

\* A draw of the generator adds one individual.
LEMMA DrawKeeps ==
  ASSUME IInv, NEW g \in Individuals, Draw(g)
  PROVE  IInv'
<1> DEFINE f == FormulaFitness(g)
           kept == program.fitness = "chi2" => IsNumber(f)
<1>1. /\ phase = "create" /\ phase' = "create" /\ at < PopSize /\ program.distinct = "no"
      /\ pop' = Append(SubSeq(pop, 1, at), g)
      /\ UNCHANGED <<program, phase, tries, generation, results, ranges, rows, sim, todo>>
  BY DEF Draw, antVars
<1>2. Placed /\ Drawing /\ Simulated /\ Recorded /\ Plotted /\ ~ Testing
  BY <1>1 DEF IInv, Placed
<1>3. Testing' = Testing /\ Individuals' = Individuals
  BY <1>1, LimitsKept
<1>4. /\ generation = 0 /\ at \in 0 .. PopSize /\ at \in Nat /\ at <= Len(pop)
      /\ pop \in Seq(Individuals)
      /\ program.loop # "for" => Len(pop) = at /\ seen = {}
      /\ program.loop = "for" =>
           /\ fitness \in Seq(Value) /\ Len(fitness) = Len(pop)
           /\ \A i \in 1 .. at : HasFitness(program.fitness, pop[i], fitness[i])
           /\ \A i \in 1 .. at : program.fitness = "chi2" => fitness[i] # Broken
           /\ seen \subseteq {fitness[i] : i \in 1 .. at}
  <2>1. Len(pop) \in Nat
    BY <1>1, <1>2, LenProperties DEF Drawing
  <2>2. QED
    BY <1>1, <1>2, <2>1, Bounds DEF Drawing
<1>5. /\ pop' \in Seq(Individuals) /\ Len(pop') = at + 1 /\ pop'[at + 1] = g
      /\ \A i \in 1 .. at : pop'[i] = pop[i]
  BY <1>1, <1>4, CutAndAppended
<1>6. Drawing'
  <2>1. CASE program.loop = "for"
    <3>1. program.fitness # "ant" /\ g \in Formula
      BY <1>2, <2>1, ProgramFacts DEF Placed, ProgramFields, Individuals
    <3>2. f \in Value /\ HasFitness(program.fitness, g, f)
      BY <3>1, FitnessOfFormula
    <3>3. /\ fitness' = Append(SubSeq(fitness, 1, at), f)
          /\ at' = IF kept THEN at + 1 ELSE at
          /\ seen' = IF kept THEN seen \cup {f} ELSE seen
      BY <2>1 DEF Draw
    <3> HIDE DEF f
    <3>4. /\ fitness' \in Seq(Value) /\ Len(fitness') = at + 1 /\ fitness'[at + 1] = f
          /\ \A i \in 1 .. at : fitness'[i] = fitness[i]
      BY <1>4, <2>1, <3>2, <3>3, CutAndAppended
    <3>5. /\ \A i \in 1 .. at : HasFitness(program.fitness, pop'[i], fitness'[i])
          /\ \A i \in 1 .. at : program.fitness = "chi2" => fitness'[i] # Broken
          /\ seen \subseteq {fitness'[i] : i \in 1 .. at}
      BY <1>4, <1>5, <2>1, <3>4
    <3>6. HasFitness(program.fitness, pop'[at + 1], fitness'[at + 1])
      BY <1>5, <3>2, <3>4
    <3>7. at' \in 0 .. PopSize /\ Len(pop') \in {at', at' + 1} /\ (at' = PopSize => Len(pop') = at')
      BY <1>1, <1>4, <1>5, <3>3, Bounds
    <3>8. /\ \A i \in 1 .. at' : HasFitness(program.fitness, pop'[i], fitness'[i])
          /\ \A i \in 1 .. at' : program.fitness = "chi2" => fitness'[i] # Broken
      <4> SUFFICES ASSUME NEW i \in 1 .. at'
                   PROVE  /\ HasFitness(program.fitness, pop'[i], fitness'[i])
                          /\ program.fitness = "chi2" => fitness'[i] # Broken
        OBVIOUS
      <4>1. CASE i \in 1 .. at
        BY <3>5, <4>1
      <4>2. CASE i \notin 1 .. at
        <5>1. i = at + 1 /\ kept
          BY <1>4, <3>3, <4>2
        <5>2. QED
          BY <3>4, <3>6, <5>1 DEF IsNumber
      <4>3. QED
        BY <4>1, <4>2
    <3>9. seen' \subseteq {fitness'[i] : i \in 1 .. at'}
      <4>1. CASE kept
        <5>1. at' = at + 1 /\ seen' = seen \cup {f}
          BY <3>3, <4>1
        <5>2. QED
          BY <1>4, <3>4, <3>5, <5>1
      <4>2. CASE ~ kept
        <5>1. at' = at /\ seen' = seen
          BY <3>3, <4>2
        <5>2. QED
          BY <3>5, <5>1
      <4>3. QED
        BY <4>1, <4>2
    <3>10. generation' = 0 /\ program' = program /\ Len(fitness') = Len(pop')
      BY <1>1, <1>4, <1>5, <3>4
    <3>11. QED
      BY <1>1, <1>3, <1>5, <2>1, <3>4, <3>7, <3>8, <3>9, <3>10 DEF Drawing
  <2>2. CASE program.loop # "for"
    <3>1. at' = at + 1 /\ seen' = {}
      BY <1>4, <2>2 DEF Draw
    <3>2. at' \in 0 .. PopSize /\ Len(pop') = at' /\ generation' = 0
      BY <1>1, <1>4, <1>5, <3>1, Bounds
    <3>3. QED
      BY <1>1, <1>3, <1>5, <2>2, <3>1, <3>2 DEF Drawing
  <2>3. QED
    BY <2>1, <2>2
<1>7. Populated' /\ Evaluating' /\ Rated'
  BY <1>1 DEF Populated, Evaluating, Rated
<1>8. Placed'
  BY <1>1, <1>2, PlacedKept
<1>9. Simulated' /\ Recorded' /\ Plotted'
  BY <1>1, <1>2, SimulatedKept, RecordedKept, PlottedKept
<1>10. QED
  BY <1>6, <1>7, <1>8, <1>9 DEF IInv

\* So does one of the set of distinct individuals, if it is new.
LEMMA DrawDistinctKeeps ==
  ASSUME IInv, NEW g \in Individuals, DrawDistinct(g)
  PROVE  IInv'
<1>1. /\ phase = "create" /\ phase' = "create" /\ at < PopSize /\ program.distinct # "no"
      /\ IF g \in ToSet(pop) THEN UNCHANGED <<pop, at>> ELSE pop' = Append(pop, g) /\ at' = at + 1
      /\ UNCHANGED <<program, fitness, generation, results, ranges, rows, seen, sim, todo>>
  BY DEF DrawDistinct, antVars
<1>2. Placed /\ Drawing /\ Simulated /\ Recorded /\ Plotted /\ ~ Testing
  BY <1>1 DEF IInv, Placed
<1>3. Testing' = Testing /\ Individuals' = Individuals
  BY <1>1, LimitsKept
<1>4. program.loop # "for"
  BY <1>1, <1>2, ProgramFacts DEF Placed, ProgramFields
<1>5. /\ generation = 0 /\ at \in 0 .. PopSize /\ Len(pop) = at /\ seen = {}
      /\ pop \in Seq(Individuals) /\ \A i, j \in 1 .. at : pop[i] = pop[j] => i = j
  BY <1>1, <1>2, <1>4 DEF Drawing
<1>6. Drawing'
  <2>1. CASE g \in ToSet(pop)
    BY <1>1, <1>2, <1>3, <2>1 DEF Drawing
  <2>2. CASE g \notin ToSet(pop)
    <3>1. pop' = Append(pop, g) /\ at' = at + 1
      BY <1>1, <2>2
    <3>2. /\ pop' \in Seq(Individuals) /\ Len(pop') = at + 1 /\ pop'[at + 1] = g
          /\ \A i \in 1 .. at : pop'[i] = pop[i]
      BY <1>5, <3>1, AppendProperties
    <3>3. \A i \in 1 .. at : pop[i] # g
      BY <1>5, <2>2, LenProperties DEF ToSet
    <3>4. \A i, j \in 1 .. at + 1 : pop'[i] = pop'[j] => i = j
      <4> SUFFICES ASSUME NEW i \in 1 .. at + 1, NEW j \in 1 .. at + 1, pop'[i] = pop'[j]
                   PROVE  i = j
        OBVIOUS
      <4>1. CASE i \in 1 .. at /\ j \in 1 .. at
        BY <1>5, <3>2, <4>1
      <4>2. CASE i = at + 1 \/ j = at + 1
        BY <1>5, <3>2, <3>3, <4>2
      <4>3. QED
        BY <1>5, <4>1, <4>2
    <3>5. at' \in 0 .. PopSize
      BY <1>1, <1>5, <3>1, Bounds
    <3>6. QED
      BY <1>1, <1>3, <1>4, <1>5, <3>1, <3>2, <3>4, <3>5 DEF Drawing
  <2>3. QED
    BY <2>1, <2>2
<1>7. Populated' /\ Evaluating' /\ Rated'
  BY <1>1 DEF Populated, Evaluating, Rated
<1>8. Placed'
  BY <1>1, <1>2, PlacedKept
<1>9. Simulated' /\ Recorded' /\ Plotted'
  BY <1>1, <1>2, SimulatedKept, RecordedKept, PlottedKept
<1>10. QED
  BY <1>6, <1>7, <1>8, <1>9 DEF IInv

\* A program that finds no further individual throws.
LEMMA GiveUpKeeps ==
  ASSUME IInv, GiveUp
  PROVE  IInv'
<1>1. /\ phase = "create" /\ phase' = "thrown"
      /\ UNCHANGED <<program, results, ranges, rows, sim, todo>>
  BY DEF GiveUp, antVars
<1>2. Placed /\ Simulated /\ Recorded /\ Plotted /\ ~ Testing
  BY <1>1 DEF IInv, Placed
<1>3. Drawing' /\ Populated' /\ Evaluating' /\ Rated'
  BY <1>1 DEF Drawing, Populated, Evaluating, Rated
<1>4. Placed' /\ Simulated' /\ Recorded' /\ Plotted'
  BY <1>1, <1>2, PlacedKept, SimulatedKept, RecordedKept, PlottedKept
<1>5. QED
  BY <1>3, <1>4 DEF IInv

\* The whole population is there when the loop starts.
LEMMA CreatedKeeps ==
  ASSUME IInv, Created
  PROVE  IInv'
<1>1. /\ phase = "create" /\ at = PopSize /\ at' = 0
      /\ program.loop = "for" => phase' = "evolve" /\ UNCHANGED <<pop, fitness>>
      /\ program.loop # "for" =>
           /\ phase' = "evaluate" /\ fitness' = [i \in 1 .. PopSize |-> 0]
           /\ program.distinct = "set" => pop' \in SetToSeqs(ToSet(pop))
           /\ program.distinct # "set" => pop' = pop
      /\ UNCHANGED <<program, generation, results, ranges, rows, seen, sim, todo>>
  BY DEF Created, antVars
<1>2. Placed /\ Drawing /\ Simulated /\ Recorded /\ Plotted /\ ~ Testing
  BY <1>1 DEF IInv, Placed
<1>3. Testing' = Testing /\ Individuals' = Individuals /\ NumberElite' = NumberElite
  BY <1>1, LimitsKept
<1>4. ProgramFields(program)
  BY <1>2, ProgramFacts DEF Placed
<1>5. PopSize \in Nat /\ 1 \in 1 .. PopSize /\ 0 \in 0 .. MaxGenerations - 1 /\ 0 \in 0 .. PopSize
  BY Bounds
<1>6. /\ generation = 0 /\ generation' = 0 /\ pop \in [1 .. PopSize -> Individuals]
      /\ program.distinct # "no" => \A i, j \in 1 .. PopSize : pop[i] = pop[j] => i = j
      /\ program.loop # "for" => seen' = {}
  <2>1. pop \in Seq(Individuals) /\ Len(pop) = PopSize
    BY <1>1, <1>2 DEF Drawing
  <2>2. pop \in [1 .. PopSize -> Individuals]
    BY <1>5, <2>1, SeqAsFunction
  <2>3. QED
    BY <1>1, <1>2, <2>2 DEF Drawing
<1>7. CASE program.loop = "for"
  <2>1. /\ phase' = "evolve" /\ pop' = pop /\ fitness' = fitness
        /\ program.distinct = "no" /\ seen' = seen
    BY <1>1, <1>4, <1>7 DEF ProgramFields
  <2>2. /\ fitness \in Seq(Value) /\ Len(fitness) = PopSize
        /\ \A i \in 1 .. PopSize : HasFitness(program.fitness, pop[i], fitness[i])
        /\ \A i \in 1 .. PopSize : program.fitness = "chi2" => fitness[i] # Broken
        /\ seen \subseteq {fitness[i] : i \in 1 .. PopSize}
    BY <1>1, <1>2, <1>7 DEF Drawing
  <2>3. fitness \in [1 .. PopSize -> Value]
    BY <1>5, <2>2, SeqAsFunction
  <2>4. GoodFront(program.fitness, pop)
    BY <1>5, <2>2 DEF GoodFront, HasFitness
  <2>5. seen \subseteq Value
    BY <2>2, <2>3
  <2>6. Covered(program.fitness, pop, seen)
    <3> SUFFICES ASSUME NEW f \in seen
                 PROVE  \E i \in 1 .. PopSize : \E v \in Value :
                          HasFitness(program.fitness, pop[i], v) /\ ~ Fitter(f, v)
      BY DEF Covered
    <3>1. f \in Value /\ ~ Fitter(f, f)
      BY <2>5, FitterOrder
    <3>2. QED
      BY <2>2, <3>1
  <2>7. Populated'
    BY <1>1, <1>3, <1>6, <2>1, <2>3, <2>4, <2>5, <2>6 DEF Populated
  <2>8. Rated'
    BY <1>1, <1>3, <1>5, <1>6, <2>1, <2>2 DEF Rated
  <2>9. Drawing' /\ Evaluating'
    BY <2>1 DEF Drawing, Evaluating
  <2>10. Placed' /\ Simulated' /\ Recorded' /\ Plotted'
    BY <1>1, <1>2, <2>1, PlacedKept, SimulatedKept, RecordedKept, PlottedKept
  <2>11. QED
    BY <2>7, <2>8, <2>9, <2>10 DEF IInv
<1>8. CASE program.loop # "for"
  <2>1. /\ phase' = "evaluate" /\ fitness' = [i \in 1 .. PopSize |-> 0]
        /\ program.fitness = "ant" /\ program'.fitness = program.fitness
    BY <1>1, <1>4, <1>8 DEF ProgramFields
  <2>2. /\ pop' \in [1 .. PopSize -> Individuals]
        /\ program.distinct # "no" => Cardinality(ToSet(pop')) = PopSize
    <3>1. CASE program.distinct = "set"
      BY <1>1, <1>5, <1>6, <1>8, <3>1, Reordered
    <3>2. CASE program.distinct # "set"
      BY <1>1, <1>5, <1>6, <1>8, <3>2, AllDifferent
    <3>3. QED
      BY <3>1, <3>2
  <2>3. fitness' \in [1 .. PopSize -> Value]
    BY <2>1 DEF Value
  <2>4. Covered(program.fitness, pop', seen') /\ seen' \subseteq Value /\ GoodFront(program.fitness, pop')
    BY <1>6, <1>8, <2>1 DEF Covered, GoodFront
  <2>5. Populated'
    BY <1>1, <1>3, <2>1, <2>2, <2>3, <2>4 DEF Populated
  <2>6. Evaluating'
    BY <1>1, <1>3, <1>5, <1>6, <2>1, <2>2 DEF Evaluating
  <2>7. Drawing' /\ Rated'
    BY <2>1 DEF Drawing, Rated
  <2>8. Placed' /\ Simulated' /\ Recorded' /\ Plotted'
    BY <1>1, <1>2, <2>1, PlacedKept, SimulatedKept, RecordedKept, PlottedKept
  <2>9. QED
    BY <2>5, <2>6, <2>7, <2>8 DEF IInv
<1>9. QED
  BY <1>7, <1>8

-----------------------------------------------------------------------------
(* The actions that evaluate a population                                   *)

\* One more individual is evaluated.
LEMMA RateKeeps ==
  ASSUME IInv, ~ Testing, phase \in {"evaluate", "simulate"}, phase' = "evaluate", at < PopSize,
         NEW f \in Value, HasFitness(program.fitness, pop[at + 1], f), Rate(f)
  PROVE  /\ Placed' /\ Drawing' /\ Populated' /\ Evaluating' /\ Rated'
         /\ Recorded' /\ Plotted' /\ ~ Testing'
<1>1. /\ fitness' = [fitness EXCEPT ![at + 1] = f] /\ at' = at + 1 /\ seen' = seen \cup {f}
      /\ UNCHANGED <<program, pop, generation, results, ranges, rows>>
  BY DEF Rate
<1>2. Placed /\ Populated /\ Evaluating /\ Recorded /\ Plotted
  BY DEF IInv
<1>3. Testing' = Testing /\ Individuals' = Individuals /\ NumberElite' = NumberElite
  BY <1>1, LimitsKept
<1>4. at \in 0 .. PopSize /\ at \in Nat /\ at + 1 \in 1 .. PopSize /\ at + 1 \in 0 .. PopSize
  BY <1>2, Bounds DEF Evaluating
<1>5. /\ pop \in [1 .. PopSize -> Individuals] /\ fitness \in [1 .. PopSize -> Value]
      /\ GoodFront(program.fitness, pop)
      /\ seen \subseteq Value /\ (NumberElite > 0 => Covered(program.fitness, pop, seen))
  BY <1>2 DEF Populated
<1>6. fitness' \in [1 .. PopSize -> Value] /\ seen' \subseteq Value
  BY <1>1, <1>4, <1>5
<1>7. Covered(program.fitness, pop, seen) => Covered(program.fitness, pop, seen')
  <2> SUFFICES ASSUME Covered(program.fitness, pop, seen), NEW e \in seen'
               PROVE  \E i \in 1 .. PopSize : \E v \in Value :
                        HasFitness(program.fitness, pop[i], v) /\ ~ Fitter(e, v)
    BY DEF Covered
  <2>1. CASE e \in seen
    BY <2>1 DEF Covered
  <2>2. CASE e = f
    <3>1. ~ Fitter(f, f)
      BY FitterOrder
    <3>2. QED
      BY <1>4, <2>2, <3>1
  <2>3. QED
    BY <1>1, <2>1, <2>2
<1>8. Populated'
  BY <1>1, <1>3, <1>5, <1>6, <1>7 DEF Populated
<1>9. \A i \in 1 .. at + 1 : HasFitness(program.fitness, pop[i], fitness'[i])
  <2> SUFFICES ASSUME NEW i \in 1 .. at + 1
               PROVE  HasFitness(program.fitness, pop[i], fitness'[i])
    OBVIOUS
  <2>1. CASE i = at + 1
    <3>1. fitness'[i] = f
      BY <1>1, <1>4, <1>5, <2>1
    <3>2. QED
      BY <2>1, <3>1
  <2>2. CASE i # at + 1
    <3>1. i \in 1 .. at /\ fitness'[i] = fitness[i]
      BY <1>1, <1>4, <1>5, <2>2
    <3>2. QED
      BY <1>2, <3>1 DEF Evaluating
  <2>3. QED
    BY <2>1, <2>2
<1>10. Evaluating'
  BY <1>1, <1>2, <1>3, <1>4, <1>9 DEF Evaluating
<1>11. Drawing' /\ Rated'
  BY DEF Drawing, Rated
<1>12. Placed' /\ Recorded' /\ Plotted'
  BY <1>1, <1>2, PlacedKept, RecordedKept, PlottedKept
<1>13. QED
  BY <1>3, <1>8, <1>10, <1>11, <1>12

\* A formula gets the fitness of its own error.
LEMMA EvaluateFormulaKeeps ==
  ASSUME IInv, EvaluateFormula
  PROVE  IInv'
<1>1. /\ phase = "evaluate" /\ phase' = "evaluate" /\ at < PopSize /\ program.fitness # "ant"
      /\ Rate(FormulaFitness(pop[at + 1])) /\ UNCHANGED <<sim, todo, program, ranges>>
  BY DEF EvaluateFormula, Rate
<1>2. Placed /\ Populated /\ Evaluating /\ Simulated /\ ~ Testing
  BY <1>1 DEF IInv, Placed
<1>3. at + 1 \in 1 .. PopSize
  BY <1>1, <1>2, Bounds DEF Evaluating
<1>4. pop[at + 1] \in Formula
  BY <1>1, <1>2, <1>3 DEF Populated, Individuals
<1> DEFINE g == pop[at + 1]
           f == FormulaFitness(g)
<1>5. f \in Value /\ HasFitness(program.fitness, g, f) /\ Rate(f)
  BY <1>1, <1>4, FitnessOfFormula
<1> HIDE DEF f
<1>6. Placed' /\ Drawing' /\ Populated' /\ Evaluating' /\ Rated' /\ Recorded' /\ Plotted'
  BY <1>1, <1>2, <1>5, RateKeeps
<1>7. Simulated'
  BY <1>1, <1>2, SimulatedKept
<1>8. QED
  BY <1>6, <1>7 DEF IInv

\* An individual starts from the world of the ants.
LEMMA StartAntKeeps ==
  ASSUME IInv, StartAnt
  PROVE  IInv'
<1>1. /\ phase = "evaluate" /\ phase' = "simulate" /\ at < PopSize /\ program.fitness = "ant"
      /\ UNCHANGED <<program, pop, fitness, at, generation, results, ranges, rows, seen, sim, todo>>
  BY DEF StartAnt, antVars
<1>2. Placed /\ Populated /\ Evaluating /\ Simulated /\ Recorded /\ Plotted /\ ~ Testing
  BY <1>1 DEF IInv, Placed
<1>3. Testing' = Testing /\ Individuals' = Individuals /\ NumberElite' = NumberElite
  BY <1>1, LimitsKept
<1>4. Populated'
  BY <1>1, <1>2, <1>3 DEF Populated
<1>5. Evaluating'
  BY <1>1, <1>2, <1>3 DEF Evaluating
<1>6. Drawing' /\ Rated'
  BY <1>1 DEF Drawing, Rated
<1>7. Simulated'
  <2>1. Reached(pop[at + 1], <<sim, todo>>)
    BY <1>1, <1>2, ReachedStart DEF Simulated, Start
  <2>2. QED
    BY <1>1, <1>2, <1>3, <2>1 DEF Simulated
<1>8. Placed' /\ Recorded' /\ Plotted'
  BY <1>1, <1>2, PlacedKept, RecordedKept, PlottedKept
<1>9. QED
  BY <1>4, <1>5, <1>6, <1>7, <1>8 DEF IInv

\* What a simulation does is the next step of a run, and keeps it sound.
LEMMA StepOfRun ==
  ASSUME NEW g, Evaluate(g) \/ Step, Sound(sim)
  PROVE  /\ ~ Halted(<<sim, todo>>) /\ <<sim', todo'>> = NextConf(g, <<sim, todo>>)
         /\ Sound(sim')
<1>1. CASE Evaluate(g)
  BY <1>1 DEF Evaluate, Halted, NextConf
<1>2. CASE Prog
  BY <1>2 DEF Prog, Halted, NextConf
<1>3. CASE IfFoodAhead
  BY <1>3 DEF IfFoodAhead, Halted, NextConf
<1>4. CASE Terminal
  <2>1. Sound(Moved(sim)) /\ Sound(TurnedLeft(sim)) /\ Sound(TurnedRight(sim))
    BY MoveSound, TurnSound
  <2>2. /\ todo # <<>> /\ Head(todo).v \in {"m", "l", "r"} /\ todo' = Tail(todo)
        /\ sim' = IF Head(todo).v = "m" THEN Moved(sim)
                  ELSE IF Head(todo).v = "l" THEN TurnedLeft(sim) ELSE TurnedRight(sim)
    BY <1>4 DEF Terminal
  <2>3. QED
    BY <2>1, <2>2 DEF Halted, NextConf
<1>5. QED
  BY <1>1, <1>2, <1>3, <1>4 DEF Step

\* A step of the ant is one more step of the run of its formula.
LEMMA AntStepKeeps ==
  ASSUME IInv, AntStep
  PROVE  IInv'
<1>1. /\ phase = "simulate" /\ phase' = "simulate" /\ (Evaluate(Tree) \/ Step)
      /\ UNCHANGED <<program, pop, fitness, at, generation, results, ranges, rows, seen>>
  BY DEF AntStep
<1>2. Placed /\ Populated /\ Evaluating /\ Simulated /\ Recorded /\ Plotted
  BY DEF IInv
<1>3. Testing' = Testing /\ Individuals' = Individuals /\ NumberElite' = NumberElite /\ Plots' = Plots
  BY <1>1, LimitsKept
<1>4. Populated'
  BY <1>1, <1>2, <1>3 DEF Populated
<1>5. Evaluating'
  BY <1>1, <1>2, <1>3 DEF Evaluating
<1>6. Drawing' /\ Rated'
  BY <1>1 DEF Drawing, Rated
<1>7. Sound(sim) /\ (~ Testing => Reached(pop[at + 1], <<sim, todo>>) /\ Tree = pop[at + 1])
  BY <1>1, <1>2 DEF Simulated, Tree
<1> DEFINE g == Tree
           c == <<sim, todo>>
           d == <<sim', todo'>>
<1>8. ~ Halted(c) /\ d = NextConf(g, c) /\ Sound(sim')
  BY <1>1, <1>7, StepOfRun
<1>9. ~ Testing => Reached(pop[at + 1], d)
  <2>1. ASSUME ~ Testing PROVE Reached(g, c)
    BY <1>7, <2>1
  <2> HIDE DEF c, d, g
  <2>2. ASSUME ~ Testing PROVE Reached(g, d)
    BY <1>8, <2>1, <2>2, ReachedNext
  <2>3. QED
    BY <1>7, <2>2 DEF g
<1>10. Simulated'
  BY <1>1, <1>2, <1>3, <1>8, <1>9 DEF Simulated
<1>11. Placed'
  BY <1>1, <1>2, <1>3 DEF Placed
<1>12. Recorded' /\ Plotted'
  BY <1>1, <1>2, RecordedKept, PlottedKept
<1>13. QED
  BY <1>4, <1>5, <1>6, <1>10, <1>11, <1>12 DEF IInv

\* The fitness is the food left where the run of the individual halts.
LEMMA EndAntKeeps ==
  ASSUME IInv, EndAnt
  PROVE  IInv'
<1>1. /\ phase = "simulate" /\ phase' = "evaluate" /\ ~ Testing /\ Finished
      /\ Rate(Score(sim)) /\ sim' = AntWorld /\ UNCHANGED <<todo, program>>
  BY DEF EndAnt, Rate
<1>2. Placed /\ Evaluating /\ Simulated
  BY DEF IInv
<1> DEFINE f == Score(sim)
           c == <<sim, todo>>
<1>3. at < PopSize /\ program.fitness = "ant" /\ Sound(sim) /\ Reached(pop[at + 1], c)
  BY <1>1, <1>2 DEF Evaluating, Simulated
<1>4. Halted(c) /\ c[1] = sim
  BY <1>1 DEF Finished, Halted
<1>5. f \in Value
  BY <1>3, ScoreOfSound DEF Value
<1>6. HasFitness(program.fitness, pop[at + 1], f)
  BY <1>3, <1>4 DEF HasFitness
<1>7. Rate(f)
  BY <1>1
<1> HIDE DEF f
<1>8. Placed' /\ Drawing' /\ Populated' /\ Evaluating' /\ Rated' /\ Recorded' /\ Plotted' /\ ~ Testing'
  BY <1>1, <1>3, <1>5, <1>6, <1>7, RateKeeps
<1>9. Simulated'
  <2>1. todo = <<>> /\ Sound(AntWorld)
    BY <1>1, WorldAssumption, NewSound DEF Finished
  <2>2. QED
    BY <1>1, <1>8, <2>1 DEF Simulated
<1>10. QED
  BY <1>8, <1>9 DEF IInv

-----------------------------------------------------------------------------
(* The generations                                                          *)

\* The fitness at the front is a number once all have been evaluated.
LEMMA FrontIsNumber ==
  ASSUME Placed, GoodFront(program.fitness, pop), HasFitness(program.fitness, pop[1], fitness[1])
  PROVE  fitness[1] # Broken
<1>1. program.fitness \in {"regression", "chi2", "ant"}
  BY ProgramFacts DEF Placed, ProgramFields
<1>2. CASE program.fitness = "regression"
  BY <1>2, ProgramAssumption DEF HasFitness
<1>3. CASE program.fitness = "chi2"
  BY <1>3 DEF HasFitness, GoodFront
<1>4. CASE program.fitness = "ant"
  <2>1. PICK c : Reached(pop[1], c) /\ fitness[1] = Score(c[1])
    BY <1>4 DEF HasFitness
  <2>2. fitness[1] \in Nat
    BY <2>1, ReachedSound, ScoreOfSound
  <2>3. QED
    BY <2>2, ProgramAssumption
<1>5. QED
  BY <1>1, <1>2, <1>3, <1>4

\* The test of the loop reads the fitness of all individuals of this generation.
LEMMA CheckKeeps ==
  ASSUME IInv, Check
  PROVE  IInv'
<1> DEFINE small == program.stop = "small" /\ IsSmall(fitness[MinElement(fitness)])
<1>1. /\ phase = "evaluate" /\ at = PopSize /\ at' = 0 /\ generation' = generation + 1
      /\ phase' = IF generation + 1 >= Generations \/ small THEN "finish" ELSE "evolve"
      /\ UNCHANGED <<program, pop, fitness, results, ranges, rows, seen, sim, todo>>
  BY DEF Check, antVars
<1>2. Placed /\ Populated /\ Evaluating /\ Simulated /\ Recorded /\ Plotted /\ ~ Testing
  BY <1>1 DEF IInv, Placed
<1>3. Testing' = Testing /\ Individuals' = Individuals /\ NumberElite' = NumberElite /\ Generations' = Generations
  BY <1>1, LimitsKept
<1>4. Generations \in Int /\ Generations <= MaxGenerations
  BY <1>2, Limits
<1>5. /\ pop \in [1 .. PopSize -> Individuals] /\ fitness \in [1 .. PopSize -> Value]
      /\ GoodFront(program.fitness, pop)
  BY <1>1, <1>2 DEF Populated
<1>6. /\ generation \in 0 .. MaxGenerations - 1
      /\ \A i \in 1 .. PopSize : HasFitness(program.fitness, pop[i], fitness[i])
  BY <1>1, <1>2 DEF Evaluating
<1>7. fitness[1] # Broken
  BY <1>2, <1>5, <1>6, Bounds, FrontIsNumber
<1> DEFINE k == MinElement(fitness)
<1>8. /\ k \in 1 .. PopSize /\ fitness[k] # Broken
      /\ \A i \in 1 .. PopSize : ~ Less(fitness[i], fitness[k])
  BY <1>5, <1>7, MinElementFound
<1>9. small <=> program.stop = "small" /\ fitness[k] = 0
  BY DEF IsSmall
<1> HIDE DEF small, k
<1>10. (\E i \in 1 .. PopSize : fitness[i] = 0) => fitness[k] = 0
  <2> SUFFICES ASSUME NEW i \in 1 .. PopSize, fitness[i] = 0 PROVE fitness[k] = 0
    OBVIOUS
  <2>1. fitness[k] \in Nat /\ ~ Less(0, fitness[k]) /\ 0 # Broken
    BY <1>5, <1>8, ProgramAssumption DEF Value
  <2>2. QED
    BY <1>8, <2>1 DEF Less
<1>11. Populated'
  BY <1>1, <1>2, <1>3 DEF Populated
<1>12. Rated'
  <2>1. CASE generation + 1 >= Generations \/ small
    <3>1. generation' \in 1 .. MaxGenerations /\ (generation' < Generations => small)
      BY <1>1, <1>4, <1>6, <2>1, Bounds
    <3>2. QED
      BY <1>1, <1>3, <1>6, <1>8, <1>9, <2>1, <3>1 DEF Rated
  <2>2. CASE ~ (generation + 1 >= Generations \/ small)
    <3>1. generation' \in 0 .. MaxGenerations - 1 /\ generation' > 0
      BY <1>1, <1>4, <1>6, <2>2, Bounds
    <3>2. program.stop = "small" => \A i \in 1 .. PopSize : fitness[i] # 0
      BY <1>9, <1>10, <2>2
    <3>3. QED
      BY <1>1, <1>3, <1>6, <2>2, <3>1, <3>2 DEF Rated
  <2>3. QED
    BY <2>1, <2>2
<1>13. Drawing' /\ Evaluating'
  BY <1>1 DEF Drawing, Evaluating
<1>14. Placed' /\ Simulated' /\ Recorded' /\ Plotted'
  BY <1>1, <1>2, PlacedKept, SimulatedKept, RecordedKept, PlottedKept
<1>15. QED
  BY <1>11, <1>12, <1>13, <1>14 DEF IInv

\* With an elite, what covered the fitness seen covers it in the next generation.
LEMMA EliteCovers ==
  ASSUME NEW kind, NEW n \in Nat \ {0}, NEW new, n <= PopSize,
         pop \in [1 .. PopSize -> Individuals], fitness \in [1 .. PopSize -> Value],
         \A i \in 1 .. PopSize : HasFitness(kind, pop[i], fitness[i]),
         NEW sn \in SUBSET Value, Covered(kind, pop, sn), Promise(n)!Elite(new)
  PROVE  Covered(kind, new, sn)
<1>1. PICK chosen \in [1 .. n -> 1 .. PopSize] :
        /\ \A i \in 1 .. n : new[i] = pop[chosen[i]]
        /\ \A k \in 1 .. PopSize : (\A i \in 1 .. n : chosen[i] # k) =>
             \A i \in 1 .. n : ~ Fitter(fitness[k], fitness[chosen[i]])
  <2>1. DOMAIN pop = 1 .. PopSize
    OBVIOUS
  <2>2. PICK chosen \in [1 .. n -> 1 .. PopSize] :
          /\ \A i \in 1 .. n : new[i] = pop[chosen[i]]
          /\ \A k \in 1 .. PopSize : (\A i \in 1 .. n : chosen[i] # k) =>
               \A i \in 1 .. n : ~ Promise(n)!Better(fitness[k], fitness[chosen[i]])
    BY <2>1 DEF Promise!Elite
  <2>3. \A f, g : Fitter(f, g) => Promise(n)!Better(f, g)
    BY DEF Fitter, Less, Promise!Better
  <2>4. QED
    BY <2>2, <2>3
<1> SUFFICES ASSUME NEW f \in sn
             PROVE  \E j \in 1 .. PopSize : \E w \in Value : HasFitness(kind, new[j], w) /\ ~ Fitter(f, w)
  BY DEF Covered
<1>2. PICK i \in 1 .. PopSize, v \in Value : HasFitness(kind, pop[i], v) /\ ~ Fitter(f, v)
  BY DEF Covered
<1>3. v = fitness[i]
  BY <1>2, OneFitness
<1>4. CASE \E j \in 1 .. n : chosen[j] = i
  <2>1. PICK j \in 1 .. n : chosen[j] = i
    BY <1>4
  <2>2. new[j] = pop[i] /\ j \in 1 .. PopSize
    BY <1>1, <2>1, Bounds
  <2>3. QED
    BY <1>2, <2>2
<1>5. CASE \A j \in 1 .. n : chosen[j] # i
  <2>1. 1 \in 1 .. n /\ 1 \in 1 .. PopSize /\ chosen[1] \in 1 .. PopSize
    BY Bounds
  <2> DEFINE w == fitness[chosen[1]]
  <2>2. ~ Fitter(v, w) /\ new[1] = pop[chosen[1]]
    BY <1>1, <1>3, <1>5, <2>1
  <2>3. w \in Value /\ HasFitness(kind, pop[chosen[1]], w) /\ f \in Value
    BY <2>1
  <2> HIDE DEF w
  <2>4. ~ Fitter(f, w)
    BY <1>2, <2>2, <2>3, FitterOrder
  <2>5. QED
    BY <2>1, <2>2, <2>3, <2>4
<1>6. QED
  BY <1>4, <1>5

\* With an elite of one, the individual at the front of the next generation has a number
\* if the one at the front of this generation has.
LEMMA EliteFront ==
  ASSUME NEW kind, NEW n, n = 1, NEW new, kind # "ant",
         pop \in [1 .. PopSize -> Individuals], fitness \in [1 .. PopSize -> Value],
         \A i \in 1 .. PopSize : HasFitness(kind, pop[i], fitness[i]),
         GoodFront(kind, pop), Promise(n)!Elite(new)
  PROVE  GoodFront(kind, new)
<1> SUFFICES ASSUME kind = "chi2" PROVE Chi2[new[1]] # Broken
  BY DEF GoodFront
<1>1. \A i \in 1 .. PopSize : fitness[i] = Chi2[pop[i]]
  BY DEF HasFitness
<1>2. 1 \in 1 .. PopSize /\ Chi2[pop[1]] # Broken /\ DOMAIN pop = 1 .. PopSize
  BY Bounds DEF GoodFront
<1>3. PICK chosen \in [1 .. 1 -> 1 .. PopSize] :
        /\ new[1] = pop[chosen[1]]
        /\ chosen[1] # 1 => ~ Promise(n)!Better(fitness[1], fitness[chosen[1]])
  BY <1>2 DEF Promise!Elite
<1>4. CASE chosen[1] = 1
  BY <1>2, <1>3, <1>4
<1>5. CASE chosen[1] # 1
  <2>1. fitness[1] # Broken /\ fitness[chosen[1]] = Chi2[new[1]]
    BY <1>1, <1>2, <1>3
  <2>2. QED
    BY <1>3, <1>5, <2>1 DEF Promise!Better
<1>6. QED
  BY <1>4, <1>5

\* The elite of the pipeline is among the next population.
LEMMA NextGenerationKeeps ==
  ASSUME IInv, NextGeneration
  PROVE  IInv'
<1>1. /\ phase = "evolve" /\ phase' = "evaluate" /\ at' = 0
      /\ pop' \in [1 .. PopSize -> Individuals]
      /\ UNCHANGED <<program, fitness, generation, results, ranges, rows, seen, sim, todo>>
  BY DEF NextGeneration, antVars
<1>2. PICK n \in 0 .. MaxElite : n = NumberElite /\ Promise(n)!Elite(pop')
  BY DEF NextGeneration
<1>3. Placed /\ Populated /\ Rated /\ Simulated /\ Recorded /\ Plotted /\ ~ Testing
  BY <1>1 DEF IInv, Placed
<1>4. Testing' = Testing /\ Individuals' = Individuals /\ NumberElite' = NumberElite
  BY <1>1, LimitsKept
<1>5. /\ pop \in [1 .. PopSize -> Individuals] /\ fitness \in [1 .. PopSize -> Value]
      /\ GoodFront(program.fitness, pop) /\ seen \in SUBSET Value
      /\ NumberElite > 0 => Covered(program.fitness, pop, seen)
  BY <1>1, <1>3 DEF Populated
<1>6. /\ \A i \in 1 .. PopSize : HasFitness(program.fitness, pop[i], fitness[i])
      /\ generation \in 0 .. MaxGenerations - 1
      /\ generation = 0 => program.distinct = "no"
  BY <1>1, <1>3 DEF Rated
<1>7. n \in Nat /\ n <= PopSize /\ 0 \in 0 .. PopSize
  BY Bounds
<1> DEFINE kind == program.fitness
           new == pop'
           sn == seen
<1>8. NumberElite > 0 => Covered(kind, new, sn)
  <2>1. SUFFICES ASSUME n \in Nat \ {0}, Covered(kind, pop, sn) PROVE Covered(kind, new, sn)
    BY <1>2, <1>5, <1>7
  <2> HIDE DEF kind, new, sn
  <2>2. Promise(n)!Elite(new) /\ sn \in SUBSET Value
        /\ \A i \in 1 .. PopSize : HasFitness(kind, pop[i], fitness[i])
    BY <1>2, <1>5, <1>6 DEF kind, new, sn
  <2>3. QED
    BY <1>5, <1>7, <2>1, <2>2, EliteCovers
<1>9. GoodFront(kind, new)
  <2>1. CASE kind = "ant"
    BY <2>1 DEF GoodFront
  <2>2. CASE kind # "ant"
    <3>1. n = 1
      BY <1>2, <1>3, <2>2, Limits
    <3>2. QED
      BY <1>2, <1>5, <1>6, <2>2, <3>1, EliteFront
  <2>3. QED
    BY <2>1, <2>2
<1>10. Populated'
  BY <1>1, <1>3, <1>4, <1>5, <1>8, <1>9 DEF Populated
<1>11. Evaluating'
  BY <1>1, <1>3, <1>4, <1>6, <1>7 DEF Evaluating
<1>12. Drawing' /\ Rated'
  BY <1>1 DEF Drawing, Rated
<1>13. Placed' /\ Simulated' /\ Recorded' /\ Plotted'
  BY <1>1, <1>3, PlacedKept, SimulatedKept, RecordedKept, PlottedKept
<1>14. QED
  BY <1>10, <1>11, <1>12, <1>13 DEF IInv

-----------------------------------------------------------------------------
(* The end of a run, of a row and of the test                               *)

\* A new run of the algorithm begins with an empty population.
LEMMA AgainDrawing ==
  ASSUME Again, at = 0, at' = 0
  PROVE  Drawing'
<1>1. pop' = <<>> /\ fitness' = <<>> /\ generation' = 0 /\ seen' = {}
  BY DEF Again
<1>2. <<>> \in Seq(Individuals') /\ <<>> \in Seq(Value) /\ Len(<<>>) = 0 /\ 0 \in 0 .. PopSize
  BY EmptySeq, Bounds
<1>3. 1 .. 0 = {}
  OBVIOUS
<1>4. QED
  BY <1>1, <1>2, <1>3, Bounds DEF Drawing

\* The best individual is recorded, once in each run.
LEMMA FinishKeeps ==
  ASSUME IInv, Finish
  PROVE  IInv'
<1>1. /\ phase = "finish" /\ at' = at /\ phase' \in {"create", "row", "done"}
      /\ phase' = "create" => Again
      /\ phase' = "row" => Plots
      /\ phase' = "done" => ~ Plots
      /\ UNCHANGED <<program, ranges, rows, sim, todo>>
  BY DEF Finish, antVars, Again
<1>2. Placed /\ Populated /\ Rated /\ Simulated /\ Recorded /\ Plotted /\ ~ Testing
  BY <1>1 DEF IInv, Placed
<1>3. Testing' = Testing /\ Generations' = Generations /\ Plots' = Plots
  BY <1>1, LimitsKept
<1>4. PICK k \in Winners : results' = Append(results, [generation |-> generation, best |-> fitness[k]])
  BY DEF Finish
<1>5. /\ pop \in [1 .. PopSize -> Individuals] /\ fitness \in [1 .. PopSize -> Value]
      /\ GoodFront(program.fitness, pop)
  BY <1>1, <1>2 DEF Populated
<1>6. /\ at = 0 /\ generation \in 1 .. MaxGenerations
      /\ \A i \in 1 .. PopSize : HasFitness(program.fitness, pop[i], fitness[i])
      /\ generation < Generations => program.stop = "small" /\ \E i \in 1 .. PopSize : fitness[i] = 0
  BY <1>1, <1>2 DEF Rated
<1>7. fitness[1] # Broken
  BY <1>2, <1>5, <1>6, Bounds, FrontIsNumber
<1>8. k \in 1 .. PopSize /\ \A i \in 1 .. PopSize : ~ Fitter(fitness[i], fitness[k])
  BY <1>4, <1>5, <1>7, WinnerFittest
<1> DEFINE best == fitness[k]
           last == [generation |-> generation, best |-> best]
           Results == [generation : 1 .. MaxGenerations, best : Value]
<1>9. best \in Value /\ last \in Results
  BY <1>5, <1>6, <1>8
<1>10. last.generation < Generations => program.stop = "small" /\ last.best = 0
  <2> SUFFICES ASSUME generation < Generations PROVE program.stop = "small" /\ best = 0
    OBVIOUS
  <2>1. PICK i \in 1 .. PopSize : fitness[i] = 0 /\ program.stop = "small"
    BY <1>6
  <2>2. ~ Fitter(0, best) /\ 0 # Broken
    BY <1>8, <2>1, ProgramAssumption
  <2>3. best \in Nat /\ ~ (0 < best)
    BY <1>9, <2>2, ProgramAssumption DEF Fitter, Less, Value
  <2>4. QED
    BY <2>1, <2>3
<1> HIDE DEF best
<1>11. results' = Append(results, last)
  BY <1>4 DEF best
<1> HIDE DEF last
<1>12. Recorded'
  <2>1. results \in Seq(Results)
        /\ \A i \in 1 .. Len(results) : results[i].generation < Generations =>
              program.stop = "small" /\ results[i].best = 0
    BY <1>2 DEF Recorded
  <2> HIDE DEF Results
  <2>2. /\ results' \in Seq(Results) /\ Len(results') = Len(results) + 1
        /\ results'[Len(results) + 1] = last
        /\ \A i \in 1 .. Len(results) : results'[i] = results[i]
        /\ Len(results) \in Nat
    BY <1>9, <1>11, <2>1, AppendProperties, LenProperties
  <2>3. \A i \in 1 .. Len(results') : results'[i].generation < Generations =>
          program.stop = "small" /\ results'[i].best = 0
    <3> SUFFICES ASSUME NEW i \in 1 .. Len(results) + 1
                 PROVE  results'[i].generation < Generations =>
                          program.stop = "small" /\ results'[i].best = 0
      BY <2>2
    <3>1. CASE i \in 1 .. Len(results)
      BY <2>1, <2>2, <3>1
    <3>2. CASE i = Len(results) + 1
      BY <1>10, <2>2, <3>2
    <3>3. QED
      BY <2>2, <3>1, <3>2
  <2>4. QED
    BY <1>1, <1>3, <2>2, <2>3 DEF Recorded, Results
<1>13. Drawing'
  <2>1. CASE phase' = "create"
    BY <1>1, <1>6, <2>1, AgainDrawing
  <2>2. CASE phase' # "create"
    BY <2>2 DEF Drawing
  <2>3. QED
    BY <2>1, <2>2
<1>14. Populated' /\ Evaluating' /\ Rated'
  BY <1>1 DEF Populated, Evaluating, Rated
<1>15. Placed'
  BY <1>1, <1>2, <1>3, <1>6 DEF Placed, Phases
<1>16. Simulated' /\ Plotted'
  BY <1>1, <1>2, SimulatedKept, PlottedKept
<1>17. QED
  BY <1>12, <1>13, <1>14, <1>15, <1>16 DEF IInv

\* What frange and the defaults are made with is a range that has not moved.
LEMMA FrangeMade ==
  /\ \A start, end \in Int, step \in Int \ {0}, below \in BOOLEAN :
       LET r == frange(start, end, step, below) IN r \in FRange /\ r.iteration = 0
  /\ Defaults.generation_max \in FRange /\ Defaults.generation_max.iteration = 0
  /\ Defaults.number_elite \in FRange /\ Defaults.number_elite.iteration = 0
<1>1. ASSUME NEW start \in Int, NEW end \in Int, NEW step \in Int \ {0}, NEW below \in BOOLEAN
      PROVE  frange(start, end, step, below) \in FRange /\ frange(start, end, step, below).iteration = 0
  BY DEF frange, FRange
<1>2. /\ Defaults.generation_max = frange(500, 500, 1, FALSE)
      /\ Defaults.number_elite = frange(0, 0, 1, FALSE)
  BY ZenonT(20) DEF Defaults
<1>3. 500 \in Int /\ 0 \in Int /\ 1 \in Int \ {0} /\ FALSE \in BOOLEAN
  OBVIOUS
<1>4. frange(500, 500, 1, FALSE) \in FRange /\ frange(500, 500, 1, FALSE).iteration = 0
  <2> DEFINE most == 500
  <2>1. most \in Int
    OBVIOUS
  <2> HIDE DEF most
  <2>2. frange(most, most, 1, FALSE) \in FRange /\ frange(most, most, 1, FALSE).iteration = 0
    BY <1>1, <1>3, <2>1
  <2>3. QED
    BY <2>2 DEF most
<1>5. frange(0, 0, 1, FALSE) \in FRange /\ frange(0, 0, 1, FALSE).iteration = 0
  BY <1>1, <1>3
<1>6. QED
  BY <1>1, <1>2, <1>4, <1>5

\* A quotient cut off downwards counts the whole steps, for every span and stride.
LEMMA WholeSteps ==
  ASSUME NEW n \in Int, NEW d \in Nat \ {0}, NEW i \in Int
  PROVE  /\ n \div d \in Int
         /\ (n \div d) * d <= n /\ n < (n \div d + 1) * d
         /\ i <= n \div d <=> i * d <= n
         /\ i = n \div d /\ (n \div d) * d = n <=> i * d = n
<1> DEFINE q == n \div d
<1>1. q \in Int /\ q * d <= n /\ n < (q + 1) * d
  BY Z3
<1> HIDE DEF q
<1>2. CASE i <= q
  <2>1. (q - i) * d >= 0
    BY <1>1, <1>2
  <2>2. i * d <= q * d
    BY <1>1, <2>1
  <2>3. QED
    BY <1>1, <1>2, <2>2
<1>3. CASE i > q
  <2>1. (i - q - 1) * d >= 0
    BY <1>1, <1>3
  <2>2. (q + 1) * d <= i * d
    BY <1>1, <2>1
  <2>3. QED
    BY <1>1, <1>3, <2>2
<1>4. i * d = n => i = q
  <2> SUFFICES ASSUME i * d = n, i # q PROVE FALSE
    OBVIOUS
  <2>1. i < q
    BY <1>1, <1>3
  <2>2. (q - i) * d >= d
    BY <1>1, <2>1
  <2>3. q * d >= i * d + d
    BY <1>1, <2>2
  <2>4. QED
    BY <1>1, <2>3
<1>5. QED
  BY <1>1, <1>2, <1>3, <1>4 DEF q

\* iteration_max counts the values a range comes to behind the first.
LEMMA IterationsCounted ==
  ASSUME NEW r \in FRange
  PROVE  /\ IterationMax(r) \in Int /\ LastOf(r) \in Nat
         /\ \A i \in Nat \ {0} : Takes(r, i) <=> i <= LastOf(r)
<1> DEFINE n == Span(r)
           d == Stride(r)
           q == n \div d
<1>1. n \in Int /\ d \in Nat \ {0}
  BY DEF Span, Stride, FRange
<1>2. IterationMax(r) = IF r.below /\ q * d = n THEN q - 1 ELSE q
  BY DEF IterationMax
<1>3. ASSUME NEW i \in Int
      PROVE  Takes(r, i) <=> i * d <= n /\ (i * d = n => ~ r.below)
  <2>1. r.start \in Int /\ r.end \in Int /\ r.step \in Int \ {0} /\ r.below \in BOOLEAN /\ i * r.step \in Int
    BY DEF FRange
  <2>2. CASE r.step > 0
    BY <2>1, <2>2 DEF Takes, Span, Stride
  <2>3. CASE ~ (r.step > 0)
    <3>1. i * (- r.step) = - (i * r.step)
      BY <2>1
    <3>2. QED
      BY <2>1, <2>3, <3>1 DEF Takes, Span, Stride
  <2>4. QED
    BY <2>2, <2>3
<1> HIDE DEF n, d
<1>4. q \in Int /\ \A i \in Int : /\ i <= q <=> i * d <= n
                               /\ i = q /\ q * d = n <=> i * d = n
  BY <1>1, WholeSteps
<1> HIDE DEF q
<1>5. IterationMax(r) \in Int /\ LastOf(r) \in Nat
  BY <1>2, <1>4 DEF LastOf
<1>6. ASSUME NEW i \in Nat \ {0}
      PROVE  Takes(r, i) <=> i <= LastOf(r)
  <2>1. Takes(r, i) <=> i <= q /\ (i = q /\ q * d = n => ~ r.below)
    <3> DEFINE x == i * d
    <3>1. i \in Int
      OBVIOUS
    <3>2. Takes(r, i) <=> x <= n /\ (x = n => ~ r.below)
      BY <1>3, <3>1
    <3>3. /\ i <= q <=> x <= n
          /\ i = q /\ q * d = n <=> x = n
      BY <1>1, <3>1, WholeSteps DEF q
    <3> HIDE DEF x
    <3>4. QED
      BY <3>2, <3>3
  <2>2. Takes(r, i) <=> i <= IterationMax(r)
    BY <1>2, <1>4, <2>1
  <2>3. QED
    BY <1>5, <2>2 DEF LastOf
<1>7. QED
  BY <1>5, <1>6

\* The row has the values of the ranges that the run has used.
LEMMA WriteRowKeeps ==
  ASSUME IInv, WriteRow
  PROVE  IInv'
<1>1. /\ phase = "row" /\ at' = at /\ phase' \in {"create", "done"}
      /\ phase' = "create" => Again
      /\ (phase' = "create") <=> \E a \in DOMAIN ranges : HasNext(ranges[a])
      /\ results' = <<>> /\ rows' = rows + 1
      /\ ranges' = [a \in DOMAIN ranges |-> MakeStep(ranges[a])]
      /\ UNCHANGED <<program, sim, todo>>
  BY DEF WriteRow, antVars, Again
<1>2. Placed /\ Simulated /\ Plotted /\ ~ Testing /\ Plots /\ at = 0
  BY <1>1 DEF IInv, Placed
<1>3. Testing' = Testing /\ Plots' = Plots
  BY <1>1 DEF Testing, Plots
<1>4. Recorded'
  <2>1. <<>> \in Seq([generation : 1 .. MaxGenerations, best : Value]) /\ Len(<<>>) = 0 /\ 1 .. 0 = {}
    BY EmptySeq
  <2>2. QED
    BY <1>1, <2>1 DEF Recorded
<1>5. Drawing'
  <2>1. CASE phase' = "create"
    BY <1>1, <1>2, <2>1, AgainDrawing
  <2>2. CASE phase' # "create"
    BY <2>2 DEF Drawing
  <2>3. QED
    BY <2>1, <2>2
<1>6. Populated' /\ Evaluating' /\ Rated'
  BY <1>1 DEF Populated, Evaluating, Rated
<1>7. Placed'
  BY <1>1, <1>2, <1>3 DEF Placed, Phases
<1>8. Simulated'
  BY <1>1, <1>2, <1>3 DEF Simulated
<1> DEFINE D == DOMAIN ranges
<1>9. /\ rows \in Nat /\ DOMAIN Defaults \subseteq D
      /\ \A a \in D : ranges[a] \in FRange /\ ranges[a].iteration = Least(rows, LastOf(ranges[a]))
      /\ \E a \in D : rows <= LastOf(ranges[a])
  BY <1>1, <1>2 DEF Plotted, InStep, MoreToWrite
<1>10. ASSUME NEW r \in FRange
       PROVE  /\ LastOf(r) \in Nat
              /\ MakeStep(r) \in FRange /\ LastOf(MakeStep(r)) = LastOf(r)
              /\ r.iteration = Least(rows, LastOf(r)) =>
                   /\ HasNext(r) <=> rows < LastOf(r)
                   /\ MakeStep(r).iteration = Least(rows + 1, LastOf(r))
  <2>1. IterationMax(r) \in Int /\ LastOf(r) \in Nat
    BY IterationsCounted
  <2>2. CASE HasNext(r)
    <3>1. MakeStep(r) = [r EXCEPT !.iteration = r.iteration + 1]
      BY <2>2 DEF MakeStep
    <3>2. MakeStep(r) \in FRange /\ MakeStep(r).iteration = r.iteration + 1
      BY <3>1 DEF FRange
    <3>3. IterationMax(MakeStep(r)) = IterationMax(r)
      BY <3>1 DEF IterationMax, Span, Stride, FRange
    <3>4. QED
      BY <1>9, <2>1, <2>2, <3>2, <3>3 DEF LastOf, HasNext, Least, FRange
  <2>3. CASE ~ HasNext(r)
    BY <1>9, <2>1, <2>3 DEF MakeStep, LastOf, HasNext, Least, FRange
  <2>4. QED
    BY <2>1, <2>2, <2>3
<1> HIDE DEF D
<1>11. ranges' = [a \in D |-> MakeStep(ranges[a])] /\ DOMAIN ranges' = D
  BY <1>1 DEF D
<1> DEFINE next == ranges'
<1>12. ASSUME NEW a \in D
       PROVE  /\ next[a] \in FRange /\ LastOf(next[a]) = LastOf(ranges[a]) /\ LastOf(ranges[a]) \in Nat
              /\ next[a].iteration = Least(rows + 1, LastOf(next[a]))
              /\ HasNext(ranges[a]) <=> rows < LastOf(ranges[a])
  <2> DEFINE r == ranges[a]
  <2>1. r \in FRange /\ next[a] = MakeStep(r) /\ r.iteration = Least(rows, LastOf(r))
    BY <1>9, <1>11
  <2> HIDE DEF r, next
  <2>2. QED
    BY <1>10, <2>1 DEF r
<1>13. DOMAIN next = D /\ next = [a \in D |-> next[a]]
  BY <1>11
<1> HIDE DEF next
<1>14. InStep(next, rows + 1)
  <2>1. rows + 1 \in Nat
    BY <1>9
  <2>2. QED
    BY <1>9, <1>12, <1>13, <2>1 DEF InStep
<1>15. phase' = "create" => MoreToWrite(next, rows + 1)
  <2> SUFFICES ASSUME phase' = "create" PROVE MoreToWrite(next, rows + 1)
    OBVIOUS
  <2>1. PICK a \in D : rows < LastOf(ranges[a])
    BY <1>1, <1>12 DEF D
  <2>2. rows + 1 <= LastOf(next[a])
    BY <1>9, <1>12, <2>1
  <2>3. QED
    BY <1>13, <2>2 DEF MoreToWrite
<1>16. phase' = "done" => AllWritten(next, rows + 1)
  <2> SUFFICES ASSUME phase' = "done" PROVE AllWritten(next, rows + 1)
    OBVIOUS
  <2>1. \A a \in D : ~ (rows < LastOf(ranges[a]))
    BY <1>1, <1>12 DEF D
  <2>2. PICK a \in D : rows <= LastOf(ranges[a])
    BY <1>9 DEF D
  <2>3. rows + 1 = LastOf(next[a]) + 1
    BY <1>9, <1>12, <2>1, <2>2
  <2>4. \A e \in D : LastOf(next[e]) < rows + 1
    BY <1>9, <1>12, <2>1
  <2>5. QED
    BY <1>13, <2>3, <2>4 DEF AllWritten
<1>17. Plotted'
  BY <1>1, <1>14, <1>15, <1>16 DEF Plotted, next
<1>18. QED
  BY <1>4, <1>5, <1>6, <1>7, <1>8, <1>17 DEF IInv

\* The hand-written ant of the test is no run of a tree.
LEMMA ManualRoundKeeps ==
  ASSUME IInv, ManualRound
  PROVE  IInv'
<1>1. /\ phase = "manual" /\ phase' = "manual" /\ sim' = Manual(sim)
      /\ UNCHANGED <<program, results, ranges, rows>>
  BY DEF ManualRound
<1>2. Placed /\ Simulated /\ Recorded /\ Plotted /\ Testing
  BY <1>1 DEF IInv, Placed
<1>3. Testing' = Testing /\ Plots' = Plots
  BY <1>1, LimitsKept
<1>4. Sound(sim')
  <2>1. \A s : Sound(s) => Sound(Moved(s)) /\ Sound(TurnedLeft(s)) /\ Sound(TurnedRight(s))
    BY MoveSound, TurnSound
  <2>2. Sound(Manual(sim))
    BY <1>2, <2>1 DEF Simulated, Manual
  <2>3. QED
    BY <1>1, <2>2
<1>5. Simulated'
  BY <1>1, <1>2, <1>3, <1>4 DEF Simulated
<1>6. Placed'
  BY <1>1, <1>2, <1>3 DEF Placed
<1>7. Drawing' /\ Populated' /\ Evaluating' /\ Rated'
  BY <1>1 DEF Drawing, Populated, Evaluating, Rated
<1>8. Recorded' /\ Plotted'
  BY <1>1, <1>2, RecordedKept, PlottedKept
<1>9. QED
  BY <1>5, <1>6, <1>7, <1>8 DEF IInv

\* A test records the score where its simulation ends.
LEMMA EndTestKeeps ==
  ASSUME IInv, EndTest
  PROVE  IInv'
<1>1. /\ Testing /\ phase \in {"simulate", "manual"} /\ sim' = SantaFe
      /\ results' = Append(results, Score(sim))
      /\ phase' = <<"manual", "simulate", "done">>[Len(results) + 1]
      /\ UNCHANGED <<program, ranges, rows>>
  BY DEF EndTest
<1>2. Placed /\ Simulated /\ Recorded /\ Plotted
  BY DEF IInv
<1>3. Testing' = Testing /\ Plots' = Plots /\ ~ Plots
  <2>1. ~ Plots
    BY <1>1, <1>2, ProgramFacts DEF Placed, Testing
  <2>2. QED
    BY <1>1, <2>1, LimitsKept
<1>4. /\ results \in Seq(Nat) /\ Len(results) \in {0, 1, 2} /\ Sound(sim)
  BY <1>1, <1>2 DEF Simulated
<1>5. results' \in Seq(Nat) /\ Len(results') = Len(results) + 1
  BY <1>1, <1>4, ScoreOfSound, AppendProperties
<1>6. \/ Len(results') = 1 /\ phase' = "manual"
      \/ Len(results') = 2 /\ phase' = "simulate"
      \/ Len(results') = 3 /\ phase' = "done"
  <2>1. CASE Len(results) = 0
    BY <1>1, <1>5, <2>1
  <2>2. CASE Len(results) = 1
    BY <1>1, <1>5, <2>2
  <2>3. CASE Len(results) = 2
    BY <1>1, <1>5, <2>3
  <2>4. QED
    BY <1>4, <2>1, <2>2, <2>3
<1>7. Simulated'
  BY <1>1, <1>3, <1>5, <1>6, SantaFeSound DEF Simulated
<1>8. Placed'
  BY <1>1, <1>2, <1>3, <1>6 DEF Placed, Phases
<1>9. Drawing' /\ Populated' /\ Evaluating' /\ Rated' /\ Recorded' /\ Plotted'
  BY <1>1, <1>3 DEF Drawing, Populated, Evaluating, Rated, Recorded, Plotted
<1>10. QED
  BY <1>7, <1>8, <1>9 DEF IInv

-----------------------------------------------------------------------------
(* The invariant                                                            *)

\* The invariant holds at the start of every program.
LEMMA InitIInv ==
  ASSUME Init
  PROVE  IInv
<1>1. /\ program \in Programs /\ phase = IF Testing THEN "simulate" ELSE "create"
      /\ sim = IF Testing THEN SantaFe ELSE AntWorld
      /\ todo = <<>> /\ pop = <<>> /\ fitness = <<>> /\ at = 0 /\ generation = 0
      /\ results = <<>> /\ rows = 0 /\ seen = {}
  BY DEF Init
<1>2. Plots => ~ Testing
  BY <1>1, ProgramFacts DEF Testing
<1>3. Placed
  BY <1>1 DEF Placed, Phases
<1>4. Len(<<>>) = 0 /\ 1 .. 0 = {} /\ 0 \in 0 .. PopSize /\ PopSize # 0
  BY Bounds
<1>5. Drawing
  <2>1. <<>> \in Seq(Individuals) /\ <<>> \in Seq(Value)
    BY EmptySeq
  <2>2. QED
    BY <1>1, <1>4, <2>1 DEF Drawing
<1>6. Populated /\ Evaluating /\ Rated
  BY <1>1 DEF Populated, Evaluating, Rated
<1>7. Simulated
  <2>1. Sound(sim) /\ <<>> \in Seq(Nat)
    BY <1>1, SantaFeSound, WorldAssumption, NewSound, EmptySeq
  <2>2. QED
    BY <1>1, <1>4, <2>1 DEF Simulated
<1>8. Recorded
  <2>1. <<>> \in Seq([generation : 1 .. MaxGenerations, best : Value])
    BY EmptySeq
  <2>2. QED
    BY <1>1, <1>4, <2>1 DEF Recorded
<1>9. Plotted
  <2> SUFFICES ASSUME Plots PROVE InStep(ranges, 0) /\ MoreToWrite(ranges, 0)
    BY <1>1, <1>2 DEF Plotted
  <2>1. PICK given \in Arguments : ranges = AllArguments(given)
    BY DEF Init
  <2>2. /\ DOMAIN ranges = DOMAIN given \cup DOMAIN Defaults
        /\ ranges = [a \in DOMAIN ranges |-> ranges[a]]
        /\ \A a \in DOMAIN ranges : ranges[a] = IF a \in DOMAIN given THEN given[a] ELSE Defaults[a]
    BY <2>1 DEF AllArguments
  <2>3. ASSUME NEW a \in DOMAIN ranges
        PROVE  ranges[a] \in FRange /\ ranges[a].iteration = 0
    <3>1. CASE a \in DOMAIN given
      <4> DEFINE r == given[a]
      <4>1. /\ r.start \in Int /\ r.end \in Int /\ r.step \in Int \ {0} /\ r.below \in BOOLEAN
            /\ r = frange(r.start, r.end, r.step, r.below)
        BY <3>1, ArgumentsAssumption
      <4> HIDE DEF r
      <4>2. r \in FRange /\ r.iteration = 0
        BY <4>1, FrangeMade
      <4>3. QED
        BY <2>2, <3>1, <4>2 DEF r
    <3>2. CASE a \notin DOMAIN given
      <4>1. a \in DOMAIN Defaults
        BY <2>2, <3>2
      <4>2. a = "generation_max" \/ a = "number_elite"
        BY <4>1 DEF Defaults
      <4>3. ranges[a] = Defaults[a]
        BY <2>2, <3>2
      <4>4. QED
        BY <4>2, <4>3, FrangeMade
    <3>3. QED
      BY <3>1, <3>2
  <2>4. \A a \in DOMAIN ranges : LastOf(ranges[a]) \in Nat
    BY <2>3, IterationsCounted
  <2>5. InStep(ranges, 0)
    BY <2>2, <2>3, <2>4 DEF InStep, Least
  <2>6. MoreToWrite(ranges, 0)
    BY <2>2, <2>4 DEF MoreToWrite, Defaults
  <2>7. QED
    BY <2>5, <2>6
<1>10. QED
  BY <1>3, <1>5, <1>6, <1>7, <1>8, <1>9 DEF IInv

\* And where nothing changes.
LEMMA StutterKeeps ==
  ASSUME IInv, UNCHANGED vars
  PROVE  IInv'
<1>1. UNCHANGED <<program, phase, pop, fitness, at, tries, generation, results, ranges, rows, seen, sim, todo>>
  BY DEF vars, antVars
<1>2. /\ Testing' = Testing /\ Plots' = Plots /\ Individuals' = Individuals
      /\ Generations' = Generations /\ NumberElite' = NumberElite
  BY <1>1, LimitsKept
<1>3. QED
  BY <1>1, <1>2
     DEF IInv, Placed, Drawing, Populated, Evaluating, Rated, Simulated, Recorded, Plotted

\* Every step of every program, taken together.
LEMMA NextKeeps ==
  ASSUME IInv, [Next]_vars
  PROVE  IInv'
BY DrawKeeps, DrawDistinctKeeps, GiveUpKeeps, CreatedKeeps, EvaluateFormulaKeeps, StartAntKeeps,
   AntStepKeeps, EndAntKeeps, CheckKeeps, NextGenerationKeeps, FinishKeeps, WriteRowKeeps,
   ManualRoundKeeps, EndTestKeeps, StutterKeeps DEF Next

\* The inductive invariant of a program.
THEOREM ProgramInvariant == Spec => []IInv
<1>1. Init => IInv
  BY InitIInv
<1>2. IInv /\ [Next]_vars => IInv'
  BY NextKeeps
<1>3. QED
  BY <1>1, <1>2, PTL DEF Spec

-----------------------------------------------------------------------------
(* The properties                                                           *)

\* The programs that stop early have not missed an individual that is good enough:
\* the test for the end looks at the best fitness, also where some have none.
THEOREM NoneMissed == Spec => []StopNotMissed
<1>1. IInv => StopNotMissed
  <2> SUFFICES ASSUME IInv, phase = "evolve", generation > 0, program.stop = "small"
               PROVE  \A i \in DOMAIN fitness : ~ IsSmall(fitness[i])
    BY DEF StopNotMissed
  <2>1. ~ Testing
    BY DEF IInv, Placed
  <2>2. DOMAIN fitness = 1 .. PopSize
    BY <2>1 DEF IInv, Populated
  <2>3. QED
    BY <2>1, <2>2 DEF IInv, Rated, IsSmall
<1>2. QED
  BY <1>1, ProgramInvariant, PTL

\* The elite does not lose the best: no fitness of the whole run is better than the
\* winner's.
THEOREM WinnerIsBestOfRun == Spec => []WinnerIsBest
<1>1. IInv => WinnerIsBest
  <2> SUFFICES ASSUME IInv, phase = "finish", NumberElite > 0, NEW k \in Winners, NEW f \in seen
               PROVE  ~ Fitter(f, fitness[k])
    BY DEF WinnerIsBest
  <2>1. ~ Testing /\ Placed
    BY DEF IInv, Placed
  <2>2. /\ pop \in [1 .. PopSize -> Individuals] /\ fitness \in [1 .. PopSize -> Value]
        /\ GoodFront(program.fitness, pop) /\ seen \subseteq Value
        /\ Covered(program.fitness, pop, seen)
    BY <2>1 DEF IInv, Populated
  <2>3. \A i \in 1 .. PopSize : HasFitness(program.fitness, pop[i], fitness[i])
    BY <2>1 DEF IInv, Rated
  <2>4. fitness[1] # Broken
    BY <2>1, <2>2, <2>3, Bounds, FrontIsNumber
  <2>5. k \in 1 .. PopSize /\ \A i \in 1 .. PopSize : ~ Fitter(fitness[i], fitness[k])
    BY <2>2, <2>4, WinnerFittest
  <2>6. PICK i \in 1 .. PopSize, v \in Value :
          HasFitness(program.fitness, pop[i], v) /\ ~ Fitter(f, v)
    BY <2>2 DEF Covered
  <2>7. v = fitness[i]
    BY <2>3, <2>6, OneFitness
  <2> DEFINE w == fitness[k]
  <2>8. w \in Value /\ f \in Value /\ ~ Fitter(v, w)
    BY <2>2, <2>5, <2>7
  <2> HIDE DEF w
  <2>9. ~ Fitter(f, w)
    BY <2>6, <2>8, FitterOrder
  <2>10. QED
    BY <2>9 DEF w
<1>2. QED
  BY <1>1, ProgramInvariant, PTL

\* Every run has its place in the histogram, and a first population of different
\* individuals has no individual twice.
THEOREM RunsAreAccounted == Spec => []RunsAccounted
<1>1. IInv => RunsAccounted
  <2> SUFFICES ASSUME IInv PROVE RunsAccounted
    OBVIOUS
  <2>1. ASSUME ~ Testing, NEW i \in DOMAIN results
        PROVE  /\ results[i].generation \in 1 .. MaxGenerations
               /\ results[i].generation < Generations => program.stop = "small" /\ results[i].best = 0
    <3> DEFINE Results == [generation : 1 .. MaxGenerations, best : Value]
    <3>1. /\ results \in Seq(Results)
          /\ \A j \in 1 .. Len(results) : results[j].generation < Generations =>
               program.stop = "small" /\ results[j].best = 0
      BY <2>1 DEF IInv, Recorded
    <3> HIDE DEF Results
    <3>2. i \in 1 .. Len(results) /\ results[i] \in Results
      BY <2>1, <3>1, LenProperties, ElementOfSeq
    <3>3. QED
      BY <3>1, <3>2 DEF Results
  <2>2. ASSUME program.distinct # "no", phase = "evaluate", generation = 0
        PROVE  Cardinality(ToSet(pop)) = PopSize
    <3>1. ~ Testing
      BY <2>2 DEF IInv, Placed
    <3>2. QED
      BY <2>2, <3>1 DEF IInv, Evaluating
  <2>3. QED
    BY <2>1, <2>2 DEF RunsAccounted
<1>2. QED
  BY <1>1, ProgramInvariant, PTL

\* artificial_ant_plots writes rows as long as one of its ranges has a value for them,
\* and every range moves with the rows up to its last value.
THEOREM RowForEachValue == Spec => []RowsFollowRanges
<1>1. IInv => RowsFollowRanges
  <2> DEFINE D == DOMAIN ranges
  <2> SUFFICES ASSUME IInv, Plots PROVE RowsFollowRanges
    BY DEF RowsFollowRanges
  <2>1. /\ rows \in Nat
        /\ \A a \in D : ranges[a] \in FRange /\ ranges[a].iteration = Least(rows, LastOf(ranges[a]))
        /\ phase = "done" => AllWritten(ranges, rows)
    BY DEF IInv, Plotted, InStep
  <2>2. ASSUME NEW a \in D
        PROVE  LET r == ranges[a]
               IN  /\ r.iteration > 0 => Takes(r, r.iteration)
                   /\ r.iteration = rows \/ (r.iteration < rows /\ ~ Takes(r, r.iteration + 1))
    <3> DEFINE r == ranges[a]
    <3>1. r \in FRange /\ r.iteration = Least(rows, LastOf(r))
      BY <2>1
    <3> HIDE DEF r
    <3>2. LastOf(r) \in Nat /\ \A i \in Nat \ {0} : Takes(r, i) <=> i <= LastOf(r)
      BY <3>1, IterationsCounted
    <3>3. r.iteration > 0 => Takes(r, r.iteration)
      BY <2>1, <3>1, <3>2 DEF Least
    <3>4. r.iteration = rows \/ (r.iteration < rows /\ ~ Takes(r, r.iteration + 1))
      BY <2>1, <3>1, <3>2 DEF Least
    <3>5. QED
      BY <3>3, <3>4 DEF r
  <2>3. ASSUME phase = "done"
        PROVE  /\ \A a \in D : ~ Takes(ranges[a], rows)
               /\ rows = 1 \/ \E a \in D : Takes(ranges[a], rows - 1)
    <3>1. \A a \in D : /\ LastOf(ranges[a]) \in Nat
                      /\ \A i \in Nat \ {0} : Takes(ranges[a], i) <=> i <= LastOf(ranges[a])
      BY <2>1, IterationsCounted
    <3>2. PICK a \in D : rows = LastOf(ranges[a]) + 1 /\ \A e \in D : LastOf(ranges[e]) < rows
      BY <2>1, <2>3 DEF AllWritten
    <3>3. rows \in Nat \ {0}
      BY <2>1, <3>1, <3>2
    <3>4. \A e \in D : ~ Takes(ranges[e], rows)
      BY <3>1, <3>2, <3>3
    <3>5. rows # 1 => Takes(ranges[a], rows - 1)
      BY <3>1, <3>2, <3>3
    <3>6. QED
      BY <3>4, <3>5
  <2>4. QED
    BY <2>2, <2>3 DEF RowsFollowRanges
<1>2. QED
  BY <1>1, ProgramInvariant, PTL

\* The score is the food that is left, and the board shows it.
THEOREM FoodIsAccounted == Spec => []FoodAccounted
<1>1. IInv => FoodAccounted
  <2> DEFINE left == {p \in DOMAIN sim.trail : sim.trail[p]}
             shown == {p \in DOMAIN BoardText(sim) : BoardText(sim)[p] = "0"}
  <2> SUFFICES ASSUME IInv PROVE Score(sim) = Cardinality(left) /\ shown = left \ {sim.pos}
    BY DEF FoodAccounted
  <2>1. Sound(sim)
    BY DEF IInv, Simulated
  <2>2. Score(sim) = Cardinality(left)
    BY <2>1, ScoreOfSound DEF Left
  <2>3. /\ sim.dir \in North .. West /\ sim.trail \in [DOMAIN sim.trail -> BOOLEAN]
        /\ DOMAIN sim.trail \subseteq Fields(sim)
    BY <2>1 DEF Sound
  <2>4. /\ DOMAIN BoardText(sim) = Fields(sim)
        /\ \A p \in Fields(sim) : BoardText(sim)[p] = "0" <=> p \in left /\ p # sim.pos
    <3>1. <<"N", "E", "S", "W">>[sim.dir + 1] # "0"
      BY <2>3 DEF North, West
    <3>2. QED
      BY <2>3, <3>1 DEF BoardText, Fields
  <2>5. QED
    BY <2>2, <2>3, <2>4
<1>2. QED
  BY <1>1, ProgramInvariant, PTL

\* Only a terminal m moves the ant, and to a field beside the one it was on.
THEOREM MovesToFieldBeside == Spec => MovesOneField
<1>1. IInv /\ [Next]_vars => [MovesOnly]_vars
  <2> DEFINE p == PosTo2d(sim, sim.pos)
             q == PosTo2d(sim', sim'.pos)
             move == todo # <<>> /\ Head(todo).v = "m"
             moved == \/ p.x = q.x /\ Beside(p.y, q.y, sim.size_y)
                      \/ p.y = q.y /\ Beside(p.x, q.x, sim.size_x)
  <2> SUFFICES ASSUME IInv, Next, phase = "simulate", phase' = "simulate"
               PROVE  IF move THEN moved ELSE p = q
    BY DEF MovesOnly
  <2>1. Sound(sim)
    BY DEF IInv, Simulated
  <2>2. AntStep
    <3>1. ~ EndTest
      <4>1. ASSUME EndTest PROVE FALSE
        <5>1. Len(results) \in {0, 2}
          BY <4>1 DEF EndTest, IInv, Simulated
        <5>2. phase' \in {"manual", "done"}
          <6>1. phase' = <<"manual", "simulate", "done">>[Len(results) + 1]
            BY <4>1 DEF EndTest
          <6>2. CASE Len(results) = 0
            BY <6>1, <6>2
          <6>3. CASE Len(results) = 2
            BY <6>1, <6>3
          <6>4. QED
            BY <5>1, <6>2, <6>3
        <5>3. QED
          BY <5>2
      <4>2. QED
        BY <4>1
    <3>2. QED
      BY <3>1 DEF Next, Draw, DrawDistinct, GiveUp, Created, EvaluateFormula, StartAnt, EndAnt,
                  Check, NextGeneration, Finish, WriteRow, ManualRound
  <2>3. (sim' = sim /\ ~ move) \/ Terminal
    BY <2>2 DEF AntStep, Evaluate, Step, Prog, IfFoodAhead
  <2>4. CASE Terminal /\ move
    <3>1. sim' = Moved(sim)
      BY <2>4 DEF Terminal
    <3>2. sim'.pos = MovePos(sim, sim.pos, sim.dir) /\ sim'.size_x = sim.size_x
      BY <2>1, <3>1, MoveSound
    <3>3. q = PosTo2d(sim, MovePos(sim, sim.pos, sim.dir))
      BY <3>2 DEF PosTo2d
    <3>4. moved
      BY <2>1, <3>3, MovedBeside DEF Sound
    <3>5. QED
      BY <2>4, <3>4
  <2>5. CASE Terminal /\ ~ move
    <3>1. sim' = TurnedLeft(sim) \/ sim' = TurnedRight(sim)
      BY <2>5 DEF Terminal
    <3>2. sim'.pos = sim.pos /\ sim'.size_x = sim.size_x
      BY <2>1, <3>1, TurnSound
    <3>3. QED
      BY <2>5, <3>2 DEF PosTo2d
  <2>6. QED
    BY <2>3, <2>4, <2>5
<1>2. QED
  BY <1>1, ProgramInvariant, PTL DEF Spec, MovesOneField

\* Whenever a pipeline is called and whenever a winner is looked for, the fitness of an
\* individual is that of its formula, or the score at the one halt of its own run
\* from the world of the ants: no ant walks where another one has eaten.
RatedAlone ==
  phase \in {"evolve", "finish"} =>
    /\ DOMAIN pop = 1 .. PopSize /\ DOMAIN fitness = 1 .. PopSize
    /\ \A i \in 1 .. PopSize : \A v : HasFitness(program.fitness, pop[i], v) <=> v = fitness[i]

\* The fitness is never stale, and tells nothing of other individuals.
THEOREM EachRatedAlone == Spec => []RatedAlone
<1>1. IInv => RatedAlone
  <2> SUFFICES ASSUME IInv, phase \in {"evolve", "finish"} PROVE RatedAlone
    BY DEF RatedAlone
  <2>1. ~ Testing
    BY DEF IInv, Placed
  <2>2. /\ pop \in [1 .. PopSize -> Individuals] /\ fitness \in [1 .. PopSize -> Value]
        /\ \A i \in 1 .. PopSize : HasFitness(program.fitness, pop[i], fitness[i])
    BY <2>1 DEF IInv, Populated, Rated
  <2>3. QED
    BY <2>2, OneFitness DEF RatedAlone
<1>2. QED
  BY <1>1, ProgramInvariant, PTL
=============================================================================
