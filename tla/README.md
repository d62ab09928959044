# A formal model of gpcxx

gpcxx is a header-only C++ library for genetic programming: individuals are
trees of values, a population of them is bred over generations by mutation,
crossover and reproduction. It is sequential: no threads, no I/O that matters,
nothing that survives the process. What is hard about it is a pointer structure
that many small operations rewrite in place, numbers kept beside the structure
they count, cursors that designate places and not nodes, and loops that end only
if a random choice or a rewriting rule lets them. These are what the model is
about.

All paths below are relative to `include/gpcxx/` of the repository unless they
start with `doc/`, `examples/`, `performance/` or `test/`.

## Inventory

| Component | State | Operations | Interacts with |
|---|---|---|---|
| child containers (`tree/detail/node_base.hpp`) | the child pointers of one node, as a vector or as an array of `MaxArity` slots with `nullptr` for "free" | `attach_child`, `insert_child`, `remove_child`, `set_child_node`, `child_index`, `size` | written by `tree_base` |
| `tree_base` (`tree/detail/tree_base.hpp`, `tree_base_cursor.hpp`; the class behind `basic_tree`, `basic_nary_tree`, `intrusive_tree`) | allocated nodes, `m_children` and `m_parent` of each, a header per tree, `m_size` | insertions and emplacements, `insert_above`, `assign`, copies, moves, `swap`, `swap_subtrees`, `move_subtree`, `move_and_insert_subtree`, `erase`, `clear`, `==`, `rank_is` | everything below works through it |
| traversal (`tree/iterator/`) | a cursor | `successor`, `predecessor` of the preorder and postorder iterators | reads links |
| transformation (`tree/transform_tree.hpp`, `canonic/`) | a position in the walk, trial counters | rules that rewrite the tree and answer `descent`, `ascent` or `repeat` | calls `move_and_insert_subtree`, `insert`, `erase`, `swap_subtrees` |
| generation (`generate/`) | a stack of cursors with open arities, a height counter | `operator()` of `basic_generate_strategy`, `ramp` | calls `insert_below` |
| genetic operators (`operator/`) | none between calls; retry counters within | crossover (`one_point`, `pip`), mutation, point mutation, reproduction, `multi_crossover` and `multi_mutation` for vectors of trees | `rank_is`, `swap_subtrees`, generators, selectors |
| selectors (`operator/tournament_selector.hpp`, `random_selector.hpp`) | the random engine | pick an individual | population and fitness |
| pipelines (`evolve/`) | the population under construction, the sorted indices | `next_generation` | operators by type erasure, observer callbacks |
| writers and readers of trees (`io/`) | the position in the text, the places where nodes are to go | `polish`, `bracket`, `simple`, `json`, `graphviz`; `read_polish`, `read_bracket` | `insert_below`, a mapper from the caller |
| evaluation (`eval/`, `performance/eval_basic/`) | none; the loops over lines and data | an infix parser, six evaluators, `static_eval`, `static_eval_erc` | reads trees |
| artificial ant (`examples/artificial_ant/`) | board, trail, ant, steps | walk, turn, eat; the nodes of its trees; the evaluator | evaluates trees |
| programs (`examples/`, `performance/`) | population, fitness, generation, results | create, evolve, evaluate, stop, choose a winner, count runs | pipelines, evaluators, the ant |
| statistics, utilities, test data | none | | read finished trees |

What is hard in each, and what makes it correct:

* child containers: the array has no length field, so `size()`, iteration and
  removal all rely on the free slots being the last ones. Correct means: packed,
  and the same sequence a vector would hold.
* `tree_base`: an operation touches up to four nodes, two directions of every
  link and two counters, some of them on a structure that is briefly
  inconsistent (a child attached twice, a subtree cut off and its old place
  searched afterwards), and an insert may throw half way. Correct means: parent
  pointers and children agree, every linked node hangs below exactly one header,
  no cycles, counters count, nothing leaks, and the ordered tree that results is
  the one the call describes.
* traversal: the end of a range is recognised by position; correct means every
  node exactly once, in order, forwards and backwards.
* transformation: termination (each rule has to make progress), trial limits,
  and cursors that survive the rewriting they are used for.
* generation: the height counter has to be the level of the next node; heights
  between the limits, arities filled.
* operators: height limits, retries that end, both trees still well formed.
* pipelines: population size, elite, which fitness belongs to which individual.
* texts: what a reader makes of a text that is cut off, lost a piece or goes on;
  correct means that a written tree is read back and that a broken one is not
  rearranged.
* evaluation: programs that compare evaluators only time them; correct means that
  a formula has one meaning, from its text to its number.
* the ant: two accounts of the food, coordinates that wrap, a limit of steps that is
  tested between evaluations.
* programs: which fitness belongs to whom when the loop stops, NaN, limits of
  draws, and the last value of a range.

`PROJECT.json` lists the hazards with their lines.

## Modules

| Module | Models | Composes |
|---|---|---|
| `ChildContainer` | the vector node: a sequence of children; the abstract specification of a container | |
| `ArrayNode` | the array node, slot by slot, with `std::find`, `std::rotate`, `std::copy` as operators | implements `ChildContainer` |
| `TreeBase` | all of `tree_base` for several trees over one heap of nodes | |
| `Terms`, `OrderedTerms` | ordered trees as terms; places in them as paths | |
| `PathTree` | ordered trees as functions from paths to values: subtrees, sizes, heights, children, what is to the left, a tree in the place of another | |
| `TreeOrders` | the policies of the two iterators: successor, predecessor and begin of each; what the orders mean | extends `PathTree` |
| `OrderedForest` | what the tree classes promise: one term per tree, one action per operation | extends `OrderedTerms` |
| `Traversal` | an iterator that is moved to and fro, and `rank_is` | extends `TreeOrders` |
| `PolishWord` | what the preorder of an ordered tree is: a word of arities | |
| `GenerateTree` | `basic_generate_strategy` with its stack and height counter, called by `ramp` or directly | implements `PolishWord` |
| `VariationOperators` | crossover and mutation and their strategies on two individuals of one or more trees: draws, limits, retries | extends `PathTree` |
| `Evolution` | what a pipeline promises of a generation | |
| `Pipeline` | `dynamic_pipeline` and `static_pipeline` with selectors, operators and observer | implements `Evolution` |
| `AlgebraicNode` | nodes of formulas, their evaluation, the groups they belong to | extends `PathTree` |
| `TransformTree` | `transform_tree` and `apply_rules_to_cursor` with the five rules of `canonic/` | extends `AlgebraicNode` |
| `TreeText` | the five writers, the polish and the bracket reader, the other polish writers of `performance/iterator` | extends `OrderedTerms`, uses `TreeOrders` for the iterators |
| `TreeEval` | the infix parser of `performance/eval_basic` and all evaluators | extends `TreeText` |
| `AntSimulation` | board, trail, ant, its nodes and its evaluator | extends `Terms` |
| `EvolutionProgram` | fifteen programs of `examples/` and `performance/` | extends `AntSimulation`, uses `Evolution` for a generation |
| `AntMeaning` | what an ant's tree means, by recursion, and the property that compares the programs with it | extends `EvolutionProgram` |

`MCTreeBase`, `MCNaryTree`, `MCTraversal`, `MCVariationOperators`, `MCPipeline`,
`MCTransformTree` and `MCEvolutionProgram` hold what TLC needs: instances of the constants, symmetry, and
in `MCTreeBase` the refinement mapping to `OrderedForest`. `MCTraversal` composes
`Traversal` and `TreeEval` over one tree, whose term it makes: it is walked over, or
its texts are read and evaluated. `MCNaryTree` puts the trees and the array of a
`basic_nary_tree` into one run, `MCPipeline` the pipeline and the generator; in each
behaviour one of the two is at work. The modules ending in
`_proofs` hold the theorems; see Proofs.

Two representations of a tree occur. `TreeBase` has nodes, links and counters,
because there the question is whether they agree. Above it trees are values,
terms or functions on paths, which `ImplementsForest` and `CallsAsSpecified`
justify: each operation changes the term as `OrderedForest` says.

### ArrayNode

`m_children` is the array; a state is what one node holds. Each action is one
member function with its assertion as guard. `Contents`, the slots before the
first free one, is the refinement mapping to `ChildContainer`, whose variable is
the vector. `MaxChildren` is the template parameter `MaxArity`, `NoChild` is
`nullptr`; the names differ from those of `TreeBase`, since one module holds the
proofs about both.

### TreeBase

A tree object is identified with its `m_header`, so a *holder* is a node or a
tree. `children` and `parent` are `m_children` and `m_parent`; the header's own
parent is `nullptr` and not represented. `allocated` is what the allocator has
handed out; `value` is `Null` for memory without a constructed node. Node
addresses are chosen from the free ones by `\E`, so every reuse of an address
that the allocator could make is explored. A cursor is the pair of a holder and a
position, as in `tree_base_cursor`; node containers are sequences here, which
`ArrayNode` justifies for the nary node.

Each call is one action, because nothing can run between its statements; the
order inside a call is kept where it shows: `++m_size` before the throw, the
removal of `node1` before the place of `node2` is looked up, the attachment
before the removal in `swap_impl1`, the clearing before the copying in the
assignments, and the cursor of `insert( position , subtree )` that is read again
after the insertion. `erase`, whose recursion frees the subtree, is given by the
set of nodes it frees (`Desc`, the least set closed under children); a copy is
given by an injection from the original nodes to fresh ones.

`thrown` is auxiliary: it counts the inserts that threw on the content a tree now
has. `outcome` tells how the last call ended; after `"undefined"`, a dereferenced
null pointer or an index past an array, nothing more happens.

Obligations of the caller that the code asserts or silently relies on are guards:
`GPCXX_ASSERT` on the kind of a cursor, that a subtree is not copied into, moved into or
swapped with a part of itself, that `assign( subtree )` reads another tree, that
`move_subtree` and `move_and_insert_subtree` stay inside one tree (they do not
adjust the counter of a second one). What the library *offers* and ends badly is not
guarded: an insert in front of the root, every operation that trusts an `m_size` left
wrong by a throwing insert, and, on array nodes, a swap that involves the end of a
full node (`PastArray`) and a move in front of a child of one. For the last two the
code has no test but the assertions of `node_base.hpp`; their outcome is
`"undefined"`, as is that of the first.

The emplace functions are the insert functions on a value; the two overloads for
`const&` and `&&` are one action; a constructor is the corresponding assignment
to a tree that is still empty; the destructor is `Clear`.

### OrderedForest

No nodes, addresses or counters: a tree object holds a term `[v, sub]`, a place
is a path of child numbers. Its `InsertShifted` is there because of the code:
inserting a copy of a later sibling through a cursor copies the value of the
right node and the children of its left neighbour (or none). It documents that
behaviour as part of what the class does.

### Traversal

Trees are functions on the paths below a header, so that the root is the path
`<<1>>` and the shoot, the place behind it at which an iteration ends, is `<<2>>`.
`it` is `m_cursor`; `BeginIteration` starts an iteration of either order at its
`begin()`, `Increment` and `Decrement` are `++` and `--` with the successor and
predecessor functions of the two policies, which `TreeOrders` defines. The loops
that climb over finished levels are given by the level they end at
(`Unfinished`, `Behind`), those that go down to a leaf by that leaf (`First`,
`Deepest`). `RankIs`, `RankStep` and `RankReturn`
are the queue of `rank_is_impl`, one step per node taken from it.

`steps` is auxiliary while iterating: the number of `++` less the number of `--`.
The trees have a root; what `begin()` of an empty tree would do is left to the
caller. Iterations over a subtree are not started, since for most subtrees they
have no end: `SubtreeRangesEnd` says for which they have one.

### GenerateTree

`tree` lists the nodes in the order of their insertion with parent, level and
arity; the value of a symbol is left out. `gen_stack` and `height` are the local
variables of `operator()`, `Insert` and `Pop` the two branches of its loop,
`Symbols` the choice of `insert_node`, where which of the admitted symbols comes
is nondeterministic. `Grow` and `Full` are the ways `ramp` sets the limits,
`Direct` those of a caller of its own. A minimal height of 0 is excluded: `ramp`
computes `height - 1` unsigned. Terminals and non-terminals must both exist.

### VariationOperators

The state is two individuals, each a vector of trees, and the call that runs.
`DrawComponents` and `DrawComponent` are `operation` of `multi_crossover` and
`multi_mutation`: the components of the two parents are drawn apart, and the
strategy is not called if one of them is empty. `crossover` and `mutation` are the
same for individuals with one tree. A step is one draw of nodes: they are chosen by
`\E` (what `rank_is` of a uniform number amounts to, by `RankIsLevelOrder`), then
the condition on heights decides between the exchange and another try. `tries` is
`iter` or `count`; the pip strategy has a counter that it never increments, and there
`tries` counts in its stead up to `TryCap`. `Reached` is the set of nodes that
`seperate_nodes` lists: it does not descend below a node with one child. `Generated`
is what the tree generator may return. `SimpleMutation` replaces the symbol of one
node by one of the same arity, and leaves trees of height one alone. The results of
an operation replace the individuals, so that any sequence of operations is explored.

### Pipeline

`phase` is where `next_generation` stands, `indices`, `new_pop` and `selection`
its local variables. `Clone`, `Breed`, `SelectFirst`, `SelectSecond`, `Cross` and
`Replace` are its statements in order; `Evaluate` is the user, who computes the
fitness between generations or forgets to, so that a generation may run on the
fitness of the population before. `Take` keeps the children that fit: the static
pipeline takes one child of a crossover if there is room for one, the dynamic
one cuts the loop off. `observed` is the last call of the observer.

Mutation and crossover may return any genomes: what they do to trees is
`VariationOperators`. Fitness values are numbers or `Broken`, a NaN, for which
`operator<` is false (`Less`) and which `sort_indices` puts last (`Fitter`).
`std::sort` leaves the order of equals open, and so does `Sorted`.
`Wins` is the loop of the tournament; `random_selector` is a tournament of one.
`PopSize > 2` is asserted by the code, `NumberElite <= PopSize` is relied upon.

### TransformTree

The recursion of `apply_rules_to_cursor` keeps a cursor and a loop variable per
level; both are in the path `c`. `ApplyRule` tries one rule; its answer is
`descent`, `repeat`, `ascent` or an exception, and decides where the walk is
next. `Return` unwinds all the calls that have no child left to visit. `count` is
the limit of repetitions at one cursor, `rounds` that of walks from the root;
`RuleTrials` is a parameter because the limit given to `transform_tree` is not
handed down and the default of 1000 applies.

Formulas are evaluated modulo a prime with `1 / 0 = 0`: numbers of which the
group laws hold exactly, so that a difference in value is an error of a rule and
not a rounding. A node is a precedence and a number in the order of the names,
which is all that `operator<` sees. What the rules do to links and counters is
`move_and_insert_subtree`, `insert`, `erase` and `swap_subtrees` of `TreeBase`.

### TreeText

A text is a sequence of names and marks. The writers are functions of a term, given
with the places where a separator or a bracket goes; indentation is left out. The
value of a node is the *sequence* of names it is written with, which is empty when
the bracket reader takes two brackets in a row for a node. `PolishField`,
`PolishEnd`, `PolishThrow` and `PolishReturn` are the calls and returns of
`read_polish_impl`: `at` holds the places at which the calls under way have still to
insert a child. The mapper is that of `examples/dynamical_system/serialize.cpp`, the
one user of the reader: it knows the names of `Arity`, takes what `std::stod`
accepts for a constant, and throws otherwise. `BracketEnter`, `BracketChild`,
`BracketClose` and `BracketThrow` are `read_bracket_impl`, whose searches for the
next bracket are `Find` and `After`. `Texts` are what was written, cut off at
every place, with any one name or mark lost, or followed by a second text.

### TreeEval

A rule of the grammar is a function from a text to its one result and the rest of
the text, or to nothing; the grammar decides by one name, so there is no other way
to parse. `Transform` inserts the nodes of the ast with `insert_below`, as
`tree_transformator` does. `EvalCursor1` to `EvalCursor3` are the evaluators of
`eval_basic.cpp`; `eval_cursor4` is written like the recursion in `static_eval`,
`IntrusiveEval` and `VirtualEval` are those of the other two programs, `StaticEval`
and `StaticEvalErc` those of the library with the search of `iterate_until`.
`ReadLine`, `RunTest` and `EndOfProgram` are the loops of a program over lines and
data; `TakeTree` hands a tree that no parser made to the library's evaluators.
Numbers are those modulo a prime, division by zero and the logarithm of zero are
what each evaluator says of them.

### AntSimulation

A field is a number, as in `position_1d`; coordinates are `size_t` with `Word`
values and wrap as the code computes them. The evaluation of a tree is one step per
node, `todo` the nodes that calls under way have still to enter.

### EvolutionProgram

One main function with the branches in which the programs differ; what tells them
apart (elite, generations, the way the first population is made, when to stop, how
the winner is chosen, how many runs) is a record per program, and the limits in it
are cut off at the bounds of the run. A generation is any new population that
`Evolution` promises, which `Pipeline` implements; the fitness of an ant is that of
`AntSimulation`, of a formula a constant, NaN among them. `artificial_ant_plots`
moves its ranges (`frange`) from row to row. Their numbers are doubles; here they are
counted in a unit that makes them whole, and `below` says that the quotient of the
doubles comes out less than the whole number it stands for, so that cutting it off
loses a step (`IterationMax`). What the arguments other than `generation_max` and
`number_elite` are called does not matter for the rows; that no step is 0 is left to
the user. `artificial_ant_tests` compares a tree
with the code that does the same by hand, on the real trail of Santa Fe.

## Runs

| Run | Instance | Distinct states | Shows |
|---|---|---|---|
| `tree_vector` | 4 nodes, 2 trees, 2 values, no arity limit | 610 | links agree in both directions, parents end at a header, each call changes the terms as its arguments say |
| `tree_nary` | 5 nodes, 2 trees, 1 value, arity 2; an array of 3 children in 4 slots | 540 | the same structure with throwing inserts and the states they leave: a forest, arity kept, counters off by exactly the throws, no other leaks, terms changed only as specified; the array implements the vector node |
| `tree_size` | 3 nodes, arity 1 | violation | `size()` is not the number of nodes after a throw, against `doc/details_trees.qbk:90` |
| `root_insert` | 3 nodes, no arity limit | violation | the exception of `tree_base.hpp:528` is never thrown |
| `traversal` | all shapes of up to 6 nodes, each with four labellings: 260 trees; their texts whole and broken | 196234 | iterators moved to and fro and `rank_is` agree with the orders they stand for; which ranges of subtrees end; writers and readers; parser and evaluators |
| `variation` | pairs of trees of up to 3 nodes, one higher than the limit, and a pair of individuals with two trees, one of them empty; limit 2, 2 tries | 140842 | sequences of crossovers and mutations keep trees well formed, the limit (pip excepted), and the nodes; calls return |
| `pip_retries` | the same | violation | the pip strategy draws more often than `max_iterations` allows |
| `pip_height` | the same, trees within the limit | violation | the pip strategy makes a tree higher than `max_height`, against `doc/tutorial_artificial_ant.qbk:156` |
| `pipeline` | 3 individuals, elite of 1, tournament of 2, a NaN among three genomes; a generator for heights 1 to 4 and arities 1 and 2 | 110489 | size, elite, reports to the observer, the end of a generation; of the generator: the counter is the depth, limits and arities hold, the nodes come in polish order, the loop ends |
| `transform` | all 1985 formulas of up to 2 levels of operations, and 3 nested ones | 100017 | the cursor stays valid, no work is left, values are kept, the transformation completes |
| `programs` | 3 individuals of 3 formulas or 3 ants; elite to 2, 2 generations, 2 tries, 2 runs; a board of 6 fields, and the trail of Santa Fe; ranges up and down, one of them losing its end | 213719 | fitness that is fresh where it is used, stops that are not missed, winners, accounts of runs, rows and food; every program ends |
| `step_limit` | the same | violation | an ant makes more actions than `max_steps`, against `doc/tutorial_artificial_ant.qbk:24` |

### Bounds

Tree states are counted up to a permutation of the nodes, which is sound: no
definition distinguishes them, and no liveness is checked there. Four nodes are
the least that hold two trees with a branching node, a subtree to swap at each
side, a move within one parent and between parents, and a spare node to insert;
five with arity 2 add full nodes, an inner full node and lost nodes. A branching
subtree is copied only in the nary run: that takes its nodes twice. The second
value in the vector run tells siblings apart, so that order is checked; the nary
run needs addresses more than values. `MaxArity = 9` is more than the nodes there
are.

Six nodes hold every way for an iterator to climb two levels with a sibling to go
on to, and a leaf beside an inner node. Height 4 lets a generator climb more than
one level at once and hit both limits away from the root. A height limit of 2
with a tree of height 3 makes draws fit and fail on every kind of node, and two
tries tell the first failure from the last. Three individuals are the fewest the
code admits; with an elite of one, both an odd and an even number of children
have to be fitted in. Two levels of operations contain every pattern a rule
looks for; the nested formulas, taken from `test/canonic`, need rules to make
work for each other. `MaxTrials` and `RuleTrials` lie beyond what any of these
formulas needs, as the defaults do for formulas of practical size.

The texts of six nodes contain every mark of every notation nested twice, and
cutting them at every place stops each reader in each of its states. The four
labellings put terminals, constants, unary and binary names where they belong, and a
ternary name and names without a rule where they do not. Modulo 5, all four
operations and the functions differ on the two data points, and zeros occur as
divisors and arguments. Three ants on a board of three columns and two rows meet
food at once, behind a border or never, and a limit of three steps is passed inside
a tree (`step_limit`). The ranges include one without a step, one that misses its end,
and 0.1 to 0.3 by 0.1, as the doubles divide, up and down. An elite of two and two generations let a good individual be lost and a
stale fitness be used; the limits of the programs that are larger are cut off at
these bounds. `Word = 256` is more than twice every
coordinate, which is all that is asked of `size_t`.

`TryCap` in `VariationOperators` caps the draws that the code does not count. No
other module has a counter without a bound of its own; the paths are bounded by the
trees.

### Fairness

The library is sequential, so progress means that the one thread that runs a
call goes on: weak fairness of the loop (`GenerateNext` of `GenerateTree`,
`Next` of `TransformTree`, `Draw` of `VariationOperators`, `InGeneration` of `Pipeline`).
The user's own calls are under no fairness. A crossover that needs two different
parents draws the second until it differs from the first
(`operator/crossover.hpp:49`); a draw that stays possible for ever is made by a
random engine with probability one, which is strong fairness of
`SelectSecond /\ selection'[1] # selection'[2]`. Nothing stronger is assumed:
that the draws of a strategy ever fit is not, and the calls of the strategies
return because their tries are limited. The pip strategy is left out of
`CallsReturn`, since it need not return when no pair of its nodes fits. A program
runs as one thread (`WF_vars(Next)`); `lorenz` and `lorenz_multi` draw a first
individual until its chi2 is a number, and strong fairness says that a draw which
can be taken is taken at last. The limits of draws of the ants' programs are
counted by the code and need no fairness. The runs of
containers, trees and walks check safety properties only: the recursions of
`tree_base` descend a finite forest, which is what `ParentsEnd` and `Forest` say.

`CHECK_DEADLOCK FALSE` is set where the system stops: in the tree runs, where
after an undefined operation the program has no defined next step; in
`pipeline`, when the tree of the generator is finished; in `transform`, when the transformation
has returned or thrown; in `programs`, when the program is over.

### Properties

Of the containers and trees:

* `ImplementsContainer`: the array is the sequence of the vector node under the
  same calls. (`Packed`, that no free slot is in front of a child, is proved.)
* `LinksConsistent`: `n` is among the children of `h`, once, if and only if
  `m_parent` of `n` is `h`; a node without a parent has no children.
* `ParentsEnd`: no set of nodes holds the parents of all its members; so
  following `m_parent` ends. With `LinksConsistent` this is the inductive core.
* `Forest`: the same seen from the headers.
* `ArityRespected`: no call that returns or throws leaves a node with more children
  than its array has slots. The inserts throw, copies and the exchange of two nodes
  keep it; two other calls are undefined where they would break it.
* `SizeAccount`: `m_size` is the number of nodes reachable and of the inserts that
  threw. (`SizeReturnsNodeCount`, that it is the first alone, is violated.)
* `LeaksOnlyByThrow`: a call that returns neither loses a node nor touches a lost
  one.
* `CallsAsSpecified`, `ImplementsForest`: the terms before and after a call, for
  the given arguments, and as a refinement.

Of the walks:

* `IteratorsInPlace`: after any mixture of `++` and `--` a preorder or postorder
  iterator is at the node with as many nodes before it, by the definition of the
  order, as it was moved.
* `RankIsLevelOrder`: `rank_is( n )` is the node with `n` nodes before it level by
  level, and the queue is not empty when its front is read.
* `SubtreeRangesEnd`: `++` leaves the subtree of a cursor for what
  `end_preorder( c )` and `end_postorder( c )` return exactly in the stated cases.

Of the generator:

* `HeightIsDepth`: the counter is the depth of the stack, and the stack is the
  path to the node under construction.
* `HeightsInLimits`: what the caller of a generator wants. (`AritiesFilled` is
  proved.)
* `ImplementsPolishWord`: each node pays one subtree owed and owes as many as its
  arity. `Terminates`: the loop, once entered, ends, whatever is drawn.

Of the strategies:

* `AritiesMatch`: every node has the children its symbol takes.
* `HeightsLimited`: no tree is lifted over the limit by a mutation or a crossover other
  than pip, and one that was higher does not grow. (`PipHeightsLimited`, the same of
  the pip strategy, is violated.)
* `NodesConserved`: a crossover moves nodes and neither makes nor loses one.
* `CallsReturn`: the calls end, whatever is drawn.

Of the pipelines:

* `PopulationSizeKept`: never too many, and a finished generation has the old size.
* `ObserverAccounts`: every individual of the new population is reported once,
  with its own position and its parents.
* `BestNeverLost`: with an elite and evaluated fitness the best never gets worse.
* `ImplementsEvolution`: the elite is a set of copies that no one left out beats.
* `GenerationEnds`: a call returns.

Of the transformation:

* `CursorValid`: the cursor of the walk designates a node at every step.
* `ValueKept`: a rewritten formula has the value of the old one in all contexts.
* `NothingLeft`: when it returns, no rule has anything to do anywhere.
* `Completes`: it returns, and does not throw.

Of texts and evaluators:

* `TextsTellTrees`: the three ways to write the polish notation agree, simple and
  json texts tell trees apart, and the numbers of graphviz are those of the preorder
  (`WritersAgree`); what begins with a written text is read as the tree
  (`WholeTextRead`); at any time, and after an exception, the polish reader has built
  a tree of the fields read so far, in their order, and returns one with nodes that
  lack children only if the text ran out (`FieldsInOrder`); the bracket reader
  returns the first balanced piece without the names behind closing brackets, and
  throws if there is none (`BalancedPieceRead`).
* `FormulaEvaluated`: a written formula is parsed as itself, of any other text all
  names are in the formula, in order and associated to the left (`ParsedAsWritten`);
  every evaluator computes what the polish text computes on a stack, but for the
  differences named there (`EvaluatorsAgree`).

Of the ant and the programs:

* `FoodAccounted`: the score is the food left on the trail, and the board shows it.
* `MovesOneField`: only `m` moves the ant, to a neighbouring field, also over the border.
* `FitnessFresh`: whenever a pipeline is called or a result taken, the fitness is
  that of the individuals of now, each ant simulated in a world of its own.
* `StopNotMissed`: no program goes on to evolve behind a fitness that it stops at.
* `WinnerIsBest`: with an elite, no one the run ever kept is better than its winner.
* `RunsAccounted`: runs have a place in the histogram, end early only with a
  result, begin with different individuals; the tree and the code of the test agree.
* `RowsFollowRanges`: rows as long as one of the ranges has a value for them, and each
  range moves with the rows and waits at its last value, which is not its end if the
  quotient of its doubles lies below a whole number. (`StepsLimited`, that an ant makes
  no more than `max_steps` actions, is violated.)
* `ProgramEnds`: every program ends; only those that look for different individuals
  may give up.

For every property of a passing run there is a mutant, marked `Mutant` in the
modules: one operation changed as a plausible error would change it, under which
TLC finds the property violated.

### What was found

Five runs end in a violation and stand for a disagreement in the repository:

* `tree_size`: an insert that throws has counted its node (`tree_base.hpp:499`,
  `518`) and lost it. `size()` is too large from then on, even after `clear()`.
* `root_insert`: an insert in front of the root is meant to throw
  (`tree_base.hpp:528`), but the condition before it dereferences the null
  parent of the header first.
* `pip_retries`: the loop of the pip strategy tests a counter that nothing
  increments (`one_point_crossover_pip_strategy.hpp:89`).
  The example `artificial_ant` passes its favour rate of 0.9 where this
  strategy takes `max_iterations`; there the limit is 0 and the loop ends after
  the first draw.
* `pip_height`: the pip strategy counts a tree one level lower than it gets, since the
  level of a root is already 0 (`one_point_crossover_pip_strategy.hpp:83`). The tutorial
  says that `max_tree_height`, which `artificial_ant` hands to it, is how deep a tree
  can be.
* `step_limit`: the limit of steps is tested between the evaluations of an ant's tree
  only (`examples/artificial_ant/simulation.hpp:134`), so an ant takes more steps than
  the limit and the food found on them counts; the tutorial says that it can make only
  a maximum number of actions.

Met while modelling, and stated by properties as what the code does:

* a polish text that ends early is read without an exception, and the nodes at its
  end lack children (`io/detail/read_polish.hpp:27`); `static_eval` takes such a node
  for a terminal or throws. Constants are written with six digits and read back
  rounded (`examples/dynamical_system/serialize.cpp`).
* the table of `eval_cursor3` takes `y` and `z` for `x`
  (`performance/eval_basic/eval_basic.cpp:147`); the first evaluator has 1 for a
  division by zero, and intrusive nodes another logarithm of zero than the others.
* a sum behind a product is not lifted, since `left_lift` looks at the first child
  only; two ways to write one sum may keep different forms.
* a range of `artificial_ant_plots` may lose its last row to the quotient of its doubles
  (`examples/artificial_ant/detail/artificial_ant_plots.cpp:88`).
* `multi_crossover` exchanges subtrees between different components of the parents,
  because their indices are drawn apart.

Seen and not modelled: `best_individuals` reads as many individuals as it is asked
for (`io/best_individuals.hpp`); `multi_regression_fitness` divides by the number of
variables and not of data points; `create_random_indices` has a statement
`idx[i];` without effect.

## Proofs

The theorems hold for every value of the constants that meets the assumptions of
the modules. Nothing else is assumed. `PathTree_proofs` holds the lemmas on paths
and trees for three of the modules with theorems, `Variation_proofs`,
`TransformTree_proofs` and `Traversal_proofs`: the order of paths, the nodes of a subtree and of a tree with
another one put into it, the operands of a node, heights.

### Containers and links

`TreeBase_proofs`, for every finite set of nodes, all trees, values and arities
(`TreeBaseAssumption`): `TypeCorrect`, `LinksStayConsistent`, `AscentEnds`,
`ForestKept`. The argument is in layers: what insertion, removal and replacement do to the
elements of a sequence without duplicates; the
invariant of the links, `Links(children, parent, {})`, and the five
elementary edits that keep it: linking a subtree under a place outside of it,
unlinking one (the third argument names the roots that hang nowhere for the
moment), reordering, freeing a closed set, and replicating a subtree; and the
memory beside it: `IInv` is `TypeOK`, the links, and
that memory that is not allocated has no parent; and each operation written as a
sequence of edits, one lemma per action. The two
halves of `LinksConsistent` and `ParentsEnd` need each other: a swap is free of
cycles because the subtrees are disjoint, which follows from consistent parents.
`Forest` follows from the invariant by an argument on the set of nodes from which
no header is reached.

The part after it counts: `SizeAccounted`,
`SizeIsNodeCountUnlessThrown`, `NodesLostOnlyByThrow`. A counter can only be
compared with a set of nodes, and the sets are read off the parents alone: where
the links are consistent, the nodes below a header `t` are the only set `N` with
`n \in N <=> parent[n] \in N \cup {t}`. So for each operation it is enough to give
the new sets and to check this equivalence with the new parents. `Accounted` lists
the six things a call can do to them and to the counters (nothing, a throw, one
tree reshaped, two trees exchanging subtrees, a swap, a take-over of a tree), each
operation is shown to do one of them, and each of them keeps the account and loses no
node unless it throws.

The last part of `TreeBase_proofs` is about `ArrayNode`, for every `MaxChildren >= 1`
and every set of children: `ArrayTypeCorrect`, `AlwaysPacked` and `ArrayRefinement`
(to `ChildContainer`). The inductive invariant is `ArrayTypeOK /\ Packed`: without
packedness the index of the first free slot says nothing about the slots behind it.
The refinement maps each action to the action of the same name; its proof compares
the sequences element by element through the place of the first free slot, whose
existence follows from the well-foundedness of the naturals.

### Generation and pipelines

`GenerateTree_proofs`, for all limits and all finite or infinite sets of arities:
`TypeCorrect`, `HeightCounted`, `LimitsKept`, `ArityFilled` and `Refinement`. The
invariant adds `Chained`: the entries of the stack want what their nodes' arities say, the limits
are ordered, and a non-terminal other than the root lies above the maximal height;
only so does a node's child stay within it.

`Refinement`, to `PolishWord` (`ImplementsPolishWord`), maps what is owed to the sum of
the children that the nodes on the stack still want. The sum is a recursive function,
`Sums`; that the recursion defines a function, that it is a natural number and that it
depends on its summands alone is shown by the least index at which it would fail
(`SumsExist`, `SumsAre`, `SumsType`, `SumsAgree`). A step then need only say which
summand it changes: an insert lowers the last by one and may push its node's arity, a
pop drops a summand that is 0.

`Pipeline_proofs`, for all population sizes above two, elites, fitness functions
with NaN and all results of operators: `TypeCorrect`, `SizeKept`, `ObserverTold`,
`BestKept` and `Refinement` (to `Evolution`). The invariant adds `EliteCopied`:
while and after the elite is cloned, the first of the new population are copies of
individuals that no one left out beats. A generation is many steps of `Pipeline`
and one of `Evolution`; all steps but `Replace` and `Evaluate` map to stutters.

### Strategies

`Variation_proofs`, for all symbols and arities, limits, numbers of components and
generated trees: `VariationInvariant`, `VariedTreesAreTrees` (`AritiesMatch`),
`NoTreeOutgrowsLimit` (`HeightsLimited`) and `NodesOnlyMove` (`NodesConserved`). Assumed is that the trees to begin with
and those that a generator hands over are finite trees in which every symbol has its
children (`TreesAssumption`; `ArityFilled` proves that of the generators), and that
the two individuals are vectors of equally many trees, finitely many. `Grown` says the same of a tree with
fewer words: finitely many paths, and for each step `k` below a node `p` that
`Append(p, k)` is a node if and only if the symbol of `p` takes a `k`-th child. It
is kept by what the strategies are made of: a subtree of a tree is a tree
(`SubtreeGrown`), so is a tree with a tree in the place of what is below a node
(`PutGrown`, whose only delicate node is the parent of that place), and so is a tree
with another symbol of the same arity. `PutHeight` bounds the height of the result by
the tree before and by the level of the place plus the height of what is put there,
which is what the strategies test; the pip strategy tests one less, and the theorem
does not speak of it. The invariant needs besides that `candidates`,
which `pip` computes before its first draw, are nodes of the trees drawn as long as
the call runs: nothing is exchanged before it returns.

For `NodesConserved` an exchange is read as a map of places, an individual, one of its
trees and a path: what is below a cut goes below the other cut, all else stays
(`Crossed`). Done twice it takes every place back (`CrossedBack`), and the symbol at a
place before is that at its image after (`CrossedHas`, from `SwapExchanges`). It
therefore pairs the occurrences of a symbol before and after, which are finitely many
(`SwapConserves`).

### Transformation

`TransformTree_proofs`, for every list of rules, every formula that is an ordered tree
and all trial limits (`TransformAssumption`): `WalkedStaysSettled`, `CursorStays`
(`CursorValid`) and `NothingIsLeft` (`NothingLeft`). That nothing is left needs to be
known of every node, so the invariant `IInv` says of the nodes the walk has *passed*,
those above the cursor and to its left, that no rule has anything to do there, and of
the rules already tried at the cursor the same. Three facts keep it.

* Whether a rule has anything to do at a node depends on the value of the node, the
  number of its children and their values alone (`SameView`, `QuietByView`, one lemma
  per rule).
* A rule that answers `repeat` keeps the value of the node it rewrites, so what is
  above it and beside it sees no difference (`AnswersProper`, `PutAlike`). A rule that
  answers `ascent` may change the value, and the walk starts over at the root, where
  nothing has been passed. This is why `ascent` may not be answered with a mere `repeat`,
  nor `repeat` by a rule that exchanges the node.
* From a node to its first child, and from a leaf to the next child of the innermost
  node that has one, nothing is passed but the node that is left (`PassedByDescent`,
  `PassedByReturn`); when no child is left, everything is (`AllPassed`).

The trees of the answers are ordered trees again (`AnswersProper`, `TermNumbered`), so
the numbers that the loops compare with `size()` are those of children that exist.

### Traversal

`Traversal_proofs`, for every finite ordered tree below a header
(`TraversalAssumption`), of any shape and size: `WalkInvariant`,
`IteratorsStayInPlace` (`IteratorsInPlace`), `RankNumbersLevels` (`RankIsLevelOrder`)
and `RangesEndBesideLeaves` (`SubtreeRangesEnd`). What an order means is `Precedes`;
the policies know nothing of it and compare child numbers only.

* `Follows`: what comes before the successor of `c` is `c` and what comes before
  `c`, in each of the two orders, and the shoot follows the one node that all
  others come before. The proof goes by the level at which the climb ends: there is a
  next child, and none on any deeper level, so nothing lies between. For the way down
  in postorder and for the predecessors, along first and along last children there is
  one leaf (`OneLeafAlong`, `FirstIs`, `DeepestIs`).
* The nodes before a node are finitely many and one more after each step
  (`OnePlaceOn`), so `++` keeps the place. The predecessor of a cursor that something
  comes before is a node whose successor is the cursor (`PreorderBack`,
  `PostorderBack`), so `--` keeps it too.
* In `rank_is` the queue is sorted level by level, holds nodes of two levels that
  follow each other, holds no node below another, and every node is in the
  queue, below one of it, or visited (`Levels`). What is visited precedes all of the
  queue, and its number is the number of steps; so the front is the node asked for, and
  as long as not all nodes are visited the queue is not empty.
* The end of the range of a subtree needs no invariant but that the iterator is at a
  cursor: the successor of the last node below `c` is the place beside `c` in exactly
  the cases stated.

### Programs and ants

`Program_proofs`, for all formulas and fitness values with NaN, all trees of ants,
boards and trails, population sizes, limits and ranges:
`ProgramInvariant`, `NoneMissed` (`StopNotMissed`), `WinnerIsBestOfRun`
(`WinnerIsBest`), `RunsAreAccounted`, `RowForEachValue` (`RowsFollowRanges`),
`FoodIsAccounted`, `MovesToFieldBeside` (`MovesOneField`) and `EachRatedAlone`.

The assumptions are those of `EvolutionProgram` and `AntSimulation`: the ants begin in
a simulation as its constructor makes it, with the ant and the trail on the board and
both sides of the board at most half of what `size_t` holds (`NewSimulation`;
`Word >= 64` for the board of Santa Fe), ranges as `frange` makes them,
of numbers that some unit makes whole, with a step up or down that is not 0 and a
quotient that is exact or lies below, and an elite that is not larger than the population, on
which the code relies.

The invariant has a part for each stage of a main function: what has been drawn
(`Drawing`), a population with its fitness (`Populated`), how much of it is evaluated
(`Evaluating`), that all of it is when a pipeline is called or a result taken
(`Rated`), the ants (`Simulated`), the results (`Recorded`) and the rows (`Plotted`).
Three ideas carry it.

* The fitness of an ant is defined without recursion on its tree: a run of a tree is
  a sequence of configurations, each the step of the one before, from the untouched
  world. Two runs agree as far as both go, by the least index at which they would
  differ, so a tree halts with at most one score. `HasFitness` says that a fitness is
  the score at that halt, and `Simulated` that the ant under way is on a run of the
  individual that is to be rated next, of no other one. This is `EachRatedAlone`, the
  part of `FitnessFresh` that needs no recursion.
* With an elite, `Covered` says that whatever fitness has been seen in a run, someone
  in the population is as good. A generation keeps it, since `Evolution` promises an
  elite that no one left out beats; the winner, the best of the last population, is
  therefore the best of the run.
* `lorenz` and `lorenz_multi` put no NaN into a first population, and the elite keeps
  a number in front (`GoodFront`); a NaN in front would make `std::min_element` answer
  with it and the test for the end fail. That is why none of these programs misses
  its end.

### Only model-checked

* liveness under fairness: `Terminates`, `CallsReturn`, `GenerationEnds`,
  `Completes`, `ProgramEnds`;
* what is defined by `RECURSIVE` operators over data:
  everything on terms (`OrderedForest` and with it `ImplementsForest` and
  `CallsAsSpecified`, `TreeText` with `TextsTellTrees`, `TreeEval` with
  `FormulaEvaluated`),
  `FitnessFresh`, which compares a run of an ant with the recursive meaning of its tree
  (`AntMeaning`);
* `ValueKept`, which is about folds over the values of operands and the laws of
  arithmetic modulo a prime;
* `ArityRespected`;
* `SizeReturnsNodeCount` and the other four documented claims are refuted by runs.

## Not modelled, and why

* The normalized, adjusted and multi-regression fitness, `hits`, statistics and
  `app/` (test data, benchmark problems, primitive sets, timers): sums of floating
  point numbers and tables of names, no state that another part relies on.
* `io/population_json.hpp` and `io/best_individuals.hpp`: rows of the texts of
  `TreeText`. Indentation, blanks and the wording of output are left out everywhere.
* The weights of `node_generator` and `uniform_symbol_erc`: which symbol comes is
  nondeterministic. `any_genetic_operator` forwards to the operator it holds.
* Random engines, options of the programs, `examples/api`, `third_party/` and
  `devtools/`.
* Allocation failure and exceptions of value copies: the library does not handle them.

## Plan

Done, in this order: containers, trees and their refinements, generation,
pipelines, strategies, transformation, traversal, with the proofs named above; then
the ant and the programs, texts, parser and evaluators, operators on vectors of
trees.

Theorems about the counters of `TreeBase`, the strategies, the programs and the ant
followed, then that of the words that generators write, and those of the walk of
`transform_tree`, for which formulas became functions on paths.

The walks of `Traversal` came last; for them its trees became functions on paths,
too, and what the orders mean is said of two nodes at a time instead of by recursion.

What is left to prove is what is written with recursion over terms: texts, parser,
evaluators, and the meaning of an ant's tree. `OrderedForest` could take the same way
as `Traversal`, trees as functions on paths; `CallsAsSpecified` would then be the
theorem to prove of `TreeBase`.
