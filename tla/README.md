# TLA+ models of the SPL transformer

SPLc reads a parallel region written in SPL (a small C with OpenMP pragmas) and
writes two transformed regions: the tangent-linear one (rule `tau`) and the
adjoint one (rules `sigma` and `rho`). The adjoint code first runs the region
forward, saving on thread-local stacks which pieces ran (`STACKc`) and every
value that is overwritten (`STACKi`, `STACKf`); then it runs it backwards,
popping labels and values and adding up derivatives. The delicate part is that
the generated code is run by a team of threads: critical and atomic constructs,
barriers, master constructs and worksharing loops all have to be reversed
across threads. That is what these modules are about. A model takes the code that
the transformation generates, as the C++ functions build it, and runs it under
every interleaving; the transformations of control flow, of assignments and of
expressions are themselves modelled as operators on statements. The runtime
stacks of the generated code and the symbol table of the transformer have
modules of their own.

## Inventory

| Component | State | Operations | What makes it correct |
|---|---|---|---|
| `sigma_critical`, `rho_critical` | generated: `STACKc`, `STACKf` per thread, counter `a_l` per construct, the lock of the unnamed critical | open, enter, body, ticket, count, leave, close; spin, ask, take turn, replay, close | executions reversed last first across threads; no ticket lost or doubled; spin loops end; the region leaves no trace |
| `sigma_atomic`, `rho_atomic`, `sigma_barrier`, `rho_barrier` | generated: flag and storage per statement | store once, add, undo once, barriers | the variable is restored whoever comes first; reads are replayed with the value they saw |
| `sigma`, `rho` of sequences, assignments, conditionals, loops, master, worksharing loops; `set_slc`, `partition_seq_into_slc_and_cfstmts` | the tree of vertices; generated: three stacks | push label, save, assign; dispatch on the top label, pop, restore | the reverse section retraces the forward one; the reverse loop ends |
| `build_adj_rhs_forward`, `build_adj_rhs_reverse` | `inside_critical_construct`, results of the exclusive read analysis | adjoint increments, with or without an atomic pragma | no increment of a shared adjoint is lost |
| `Stack.h` | array, counter, size | `init`, `push`, `pop`, `top`, `empty` | never above its size, never below zero |
| `cstack.h`, `stacks2C.pl` | arrays, `unit_for_size`, a lock | allocation, checked and unchecked push | one size for all threads |
| `AST`, `ast_vertex` | vertices, flow sets, code to insert before the sections | `set_CFG_elements`, `create_thread_local_stacks`, `normalize_arithmetic_expression`, `clone`, `replace` | flow covers all paths; each order of derivative has its stacks |
| `symbol_table` | map from names to declarations, order of the code, prefixes | `insert`, queries, `clear_intermediates` | no name twice; of what a transformation adds at most one symbol survives, and none that the next declares again |
| exclusive read analysis | an interval of expressions per variable and node, list of assertions per node, `is_memory_read_exclusive` | fixpoint with widening, narrowing, `eval`, transfer, decision on each read | terminates; every run stays in the intervals; exclusive only if no two threads read the location |
| interval analysis, constant propagation | an interval or a constant per variable and node | fixpoint, domain operations | terminates; contains every run |
| `tau` | the tree | derivative statement in front of each statement | structure of the region kept |
| scanner, parser, unparser, driver, scripts | none of lasting interest | | |

The parser builds the tree and numbers its vertices; the numbers are the labels
pushed on `STACKc`. With `-O1` or higher the driver runs the exclusive read analysis, whose
map `is_memory_read_exclusive` is read by `build_adj_rhs_reverse`. `sigma` of a
region calls `sigma` and then `rho` of the body; the two meet in names kept in
the AST (`critical_counter_names`, `atomic_flag_names`) and in the vertex
numbers, never in a check that they fit together. `code_to_insert_before_forward_section`
and `code_to_insert_before_reverse_section` collect initialisations and
barriers on the way. The generated code meets the runtime stacks, the team of
threads and one lock: every unnamed critical construct of the program, forward
or reverse, is mutually exclusive with all others.

Hard behaviour, and where it is covered:

- interleavings of the team in the forward and in the reverse section, the spin
  loop of `rho_critical` and its turns (CriticalAdjoint);
- shared state that outlives the region, counters and flags, when the region is
  entered again (CriticalAdjoint, AtomicAdjoint);
- labels and tickets that share one stack, with nothing but their order to tell
  them apart (CriticalAdjoint, ControlReversal);
- lost updates of shared adjoints (AdjointIncrement);
- termination and soundness of the exclusive read analysis, against the region
  run by a team (ExclusiveRead);
- derivative statements between which other threads run; the second derivative,
  where the tangent-linear code of adjoint code is run (TangentLinear);
- capacity of the stacks, and state shared by the threads that allocate them (ClassStack, CStack);
- a table that one transformation leaves to the next (SymbolTable).

`PROJECT.json` lists the hazards line by line with the properties that cover them.

## Modules

`SectionOrder` is the abstract specification of a critical construct: a trail of
executions, each reversed by its own thread, last first, and none started once the
reverse section has begun.

`CriticalAdjoint` is the code generated for critical constructs. One action is
one step of the generated code that other threads can tell apart. `pc` says
where a thread is: `forward`, `enter` (label pushed, waiting for the lock),
`body`, `count` (ticket pushed, counter not yet incremented), `leave`, `close`,
`barrier`; `reverse`, `spin`, `turn` (inside the critical construct of the spin
loop), `replay` (its turn taken, undoing the body), `done`. `cur` is the construct
the thread is in, known to the code by its position. A body is any number of
straight-line pieces, each pushing its label on `STACKc`, saving a shared
variable on `STACKf` and overwriting it with any value. Pieces
outside critical constructs are left out: they are private to the thread or read only, and
ControlReversal covers their labels. The module ends with the inductive
invariant `CriticalInv`.

`AtomicAdjoint` is the code generated for atomic increments of one variable `y`.
A region is an unrolled program of atomic statements, reads and barriers; every
statement but a barrier may be skipped, as under a conditional, so that each is a
piece with a label of its own. Assumptions on the programs: a read and an
increment of `y` are separated by a barrier (otherwise the region itself has a race).
`Parted` says that of two positions. What a read saw is kept by its position (`seen`).
The caller may enter the region again with another `y`. The module ends with the
inductive invariant `AtomicInv`.

`SigmaRho` is the transformation itself for structured control flow: `Sigma`
and `Rho` map statements to instructions. A region is a table of its sequences,
each construct naming its body by the number of its vertex, so that no operator
has to descend into a tree. The code of a sequence is generated when control comes to it:
an instruction `SigmaFrom(v, k)` or `RhoFrom(v, k)` stands for the code of sequence `v` from its
`k`-th statement on, `SlcFrom` and `SlcBack` for what is left of a straight-line run. What runs is the code
that the C++ functions build at once; a master construct's and a loop's body
is generated again whenever it is entered, with the same result. `RunFrom` is the partition
into straight-line runs, each named by its first statement. `ControlReversal` runs the generated
code of a region in one thread: every test may come out either way in the
forward section, every assignment computes a value never seen before, so that a
wrong restore cannot go unnoticed; `made` and `undone` are history, `made` with the run, the variables and the height of the
stacks at each assignment. A run of
`RunRestore` on an empty stack is undefined in C++; the model stops there, so TLC
would report it as a deadlock, and `StacksSufficient` proves that it does not happen.
`ConstantsAssumption` is what the parser gives: every vertex has a number of its own, and the body of
each construct is there.

`AdjointIncrement` is the choice between a plain and an atomic increment in
`build_adj_rhs_reverse`, run by a team. A plain increment is a load and a
store; a critical construct holds the lock around both. The result of the
exclusive read analysis is any set of locations that only one thread reads,
which assumes that the analysis is sound and not that it is complete.

`DerivativeCode` is the transformation of assignments and expressions: `Tau` with
all statements that have an effect, and `Sigma` and `Rho` of assignments, atomic
increments and reads that failed to be exclusive. `BuildTlRhs`, `BuildAdjRhsForward` and
`BuildAdjRhsReverse` take an expression apart into one statement per operation on intermediates
`v0`, `v1`, ... numbered from left to right, as the functions of these names
do. Input and output are of one language, so the adjoint code can be
transformed by `Tau` once more. Sines and the like are functions on integers with no
meaning; what matters is which one is applied to what. `Augment` is the loop of
`rho_exclusive_read` over the list it edits, with its positions.

`TangentLinear` runs what `Tau` makes of a region by a team, one generated
statement of one thread at a time; a plain increment of a shared variable is a
load and a store. `DualRegion` is its abstract specification: the region itself, run on
pairs of a value and a derivative, each statement first differentiated by the chain rule and then
done. The mapping (`Dual`) takes the derivatives from the variables with the prefix of
tau and lets the intermediates vanish: a thread is in the middle of a statement
of the region (`half`) when only the last of its generated statements is left.
When the region is the adjoint code of another region (`of`), `AdjointExact`
compares the adjoints with the Jacobian, computed by the chain rule in each direction.

`IdealStack` is what the generated code expects of its stacks: one sequence for
each thread, nothing shared. `ClassStack` (`Stack.h`) and `CStack` (`cstack.h`)
implement it with an array and a counter (`StackArray`). `ClassStack` is one object of any of the classes; double
and long double are the same code. `CStack` is all threads of all teams of the
driver: the loop over the size of the team, and in it the parallel regions that
allocate, use and free. The lock is taken when it is found free, a
polling loop being a wait. Whoever uses `ad_push` or a plain class has to stay
within the array, nothing else keeps it there: `Depth` is this assumption, and
`DepthAssumption` and `SizeAssumption` say that the arrays are large enough.
A push outside is undefined, in `CStack` it may change any element of any array.
Memory may run out: `Allocate` leaves it open whether `malloc` gives an array, and `CheckAllocated`
is the assertion that comes after the lock has been released, so other threads run between the two.
`stopped` names the thread whose assertion has ended the program. The `new` of `Stack.h` throws
instead, nobody catches the exception, and `stopped` of `ClassStack` tells it from a failed assertion.

`SymbolTable` is the table between the parser and the two transformations, and
the part of each that declares names. A name is the sequence of its prefixes
and its base, each a number for its place in the order of strings, because the
loop of `clear_intermediates` depends on that order. `ClearStep` is one turn of
it. `GetIntermediateName` declares what the table does not know. The module ends with the
inductive invariant `TableInv`.

`Bounds` is the domain of the exclusive read analysis: intervals whose bounds are
expressions over the thread number, the number of threads and the shared
integers, with minimum, maximum, arithmetic, join and widening of bounds. The
code asks for two kinds of equality, of pointers and of trees. A bound that
is one of the seven global vertices (infinities, `THREAD_ID`, ...) carries
`glob = TRUE`; its clone is alike as a tree and has `glob = FALSE`. The
special cases of `operator_min` follow the code one by one, since the
results depend on which one is met first.

`ArrayIndex` is the decision on one array index: the largest index of thread `t`
is compared, as an expression, with the smallest of thread `t + 1`.
`normalize` gives a set of results: `normalize_arithmetic_expression` replaces
children while its caller runs through the list of children, which is
undefined, and the model lets the second operand be visited or passed over.

`ExclusiveRead` is the analysis and then the region. A region is a flow graph
of declarations, integer assignments, tests, floating-point assignments with
their reads, and an exit. `Visit` handles one equation (join of the predecessors,
union of their assertions, transfer), `WidenVertex` and `NarrowVertex` are its
two uses; `BeginRound`, `RoundOver`, `WidenAgain`, `StartNarrowing` and `NarrowAgain` are the
loops around it, ten rounds at most of narrowing; `Decide` fills
`is_memory_read_exclusive`. The order of the equations is
the order of the addresses of the vertices, so a region comes with the orders
to be tried. In phase `run` the threads run the region, `store` holding the
integer variables of each, and `seen` records what each reads. An interval
that is missing where the code reads one is a null pointer there; here it is
a function applied outside of its domain, which TLC reports, and so a passing run
shows that it does not happen in its regions.

Left out of the analysis: reads of the runtime stacks and negated tests, which
are in generated code only; the entry vertex of the flow graph and the vertices of
regions, which change nothing; that a tree normalised in place
may be shared with an interval read later. Number texts are numbers, and the
text of anything else is read as 0, which is what a stream has given since
C++11.

The proof modules are named after what they prove about.

The MC modules give the constants their instances. `MCTangentLinear` has regions
with every operation, with loops, tests, master and worksharing constructs, with
a barrier, a critical construct and atomic increments, and the adjoint code of
straight-line regions for one thread and for two. `MCSymbolTable` has inputs
with names in front of, between and behind the names that are made, among them tangent-linear and
adjoint codes and the adjoint's tangent-linear code. `MCExclusiveRead` builds its
regions from `first-example.in`, `small.in` and `data-decomposition.in` of the
test suite, and small ones of its own for what is violated. Operators named in
"Mutant" comments are the defects used to show that a property can fail; no
specification uses them.

## Runs

| Run | Instance | Shows |
|---|---|---|
| CriticalTwo | 2 threads, 2 constructs with a variable each, 2 values, stacks to depth 7 | `TypeOK`, `CriticalInv`, `TicketsExact`, `StacksAligned`, `RegionUndone`, refinement of `SectionOrder` (`ReversedLastFirst`), `RegionLeft`: every thread leaves the region |
| CriticalThree | 3 threads, 1 construct, depth 4 | `ReversedLastFirst`, `RegionLeft` with three competitors for a turn |
| AtomicPhases | 3 threads, 2 executions of an atomic statement, a read, another atomic statement, barriers between; region entered twice with 0 or 5 | `TypeOK`, `AtomicInv`, `ReadsReplayed`, `RegionRestored` |
| ControlAll | 766 regions: one or two statements in two levels of nesting, or a construct between two assignments; `StackBound` 2 | `TypeOK`, `Retraced`, `RegionReversed`, `ReverseEnds` |
| ControlFor | one worksharing loop | `AssignmentsKept` fails (below) |
| IncrementUnmixed | 3 threads with up to 2 reads each of 2 locations | `NothingLost`, `IncrementsKept` |
| Derivatives | 2 threads, 13 regions: each operation and constant, brackets, repeated operands, control flow, synchronisation, adjoint code | `TypeOK`, `DualRun` (refinement of `DualRegion`), `AdjointExact`, `FailuresAtomic` |
| Stacks | teams of 1 and 2, 64 bytes: 4 elements for one thread, 2 for each of two; thread 1 pushes unchecked, thread 2 checked; any `malloc` may fail | `TypeOK`, `ArraysHaveUnit`, `StoppedForMemory`, refinement of `IdealStack` (`IdealStacks`), `RegionsEnd` |
| StackClasses | one object of each class, 3 elements, 2 values | `TypeOK`, `StoppedOnlyAtLimit`, refinement of `IdealStack` (`IdealObject`) |
| Symbols | 1040 inputs of up to 6 floats and 2 integers, with or without a counter, with one or two expressions | `TableInv`, `NeverFails`, `DeclaredOnce`, `ClearedButOne`, `Finishes` |
| ExclusiveSuite | eight regions after the test suite, 3 threads, 3 to 7 data counted by an unsigned `n` or 0 to 4 counted by a signed `m` | `TypeOK`, `Contained`, `ExclusiveReads`, `Converges` |
| ExclusiveStencil | a loop reading `x[i]` and `x[i+1]` | `ExclusiveReads` fails (below) |

Bounds. `StackBound` of CriticalAdjoint limits the depth of a control stack and
with it the executions: an execution needs a label, a ticket and a label, so
depth 7 lets a thread run two executions of the same or of different constructs
with a piece in one of them, and depth 4 one execution with a piece (three
threads, hence three tickets in any order). Two constructs are enough to mix up
labels, counters and owners; two values tell a restored variable from one left
alone. In AtomicAdjoint two executions are enough for the first and the second
to come from different threads, or from one, the read lies behind one phase and in
front of another, and a second entry shows what flags and storages leave behind. `StackBound` of ControlReversal stops a loop from
starting another iteration on a deep stack, so two or three iterations happen
before it has to end; within these a body that pushes nothing may iterate for
ever, which is a matter of the region and not of its reversal: `ReverseEnds` speaks of the reverse section. None of the instances uses symmetry.

In ExclusiveRead `RoundBound` is 12 rounds of widening; the regions need fewer,
and `Converges` says so, as the code has no bound at all. Each region is tried with
the addresses in the order of the text and in the order in which the parser makes the
vertices. `n` goes from the number of threads up, so that thread numbers, remainders and
short last parts all come out differently: the code warns itself that "special case 001 holds only iff
n >= omp_get_num_threads()" (`exclusive-read.cpp:1342`). The signed `m` goes
below, to no data at all. There an unsigned number of data would break
`Contained`: in `ub = n - 1` the bound is taken for a natural number because `n` is
unsigned, and the int value is -1. `IntMax` stands for the largest integer and
is never reached by a value. The threads run the region one after the other:
the regions write no shared integer, so the order makes no difference to what each reads.

In Derivatives values are small integers, one or two sets of them to a region:
what can be wrong is which variable, intermediate or factor is used, and when;
the values are chosen so that wrong ones rarely coincide, and the defects kept as mutants show
that they are told apart. Two threads are enough for one to run between two
statements of the other. Regions with atomic increments hold one such
statement, with more the restores are wrong (see below). In Stacks two teams
show what one leaves to the next, and 2 elements that a checked push meets its limit; in
StackClasses 3 elements leave room for a value in the middle. Stacks and StackClasses
switch the deadlock check off since a failed assertion, or the lack of memory, stops the program, Symbols because a transformer
has an end. In Symbols five letters in front of and behind the prefixes `a1_`, `t1_` and `v0`
are enough for a removed name to be the first, in the middle and the last.

Fairness. `FairSpec` of CriticalAdjoint assumes that every thread takes its next step when it can
(the operating system schedules all threads of the team) and that a thread that keeps asking for the
critical lock, while it is free again and again, gets it once (`SF_vars(AskForTurn)`).
The first is what an OpenMP team is; the second OpenMP does not promise, and
the generated code relies on it: a thread whose turn it is not takes the same
lock in a busy loop and may win every time. The runs show that this is all
that is needed; no fairness among turns, executions or threads is assumed
besides. `ReverseEnds` only assumes that the thread keeps running, and `Finishes`
that the transformer does. `FairSpec` of CStack assumes that a thread in `ad_init` or `ad_dealloc`
goes on when it can, weakly fair: it may be passed over while others hold the lock, but each takes it once
in a region, so the polling ends. Nothing is assumed of the adjoint code in between.

### Where the code and its documents disagree

- ControlFor. `sigma_omp_for` takes the first child of what `sigma_assign`
  gives, the push, and so the loop variable is never initialised.
- ExclusiveStencil. Each access is judged by its own formula, and accesses to one array are
  brought together only if their verdicts differ. `x[i]` and `x[i+1]` are both exclusive by themselves, and
  the last `x[i+1]` of a thread is the first `x[i]` of the next. What
  `AdjointIncrement` assumes of the analysis does not hold for such regions.

`PROJECT.json` quotes the lines.

Further limits have an instance in the MC modules and no run: give the operator as the
value of the constant named in a copy of a configuration.

| Operator | Breaks | Because |
|---|---|---|
| `MCTouchesSame` (`Touches` of MCCriticalAdjoint, 2 constructs, depth 7) | `RegionUndone` | executions of different constructs on one variable are ordered by the unnamed lock in the forward section; each construct has a counter of its own, and the reverse section undoes them in any order that is right for each |
| `Mixed` (`Reads` of MCAdjointIncrement) | `NothingLost` | in a critical construct no increment is atomic (`rho.cpp:570`), and a critical construct excludes no atomic update outside |
| `NumberTest` (`Region` of MCExclusiveRead) | `Contained` | a test against a number cuts the interval of every variable, not only of the one tested (`exclusive-read.cpp:2167`) |
| `StaleAssertion` (`Region`, with `Large` for the data) | `Contained` | assertions of all predecessors are united at a join and none is withdrawn (`exclusive-read.cpp:323`); one that holds on a branch stops widening below the values of the variable, and ten rounds of narrowing do not get there |
| `LoopPhase` (MCAtomicAdjoint, one statement) | `ReadsReplayed` | the flag goes from 0 to 1 to 2 once per region, so `y` is put back to its value before the first phase while a read of a later phase is still to be reversed |
| `TwoAtoms` (MCAtomicAdjoint, two statements) | `RegionRestored` | the storage of the second statement may be filled after increments of the first one; the last restore decides |
| `CloneOfThread` (MCExclusiveRead) | `Contained` | a clone of `THREAD_ID` is no longer `THREAD_ID`; it passes for a number and its text is read as 0 |
| `NegativeJoin` (MCExclusiveRead) | `Contained` | the minimum of `THREAD_ID` and any number is 0 |
| `NegativeFactor` (MCExclusiveRead) | `Contained` | with one constant factor the bounds are multiplied in their order, the wrong one for a negative constant |

## Proofs

Every theorem holds for all values of the constants that the assumptions of its
module allow: any number of threads, locations, labels, values, any sizes.

| Module | Theorem | Property |
|---|---|---|
| CriticalAdjointProofs | `CriticalInvariant`, `TypeCorrect`, `StacksStayAligned`, `TicketsStayExact` | `CriticalInv`, `TypeOK`, `StacksAligned`, `TicketsExact` |
| CriticalAdjointProofs | `ReversesLastFirst` | `ReversedLastFirst`: `Spec` implements `SectionOrder` |
| CriticalAdjointProofs | `RegionUndoesItself` (constructs have variables of their own), `CountersReturn` | `RegionUndone`; counters and stacks return to their start |
| AtomicAdjointProofs | `AtomicInvariant`, `TypeCorrect`, `ReadsAreReplayed`, `RegionIsRestored` (the last two: one atomic statement to a phase) | `AtomicInv`, `TypeOK`, `ReadsReplayed`, `RegionRestored` |
| ControlReversalProofs | `ReversalInvariant`, `RegionTyped`, `RegionRetraced`, `RegionIsReversed`, `StacksSufficient` (regions without a worksharing loop) | `TypeOK`, `Retraced`, `RegionReversed`; no pop or restore below a stack |
| AdjointIncrementProofs | `NoIncrementOverwritten`, `NoShareLost` | `IncrementsKept`, `NothingLost` |
| SymbolTableProofs | `TableInvariant`, `AssertionsHold`, `DeclarationsAreSingle`, `ClearingLeavesOne` | `TableInv`, `NeverFails`, `DeclaredOnce`, `ClearedButOne` |
| ClassStackProofs | `ClassTypeCorrect`, `ClassStopsOnlyAtLimit`, `ClassRefinesIdeal` | `TypeOK`, `StoppedOnlyAtLimit`, `IdealObject`: `Spec` implements `IdealStack` |
| CStackProofs | `CStackTypeCorrect`, `CStackArraysHaveUnit`, `CStackStopsForMemory`, `CStackRefinesIdeal` | `TypeOK`, `ArraysHaveUnit`, `StoppedForMemory`, `IdealStacks`: `Spec` implements `IdealStack` |

### Critical constructs

The only assumption on numbers is that a counter starts above every label by
more than one. It holds because `sigma_critical` takes the number of a vertex it has
just created, plus one, and numbers only grow.

The argument. `TicketsExact` alone is not inductive: to see that taking a turn pops the
right ticket one has to know that the top of the stack is a ticket of the
construct the thread is in, and nothing on the stack says so. `StackShape` and
`TopShape` describe the stack as a row of blocks (opening label, piece labels,
ticket, closing label) and what is on top at each `pc`; with them the owner of a
ticket is the label right behind it. `TicketsBounded` keeps each ticket below its
counter, except the one being counted; `TicketsUnique` and `TicketsThere` say that
the tickets below the counter are on the stacks once. `LockHeld` makes the push of a ticket
and the increment one step for the others. `PhaseShared`, which the barrier
gives, keeps a counter from going up and down at once. The proof has a lemma
for each part of the invariant and each kind of action, lemmas on `Push`, `Pop`
and on stacks that keep their lower part, and one step per action in the end.
`StacksAligned` rests on lemmas on the cardinality of the set of piece labels
when one is pushed or popped.

`SectionOrder` speaks of a trail of executions, and the code has only tickets
on the stacks of the threads. The mapping finds the trail in them: its `k`-th
entry is the holder of ticket `CounterInit + k - 1`. `TrailHasShape` says that
every ticket below the counter has exactly one holder (from `TicketsUnique` and
`TicketsThere`); `HolderStays` that no step but the one that takes a ticket
back changes a holder, so the trail only grows or shrinks at its end. The increment of
the counter is then the start of an execution, the decrement its
reversal by the thread that holds the last ticket, and every other step is a
stutter. That the trail does not grow while it shrinks is `PhaseShared`.

`RegionUndoesItself` has the assumption `OwnVariable`: no two constructs write the
same variable. `MCTouchesSame` shows that it is needed. The invariant `UndoInv`
looks at the pieces that are still to be undone. A piece on a stack belongs to the
execution that is open or to the one whose ticket lies above it, and the pieces of one construct
are ordered by ticket (`Rank`), within an execution by their place on the stack.
`Restored` says of each construct: the first of its pieces in this order has saved the value that the
variable had on entry, and when no piece is left the variable has it. A new piece never comes
before one that is there, as its execution has the lock and the largest ticket, so it saves the entry
value only when it is the first; and the first piece is undone when it is the only one left,
which the turn-taking by tickets is for. A
variable that no construct writes keeps its value (`Untouched`).
`CountersReturn` needs no assumption on the variables: when the threads are done,
no stack holds a ticket, and by `TicketsThere` no counter stands above its start.

### Atomic constructs

For every program the invariant has the team in one section (`Together`), between
the same barriers (`Synchronised`: a barrier label is on all stacks or on none, and on
every stack with a later label), the lock with the thread inside of a critical construct, and the flags in step
with the stacks (`FlagsRaised`: a flag of 1 has a filled storage and an execution to be undone; a
label on a stack has a flag that is not 0).

What the values are needs `OnePerPhase`: between two barriers there is one
atomic statement, and it is in no other phase. `LoopPhase` and `TwoAtoms` break
the properties without it. A position is pending when its flag is 1. `Kept(p, v)` says that `v`, the value of `y` at
position `p`, will be in `y` again when what is pending behind `p` is undone: it is in the storage of the
first pending statement behind `p`, and in `y` if there is none. `ValuesKept` states it for the entry
value and for each read on a stack. The steps that matter are `Store` and
`Undo`. With the lemma `LatestPhase` the statement of the thread inside the critical construct is behind
all reads on the stacks and behind everything else that is pending: a barrier
between them would have been passed by all (`BarrierPassed`), also by this thread,
whose top label is in front of it. So a storage is filled when nothing is
pending behind the reads, or behind the statement, and what is undone is the last phase. A read
finds nothing pending behind itself (`NothingPending`), forward or in reverse,
and its value in `y`.

### Structured control flow

The theorems hold for every table of sequences, of any length, nested to any depth or even into
themselves, for any variables and any number of iterations. `NoForLoop` leaves out
regions with a worksharing loop, where `sigma` drops an assignment and `rho` restores it all the same
(run ControlFor).

What the properties say of the end of the region has to be carried through its whole execution, and the two stacks
alone do not tell whether they can be read back. `ReversalInv` therefore relates them to the history.
`HistoryInv` says how the history grows: by whole straight-line runs, each with one label more than the
run before (`RunChain`), by one saved value for each assignment (`SaveChain`), each
changing only its own variable (`EnvChain`). `HeldInv` says that the label and the value that an assignment
put on the stacks are there as long as the stacks are as high. `Done` is the number of assignments
made and not undone; `EnvInv` and `UndoneInv` tie it to the variables and to `undone`.
`InForward` and `InReverse` are the places of control: each is a shape of the first instructions of the
code that is left together with what the stacks count. `Between` says that the labels stand for the runs up to
the last assignment and that its run is whole; `Within(S, k, L)` that the `L`-th label stands for `S`,
of which `k` statements are done; `Saved` and `SavedFor` count the values. In the forward section
the code behind the first instructions is of the forward section and ends with the reverse loop (`Ends`), in the reverse section
it is of the reverse section.

Two steps carry the argument. When a branch is entered (`BranchStep`, `UnlabellingStep`), the label on top is that of the run
of the last assignment, and because a number belongs to one vertex the branch is that
run's (`LabelNamesRun`). When a value is restored (`RestoringStep`), it is the value
saved for the last assignment, the other variables are by `EnvInv` what they were before it, and `EnvChain` moves
`EnvInv` one assignment back. A step that only generates code is settled by what `Sigma` and
`Rho` of a sequence look like (`SigmaSeqShape`, `RhoSeqShape`); that each run
is a part of its sequence and starts with the statement that names it comes from the least
statement behind which the run ends (`RunEndExists`, by `LeastNumber`).

The regions of ControlAll have no worksharing loop, so the run checks on them what the theorems say; TLC
checked `ReversalInv` there too before it was proved.

### Increments

`NoIncrementOverwritten` has the assumption `Separated`: no location is read both inside and outside of critical
constructs, and the option `--suppress-atomic` is off. The
instance `Mixed` shows that it is needed. The invariant `IncrementInv` says that
a thread between load and store has a register equal to the adjoint: either it
holds the lock, and everybody else who increments the location needs it, or it
is the only reader left of a location held exclusive.

`NoShareLost` counts. `due` is the number of reads of a location that the team has made, and the invariant
keeps the adjoint and the number of reads that are still to be reversed in balance:
what is left is a set of pairs of a thread and a place in its list, finite because the
team is, and each increment that is done takes one pair out of it.

### Stacks

For `CStack` the invariant is in parts: `PhaseInv` ties the place of each thread to the
phase of the driver (in the adjoint code every thread of the team has an array,
between teams nobody has), `UnitInv` says that once one thread has computed the unit it is
that of the present team, and `ArrayInv` that each array there has this size.
That `unit_for_size` is written without the lock does no harm because all
threads of a team write the same number, and the barriers at the ends of the
parallel regions keep the teams apart: this is what the proof needs and all it
needs. The refinements of `IdealStack` rest on `StackArrayProofs`: storing at the counter
appends to the sequence an array holds, stepping back takes the last value off.

`CStackStopsForMemory` goes through the assertions. Those of `ad_init` and `ad_dealloc` on arrays of other teams
(`cstack.h:30`, `76`) and the first one of `ad_spush` (`cstack.h:60`) cannot fail: `PhaseInv` says that a thread
without an array does not get past `cstack.h:40`, and that one outside of the region has none. The other three fail for
want of memory: `main` found none (`StackBytes` = 0, which the theorem covers and the run does not), `malloc` gave none,
or the stack is full. A `malloc` that fails is a stutter of the ideal stacks.

### Symbol table

`ProgramsAssumption` is what the code takes for granted of an input: it declares a float; no name of it
is the `v<i>_from<k>` that its own transformation makes (`k` the greatest order of its names); the
counters of `sigma` have a name of their own, without prefix; and the orders in a prefix
decrease and leave room for a derivative with one digit. Nothing is assumed of the order of the names, and inputs may
be derivatives themselves.

The lemmas come first: `Before` orders names like a dictionary (`BeforeTransitive`,
`BeforeTotal`; two names are told apart at the least position where they differ, `LeastNumber`), a finite set of
names has exactly one first (`FirstExists`, by the least number of names in front
of one), `AfterIs` says what an increment of the iterator finds, and
`DerivativeFacts` that a prefixed name is well-formed and none of the program's.

The loop of `clear_intermediates` goes back to the first name after each removal and then advances, so this
name is not looked at. `Clearing` is its invariant: everything in front of the iterator is ordinary, but perhaps the
first name of all. If the name removed was the first, the next one is passed over; if not,
the first is the one that was passed over before. So at the end only the first name can be left. That it
is a derivative, never an intermediate `v<i>` (which `sigma` would then not declare), needs what `tau` leaves:
`TangentNames` says that each intermediate has its derivative in the table, which comes before it, and that
there is the derivative of a float besides; the first name and the one behind it are derivatives therefore.
`InOutput` carries this to `sigma`: what the table holds beyond the program's symbols the output has
declared, except a name with the prefix of `tau`, which `sigma` never makes.

### Only model-checked

All liveness: `RegionLeft`, `ReverseEnds`, `RegionsEnd`, `Finishes` (TLAPS does not treat fairness).
The properties of `TangentLinear` and `ExclusiveRead`: what `DerivativeCode`, `Bounds` and `ArrayIndex` compute is
defined by recursion over expressions, so every statement about it is an induction over trees,
for which the provers have no rule.

## Not modelled

- Dummy and assert statements, which have no effect on values; stack statements of code that has been
  transformed before in `sigma` (`sigma_stack`), that is, the adjoint of adjoint
  code: `TangentLinear` differentiates adjoint code by `tau` only.
- Control flow inside of `DerivativeCode`'s adjoint: `ControlReversal` has the
  control flow with abstract values, `AdjointExact` the values of straight-line
  code. Their composition is by statements, and the labels do not touch values.
- Floating-point arithmetic: values are integers, and rounding is no matter of the transformation.
- The interval analysis and the constant propagation: switched off in
  `AST.cpp:40-41`, nothing reads their results. The exclusive read analysis grew out of
  the former and has the same fixpoint iteration, which is modelled.
- MPFR and PAPI variants, memory statistics, nested locks, the message that `ad_spush` of
  thread 0 prints under the lock.
- `create_thread_local_stacks`, grammar, printing, options, scripts: text in and
  text out, without state that a later step depends on beyond the names in `SymbolTable`.
- Names of orders above 9, which the constructor of `symbol` does not read as prefixes.

Memory is sequentially consistent in the models; the generated code reads its own stacks
outside of the lock and shared counters only inside, so weaker memory adds
nothing for them. What differs is `unit_for_size`: the barriers at the ends of the
parallel regions make it visible.

## Possible extensions

The composition of `SigmaRho` with `DerivativeCode` for regions with control flow; the adjoint of
adjoint code; the older analyses, should they be switched on again.
