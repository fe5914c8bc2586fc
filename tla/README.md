# A TLA+ model of taas-fudge

taas-fudge answers reasoning tasks about abstract argumentation frameworks: a set of
arguments and an attack relation between them. A task is a problem and a semantics, such as
SE-PR (print some preferred extension) or DS-PR (is the argument in every preferred
extension?). The program reads a command line and a framework, computes the grounded labelling,
settles what that labelling settles, and hands the rest to a function of its own per task. Almost
all of these functions are loops around an incremental SAT solver: ask for a model, read it, add
clauses that depend on it, ask again. The solver, CaDiCaL 2.1.0 behind the IPASIR interface,
is part of the repository.

What makes this code hard to get right is not concurrency (there is one thread) but
*protocol*. A solver accumulates clauses over the iterations and forgets its assumptions at
every call. Its model may be read only until the next clause is added. Two solvers take turns in
several tasks, each giving the other its next question. An answer is right only if no clause
ever excluded a set it should not have, and a loop ends only if every round excludes
something. The solver may return *any* model, so a test run sees one path where the
specifications here follow all of them. Inside the solver it is the same on another level: it
keeps less than it was given, and what it dropped must come back when a later call needs it.

## Inventory

The program:

| part (source) | state it keeps | operations | what makes it hard | what makes it correct | status |
|---|---|---|---|---|---|
| command line (`taas_inout.c:63-120`) | fields of the task, some uninitialised | one option after the other | options in any order, repeated, missing; parameters are only counted | a proper call is answered, an improper one is not | `CmdLine`, proved |
| file readers (`taas_inout.c:139-288`) | lists, counters, bit sets, names | one line after the other | five structures per attack line; unknown names, fixed buffers, a file of the other format | all five agree with the file | `Loader`, proved |
| bit set (`util/bitset.c`) | words | set, unset, get, next bit | word boundaries, bits beyond the length | the walk visits each member once | `BitSet`, partly; proved |
| driver (`taas_basics.c:79-175`, `taas-fudge.cpp:80-`) | the task | settle from the grounded labelling, or dispatch | rewrites the task to get a witness | answer and witness belong together | `Driver`, proved |
| grounded labelling (`taas_basics.c:17-56`) | labels `in`/`out`, attack counters, work list | three nested loops | lists in file order, attack lines given twice, pushing exactly once | counters exact at every step, labels grounded, returns | `Grounded`, proved |
| SAT wrapper (`sat/ipasir_solver.cpp`, `ipasir.h`) | clauses, assumptions, IPASIR state, model | add, assume, solve, value | when a value may be read, how long assumptions live | used within the contract | `Ipasir` |
| encodings (`tasks/task_general.cpp`) | none | clauses for admissible, conflict-free, complete, stable sets and for attacks between two sets | grounded labels built in as unit clauses | models are exactly the sets meant | `Encodings`, proved |
| SE-PR (`task_se-pr.cpp`) | set in hand, new members, clause | grow a set until no larger one exists | clauses of all iterations together | result preferred and contains the start | `SePr`, proved |
| DS-PR (`task_ds-pr.cpp`) | two solvers, witness | counterexample-guided refinement, then SE-PR | refinement clauses; which solver is read; what SE-PR is started from | answer, witness, no counterexample lost, ends | `DsPr`, proved |
| SE-SST, SE-STG | set in hand, arguments decided | minimise the undecided arguments | accumulated and per-model state side by side | result maximal, ends | `RangeMax`, proved |
| DC/DS-SST, DC/DS-STG | outer and inner solver, blocking clauses | two nested refinement loops | values read between added clauses; assumption lifetimes | answer, no extension lost, ends | `RangeQuery`, proved but for the finding |
| ideal (`task_se-id.cpp`) | candidates `psc`, array of the result | take out what is attacked, then what is not defended | an array shrinks while it is walked | result is the ideal extension | `SuperCore`, proved; `solve_dsid` is never called |
| EA-PR (`task_ea-pr.cpp`) | the same, candidates `spsc`, accepted `acc` | the two loops above, a third to collect, a fourth to test | later tests build on earlier answers | exactly the sceptically accepted arguments | `SuperCore`, `EaPr`, proved |
| single-shot tasks (`task_dc-co.cpp`, `task_se-st.cpp`, `task_dc-st.cpp`, `task_ds-st.cpp`) | one solver | one or two calls | which arguments reach them; no stable extension at all | answer and witness | `SingleShot`, `Program`, proved |
| counting (`task_ce-*.cpp`) | solver, count | exclude what was counted | CE-PR's assumptions, the empty extension | every extension counted once | `Counting`, proved |
| random access set (`util/raset.c`) | bit set, array, inverse array | reset, contains, add, remove | removal moves the last element | the array lists the bit set | `RaSet`, proved |
| labelling checks, lists of labellings (`taas_labeling.c`, `taas_basics.c:188-`) | labels | is an argument labelled correctly | - | - | left out: nothing calls them |
| string helpers, build files, examples | | | | | left out |

The solver (`lib/cadical-2.1.0/src`):

| part | state it keeps | operations | what makes it hard | what makes it correct | status |
|---|---|---|---|---|---|
| clauses between calls (`external`, `extend`, `restore`, `flags`) | extension stack, witness and tainted marks, status of each variable | add, assume, solve, restore, extend | the order on the stack; literals that come back | answers are those of *all* clauses added | `Cnf`, `Reconstruction`, `IncSolver`, partly |
| inprocessing (`elim`, `gates`, `backward`, `subsume`, `transred`, `deduplicate`, `decompose`, `probe`, `ternary`, `vivify`) | irredundant and redundant clauses, root units | each technique removes, adds or shortens clauses | units found halfway; redundant clauses used as reasons; flags of an earlier iteration | models extend, none is lost, redundant clauses follow from the others | `Simplify`, `Elimination`, `IncSolver` |
| search (`lucky`, `decide`, `propagate`, `analyze`, `shrink`, `minimize`, `backtrack`, `restart`, `reduce`, `collect`) | trail, levels, reasons, watches, conflict | one literal or one clause at a time | chronological backtracking, clauses changed while they are watched | trail justified, no conflict missed, right answer, ends | `Search`, partly; safety proved |
| tools, proofs, tracers, fuzzer, API for other users | | | | | left out |

The parts interact by plain calls in one thread. `main` runs the command line, the reader and
the driver. The driver calls `compute_grounded` once and passes its labelling to every task; all
tasks take their encodings from `task_general.cpp` and talk to solver objects that they own; DS-PR
calls `solve_sepr` with a set to start from. The tasks know of the solver only what `ipasir.h`
says, and that is what connects the two halves here: the tasks are checked against any solver
that keeps the contract, and the solver is checked to keep it.

The behaviours that are hard to test are listed under `hazards` in `PROJECT.json`, each at its line
with the properties that would notice it going wrong.

## Modules

| module | models | checked by |
|---|---|---|
| `AF` | nothing of the code: the textbook semantics, against which everything is checked | all tasks |
| `Grounded` | `taas__compute_grounded`, one action per loop step | `components` |
| `GroundedLabelling` | abstract: hand out labels that are forced, until none is left | refined by `Grounded` |
| `Ipasir` | the solver as a value: models of the clauses, assumptions, state, last model | all tasks |
| `Encodings` | the clause builders, each as the set of models of its clauses | all tasks |
| `SePr` | `solve_sepr`, with and without a set to start from | `preferred` |
| `PreferredSearch` | abstract: admissible sets that grow, then a preferred one | refined by `SePr` (proved) |
| `DsPr` | `solve_dspr` and the `solve_sepr` it calls: composes `SePr` | `preferred` |
| `RangeCore` | state and helpers of the six functions for semi-stable and stage semantics | `range` |
| `RangeMax` | `solve_sesst`, `solve_sestg` | `range` |
| `RangeQuery` | `solve_dcsst`, `solve_dssst`, `solve_dcstg`, `solve_dsstg`; extends `RangeMax`, its `Spec` is that of all six | `range`, `range_reads` |
| `SuperCore` | the two loops `compute_ideal` and `solve_eapr` have in common, and the rest of `compute_ideal` | `coretasks` |
| `EaPr` | what follows in `solve_eapr`; extends `SuperCore`, its `Spec` is that of both functions | `coretasks` |
| `Counting` | `solve_cest`, `solve_ceco`, `solve_cepr` | `components` |
| `SingleShot` | `solve_dcco`, `solve_sest`, `solve_dcst`, `solve_dsst` | `program` |
| `RaSet` | `raset.c` with its arrays, uninitialised memory included | `components` |
| `ElementSet` | abstract: a set | refined by `RaSet` |
| `BitSet` | `bitset.c` with its words | `program` |
| `CmdLine` | `taas__cmd_handle` | `program` |
| `Loader` | both readers and the lookup of the query argument; extends `CmdLine` and `BitSet` | `program` |
| `Driver` | `taas__solve`, `solve_switch`; extends `SingleShot` | `program`, `program_ideal`, `program_names` |
| `Program` | `main`: command line, reader, driver and tasks one after the other | the same |
| `Cnf` | literals, clauses and root propagation of CaDiCaL | the solver's runs |
| `Reconstruction` | extension stack, restoring, extending | `incsolver` |
| `Simplify` | learning, forgetting, subsumption, transitive reduction, duplicates, equivalent and failed literals, hyper binary and ternary resolution, vivification | `incsolver` |
| `Elimination` | variable elimination, gates, backward subsumption | `incsolver`, `solver_gate`, `solver_backward` |
| `IncSolver` | the solver from call to call: composes the last three | the same |
| `SolverContract` | abstract: what an incremental solver promises | refined by `IncSolver` |
| `Search` | lucky phases and the CDCL loop, propagation step by propagation step | `search` |
| `ComponentProofs` | the proofs about `RaSet`, `Counting` and `Grounded` | |
| `RangeProofs`, `CoreProofs`, `ProgramProofs` | the proofs about `RangeQuery` and `RangeMax`, about `EaPr` and `SuperCore`, and about `Program` and the modules it is made of | |
| `PreferredProofs` | the proofs about `SePr`, `PreferredSearch` and `DsPr` | |
| `SearchInvariant`, `SearchProofs` | the proofs about `Search`: the invariant and the steps outside of analysis, then analysis, deletion and the theorems | |
| `EncodingProofs` | lemmas about the semantics, the encodings and the solver, which the proofs of the tasks share | |
| `MC*` | the instances for TLC; `MCComponents` holds three components that share nothing | |

### How state and actions correspond to the code

*Names.* Variables keep the names of the code. An action is one stretch of code from one point
of interest to the next, where a point of interest is a solver call, a read of a model, a
round of a loop that changes shared state, a line of a file, or a return; `pc` (`step` in `DsPr`,
`phase` in `Counting`) says which one comes next. The line ranges are in `PROJECT.json` under `map`.

*The program.* `Program` runs the command line token by token and the file line by line, on words
whose uninitialised bits hold anything. A line is a tuple with its kind and its words; how
characters become a line is left out. The kind says what is written on the line, not what a reader makes of it: the
tgf reader takes an i23 header in its first section for the name of an argument, and the i23 reader
takes a name for an attack, as the code does when the call names the wrong format. What C leaves undefined, such as the use of a field nobody
has set, a null pointer, or a write past the end of a buffer, ends in the `pc` value `undefined`. A write past the end may also do no
harm: then the run goes on as well. A file of the other format may have any number of arguments; the
model has those of `Arg`, and a framework of another size ends in the `pc` value `other size`, which is a bound of the model.
A task that `solve_switch` does not know prints nothing (`UnknownTask`), and whether a task needs an argument
is read off its first two letters, as in `taas__update_arg_param`. The grounded computation and the tasks with a
module of their own are one step of `Driver` with the result which that module shows for them, and
`LoadedExact` says that the state after the reader is an initial state of `Grounded`.

*Solver, seen by the tasks.* `sat__solve` is a nondeterministic choice: any model of the clauses
and the assumptions, or UNSAT when there is none. The integers that number the variables are
replaced by what they stand for. A model is `[in |-> ..., out |-> ...]`, the sets of arguments
whose variables are true, and the clauses are represented by the set `db` of assignments that
satisfy all of them. Auxiliary attack variables are determined by the others and are left out.
Every field of the IPASIR contract that a client can get wrong is kept: the assumptions that
wait for the next call and are gone after it, and the state `INPUT`, `SAT` or `UNSAT`
that says whether a value may be asked for.

*Lists.* Lists of children and parents are sets of attack lines; a walk over a list takes its
elements in any order, which includes the order of the file. `Loader` builds the lists and
`Grounded` keeps repeated lines apart, as its counters count them. For the SAT tasks a repeated
line repeats a clause and changes nothing, but for the size of the buffers in which clauses are put together
(`task_general.cpp:33`, `59`, `94`, `120`): they have room for every argument once. `Overrun` in `Driver` is the
task that finds more attackers listed than that.

*Sets.* In the tasks, bit sets and random access sets are sets, where the code only asks for
membership or walks over all members with an effect that does not depend on the order. `RaSet`
and `BitSet` show that the arrays deserve that. Where an array is walked by index while it
shrinks (`SuperCore`), it is kept as a sequence, and removal moves the last element, as in
`raset__remove`.

*Grounded labels.* The SAT tasks start from the grounded labelling as a defined set
(`GroundedLabels`): `Grounded` shows that this is what the code hands them.

*Solver, between and inside calls.* In `Cnf` a clause is the set of its literals and an
assignment the set of its true literals. `IncSolver` keeps one record: irredundant and redundant
clauses, root units, the status of each variable, the extension stack and the two kinds of
marks. Search is one step there that ends with any model or none and may leave any implied
clause behind. Each inprocessing technique is an operator from a solver to the set of solvers
that one application may lead to, and candidates are taken in any order. Elimination is finer:
the resolvents of one variable are one action, backward subsumption is one action per clause
visited, since the two findings lie between these.

*Search.* A clause is a sequence, whose first two literals are watched; the trail, the levels, the
reasons and the blocking literals are kept as in the code. Visiting one watch is one action, and
so is one literal resolved in `analyze`. Scores, phases and limits become choices: any variable may
be decided either way, any unprotected clause may be forgotten. Lucky phases are tried in the
order of the code.

*What is abstracted inside the techniques.* In vivification, decisions may be kept from one
candidate to the next and literals are sorted by occurrences: the model takes any order and any
subset of literals that conflict analysis may meet. Ternary resolution and probing limit
themselves by flags and ticks, which are dropped. The dominator of a hyper binary resolvent is any
literal that separates the reason's other literals from the probe, of which the code takes the
first it meets. Satisfied clauses and false literals may stay in clauses until `Collect`, as they do in
the code.

*Slips.* A definition with a suffix, such as `IsOut_Unchecked`, is the definition before the
suffix with a plausible slip in it. No specification uses one. They are there so that each
property can be shown to notice a mistake: replacing the definition by its slip makes TLC
report a violation of the property named beside it in `PROJECT.json`.

## Runs

Each run takes between a few seconds and two minutes on two cores.

| run | bounds | shows |
|---|---|---|
| `components` | `Grounded`: all 512 relations on 3 arguments, and 5 shapes on 4 arguments with every subset of lines repeated. `Counting`: all relations on 3 arguments with a fourth that is in every extension or in none, 3 tasks. `RaSet`: 3 elements, any initial memory, calls in any order. While one of the three has all its inputs, the others have one | `TypeOK`, `CountersExact`, `StackExact`, `ResultGrounded`, `Termination`, refinement of `GroundedLabelling` with its fairness; `CountExact`, `CountingEnds`; `ArrayListsElements`, refinement of `ElementSet` |
| `preferred` | all 512 relations on 3 arguments, and 256 on 4 arguments in which the refinement loop runs | of `solve_sepr`: `SolverWellUsed`, `SolverAsksForSuperset`, `ResultPreferred`; of `solve_dspr`: `ContractsKept` (its solvers and its call of `solve_sepr`), `QueryCorrect`, `NoCounterexampleLost`; of both: `QueryEnds` |
| `range` | all relations on 3 arguments up to renaming, 12 on 5 arguments in which a blocking clause is added while an extension that settles the query remains, two that are decided; both semantics and all three problems | `SolverWellUsed`, `SearchExact`, `ResultMaximal`, `AnswerCorrect`, `NoExtensionLost`, `Termination` |
| `range_reads` | 512 relations on 3 arguments, stage semantics | **violated**: `ModelIsCurrent`, see *Findings* |
| `coretasks` | 129 relations on 6 arguments around a chain for the ideal extension, 21 on 5 for EA-PR | `CoreExact`, `WalkKeepsAdmissible`, `AcceptedExact`, `ResultCorrect`, `Termination` |
| `program` | all relations on 3 arguments up to renaming, each as an i23 and a tgf file with blank lines, comments and a repeated attack; every task for every argument, and command lines with options repeated, missing, unknown or in other orders, unknown tasks, files of the other format, a name and a number of attack lines too large for their buffers; words of 2 bits | `LoadedExact`, `AnswerCorrect` (of what is printed) |
| `program_ideal` | DS-ID and DC-ID for one argument, the same files | **violated**: `IdealExtensionShown`, see *Findings* |
| `program_names` | DC-CO, DC-PR, DC-ST and DS-ST for one argument, the same tgf files | **violated**: `WitnessNamed`, see *Findings* |
| `incsolver` | 4 variables, 5 formulas, 2 calls to add or assume after the first solve, 3 inprocessing steps in any order | `WellFormed`, `ModelsExtend`, `NoModelLost`, `RedundantImplied`, refinement of `SolverContract` |
| `solver_gate` | one formula of 11 variables, elimination only, 2 rounds | **violated**: `ModelsExtend`, see *Findings* |
| `solver_backward` | one formula of 9 variables, elimination only, one round | **violated**: `RemovedWithReason`, see *Findings* |
| `search` | nine formulas of 3 to 6 variables, ten inputs | `TrailSound`, `NoneFalsified`, `FormulaKept`, `AnswerCorrect`, `Termination` |

*Why the bounds are enough to be interesting.* Three arguments give self-attacks, even and odd
cycles, chains, reinstatement and empty extensions, and all 512 relations (or one of each class of
those that differ in names only, where names play no role) are tried with every model the solver may choose.
Where three arguments are too few for a loop to run, larger
frameworks are chosen so that it does. In `solve_dspr` the refinement loop runs only if the
argument has a defender that is itself in a conflict that does not involve the argument, which
takes four. The walk of `compute_ideal` takes out an element only if the super-core holds an
argument that is not defended within it; for the second pass to take out another, six are needed.
In `solve_eapr` two arguments must be accepted one after the other, with `acc` in between, which
takes five. The same number is needed for a query about semi-stable extensions to go on after a
blocking clause: with fewer arguments the first round always settles it, so that a clause too
strong would not be noticed. The comments in `MCDsPr`, `MCRangeTasks` and `MCCoreTasks` describe the
frameworks. All loops of the tasks are bounded by the number of arguments or of sets, so that no
counter needs an artificial bound. `WORD_BITS` is 2 instead of 32, so that three arguments reach a second word and leave
unused bits in it.

The formulas of `MCIncSolver` hold an equivalence, an AND, an if-then-else and an XOR gate and a unit that
only hyper unary resolution finds; every branch of every technique is taken in the run. Three steps let
a variable be eliminated, a second one be substituted or eliminated on top of it, and a third
technique work on the rest; two calls let a variable come back and go again. `MaxSteps` and
`MaxCalls` bound behaviours that the code bounds by effort; `LearnedSize` 2 and `LearnedClauses` 1
bound what search leaves behind. `ElimBound` is the code's first bound 0: no more clauses after an elimination than before. The properties
hold for all behaviours within these bounds. They do not hold for all formulas: the two
violated runs show formulas, with more variables, where two slips of the code matter.

The formulas of `MCSearch` were chosen so that every branch is taken: shrinking, minimizing,
on-the-fly strengthening and subsumption, literals out of order on the trail, conflicts below the
current level, flushed false literals, success and failure of the lucky strategies. `ChronoLevelLim` is 2
where the code has 100, so that a jump over more levels than that can happen; `RestartInt` is 0
where the code has 2, so that restarts come as early as they can; `MaxReductions` 1 bounds the reductions
in a behaviour. Two things do not occur at this size: a restart that keeps more than one level,
and a garbage clause kept because it is a reason. `EagerSubsumeLim` is 2 where the code has 20: eager subsumption looks
at that many of the last clauses, whatever they are, and there are more of them in the run.

*Fairness.* `WF_vars(Next)` for the tasks: the program is sequential and never waits for anybody;
it goes on as long as it has a next step. This relies on one thing outside of them, that
`ipasir_solve` always returns 10 or 20, which holds as no terminate callback is installed
(`ipasir.h:108-122`). `Search` assumes the same of its two kinds of steps; for those that derive
a clause it is spelled out as a formula. `RaSet`, `ElementSet`, `IncSolver` and `SolverContract` state no fairness:
they are called, and need not be. `Program` states none, as nothing is claimed about when it
ends: each of its loops walks over a given list, and those of the tasks are checked in their own runs.

*Deadlock.* `CHECK_DEADLOCK FALSE` wherever a function returns, or the bounded
sequence of calls to the solver comes to an end, after which there is no step. Where
`Termination`, `CountingEnds` or `QueryEnds` is checked, it shows that the only way to stop is to return: a `pc`
that got stuck elsewhere would violate it. A call of `RaSet` is always possible. `program` checks for deadlock: in `Program` the
end is a step of its own (`Exit`), so that the check shows that no task and no combination of
guards in the driver leaves it without a way to go on; as no `pc` value is returned to but in walks over
lists of fixed length, it also ends.

### What the properties are about

- *The solver's contract.* `SolverWellUsed` and `ContractsKept` say that a model is read only in
  state SAT, that what was read at one step is still the model at the next, that no assumption
  outlives its call, and that `solve_dspr` calls `solve_sepr` in a state it is specified for. The two-solver tasks
  are where this is easy to break.
- *The clauses, exactly.* `SolverAsksForSuperset` and `SearchExact` give the meaning of
  all clauses accumulated so far as a formula over the current state. `NoCounterexampleLost`,
  `NoExtensionLost`, `CoreExact` and `CountExact` say that no clause excluded a set that a
  later answer needs (or, for the count, a set not counted).
- *The result.* `Result...`, `QueryCorrect` and `AnswerCorrect` compare with the definitions of `AF`, which share
  nothing with the code, and say that the set printed or handed on proves the answer.
- *Data structures in the middle of an operation.* `CountersExact` holds between the label of
  an argument and the decrements that follow from it, which is what the test `> 0` in the code
  relies on. `WalkKeepsAdmissible` holds in the middle of a walk over an array that shrinks.
- *From the outside.* In `program` the question and the framework are read off the command line and
  the file by definitions that know nothing of the code, and what is printed is compared with
  the textbook. The answer and the witness often come from different
  functions, after the driver has rewritten the task. `AnswerCorrect` asks for the witnesses that `taas-fudge.cpp:27-32` promises, with
  two exceptions that it names and that the runs `program_ideal` and `program_names` show to be needed: an ideal query that the
  grounded labelling settles against the printing of the set (`SettledUnshown`), and the four queries that print numbers (`Numbered`). It says that a proper call gets an answer and an
  improper one does not get one as if it were proper. Two things are exempt, and each is stated on the question, not on the run: a file with more than
  the buffers hold (`Overfull`) may end a proper call, and of a file that does not have the format named (`Misread`) nothing is claimed.
- *What the solver still knows.* `ModelsExtend` is the invariant behind reconstruction: any model
  of what is left becomes one of everything ever added. `NoModelLost` is the other direction.
  `RedundantImplied` says that what may be forgotten at any time is not needed.
- *The trail.* `TrailSound` says that reasons are still reasons although levels are undone out of order
  and clauses are changed and deleted under way; `NoneFalsified` that two watches suffice to see every
  conflict in spite of that;
  `FormulaKept` that the irredundant clauses are equivalent to the input at every step.

## Findings

*A model is read after a clause was added* (`range_reads`). `solve_dcstg` and `solve_dsstg` read
the inner solver's model argument by argument, and add a
clause to the same solver in between (`task_dc-stg.cpp:116-128`). `ipasir.h:131-133` allows
`ipasir_val` only as long as nothing has been added since the call that returned 10. CaDiCaL
checks this and aborts the program. The functions for semi-stable semantics copy the model first
(`task_dc-sst.cpp:116-124`). In `RangeQuery` such a read leads to the `pc` value `abort`, so
`range` speaks of the answers given when the program does not abort.

*A gate that is none* (`solver_gate`). `get_ternary_clause` and `match_ternary_clause`
(`gates.cpp:459`, `480`) skip every literal that has a value, true ones included. During
elimination a unit can be assigned and not yet propagated, and a clause it satisfies is then taken for
one of the four clauses of an if-then-else. The variable is eliminated with too few resolvents, and
a model of what is left does not extend.

*A flag that stays set* (`solver_backward`). `elim_backward_clause` declares `satisfied` outside of
its loop (`backward.cpp:49`) and never resets it, so that after one satisfied clause each later
one that is scanned is thrown away (`backward.cpp:106-109`).

*An ideal extension that is not shown* (`program_ideal`). `taas-fudge.cpp:32` promises the ideal extension with DS-ID and DC-ID "in any
case". When the grounded labelling rejects the argument of DC-ID or accepts that of DS-ID, `taas__solve` prints NO or YES and nothing else
(`taas_basics.c:133-149`): it looks for an extension only with the other two answers it gives early.

*Witnesses by number* (`program_names`). `taas-fudge.cpp:28-30` promises sets of arguments for DC-CO, DC-PR, DC-ST and DS-ST. `solve_dcco`,
`solve_dcst` and `solve_dsst` print the numbers of the members (`task_dc-co.cpp:46`) where all other tasks print the
names. In an i23 file these are the same; in a tgf file they are not, and DC-CO even prints names or numbers, depending on
whether the grounded labelling settles it.

Smaller observations, not stated as properties:

- A call that names the wrong format is not noticed. Read as tgf, an i23 file whose last line
  is a `#` alone has its other lines for arguments, `p af 3` among them, and a query about `p af 3` is answered. `AnswerCorrect` leaves
  such calls out (`Misread`).
- A tgf name of more than eight bytes is written past its buffer: `sizeof(trimwhitespace(row))+1` (`taas_inout.c:184`) is the
  size of a pointer and one. An attacker listed more often than there are arguments does the same to the clause buffers.
  Both are `Overfull` in `Program`; the model goes on in both ways.
- `taas_inout.c:110` tests for a problem and a file by the number of parameters, among which
  `-fo` counts: `-f X -fo i23` passes and the problem is an uninitialised pointer. The model ends in
  `undefined`.
- `taas__labeled_correctly_under_assumption` (`taas_basics.c:239-261`) falls through to the stored
  label where the assumed one should decide; nothing calls it.
- `watch.hpp:20-26` says that the code tries to guarantee this: a watched literal that is false will still be propagated,
  or its blocking literal is true on a smaller level. `on_the_fly_strengthen` does not keep it. When the other watch of the
  clause was false at the root, it goes with the units, and the place is taken by whatever literal comes first
  (`analyze.cpp:738-746`), which may be of a low level. After a restart such a clause can have become a unit
  without being noticed; a clause that is falsified always is (`NoneFalsified`). An example, over five variables: the clauses
  (4 -3 5 1 2), (-4 -3 5 1 2), (3 4), (3 -4), (-1 2), (-3 -4 -5), (-1 -2) without assumptions, `ChronoLevelLim` 0,
  `RestartInt` 2. Nothing depends on it: a unit that is missed is found when its last literal is decided or falsified.
- With trail reuse, `determine_actual_backtrack_level` keeps at least one level above the jump level when there is
  one to keep, so that it never returns the jump level itself unless it is the level below.
- In `ternary_lit` the flag `assigned` is not reset for each partner clause (`ternary.cpp:165-190`). As a
  literal that is assigned makes the candidate useless in any case, this only ends the search earlier.

## Proofs

TLAPS checks every theorem for all values of the constants. The assumptions are those stated in
the modules: the arguments are finitely many (`AF`) and so are the attack lines of each file
(`Grounded`), the frameworks are relations over the arguments (`SePr`, `RangeCore`, `SuperCore`,
`Counting`), where the code visits arguments in the order of their numbers they are natural numbers
(`RangeCore`), and the capacity of a random access set is a natural number (`RaSet`). For the search, the variables are finitely many
positive numbers (`Cnf`), the limits are numbers, and the clauses have at least two literals, of as many variables
(`InputsAssumption` in `Search`): `add_new_original_clause` assigns units at once, leaves out repeated literals and drops
tautologies (`clause.cpp:360-505`). The solver is that of
`Ipasir`: the theorems about the tasks hold for every choice of models it may return.
The assumptions of the whole program are in `BitSet` (a word has at least one bit), in `CmdLine` (`TokenAssumption`: the tokens are
strings, and the two constants that stand for a field nobody set and for `NULL` are none of them) and in
`Program`: the arguments are the numbers from 0 on
(`IdsAssumption`), every file on the disk has one of the two formats (`FileAssumption`: blank lines
and comments anywhere, attacks in any number, order and repetition, no name twice; the call may still name the wrong
format, a file that is not there, a task that does not exist or an argument that is not in the file), the tasks that begin with DC or DS are the queries (`TaskAssumption`), and `sprintf` writes different numbers differently (`NumberAssumption`).
TLC evaluates all of them.

| module | theorems | invariants of the runs proved |
|---|---|---|
| `ComponentProofs`, for `Grounded` | `Typing`, `ExactCounters`, `CountersOnReturn`, `ExactStack`, `ForcedLabels`, `GroundedCorrect`, `Refinement` | `TypeOK`, `CountersExact`, `StackExact`, `ResultGrounded` |
| `EncodingProofs` | `AdmModelIsAdmissible`, `AdmissibleHasModel`, `DecidedIsPreferred` | |
| `PreferredProofs`, for `SePr` | `UseOfSolver`, `ClausesExact`, `SePrCorrect`, `SePrGrows`, `SePrRefines` | `SolverWellUsed`, `SolverAsksForSuperset`, `ResultPreferred` |
| `PreferredProofs`, for `DsPr` | `QueryKeepsContracts`, `CounterexamplesKept`, `DsPrCorrect`, `SearchKeepsPromises` | `ContractsKept`, `NoCounterexampleLost`, `QueryCorrect` |
| `RangeProofs` | `RangeKeepsContracts`, `RangeSearchExact`, `RangeSearchCorrect`, `RangeNothingLost`, `RangeQueriesCorrect` | `SolverWellUsed`, `SearchExact`, `ResultMaximal`, `NoExtensionLost`, `AnswerCorrect` |
| `CoreProofs` | `SuperCoreComputed`, `WalkExact`, `AccExact`, `CoreTasksCorrect` | `CoreExact`, `WalkKeepsAdmissible`, `AcceptedExact`, `ResultCorrect` |
| `ComponentProofs`, for `Counting` | `CountCorrect` | `CountExact` |
| `ComponentProofs`, for `RaSet` | `ListIsExact`, `RemovalIsLocal`, `RefinesSet` | `ArrayListsElements`, `ImplementsSet` |
| `ProgramProofs` | `NextSetBitSpec`, `WalkSpec`, `LoadedCorrectly`, `ProgramCorrect` | `LoadedExact`, `AnswerCorrect` (of `Program`) |
| `SearchInvariant`, `SearchProofs` | `Invariant`, `TrailIsSound`, `NothingFalsified`, `FormulaIsKept`, `AnswerIsCorrect` | `TrailSound`, `NoneFalsified`, `FormulaKept`, `AnswerCorrect` (of `Search`) |

So every safety property that a run checks of the program itself is proved, from the options to the
printed line, except the three that are false, and so is every safety property of the solver's search. What is left to TLC is
what the solver does with its clauses outside of the search (`IncSolver`), and what has to do with fairness. The
inductive invariants below, except those of `ProgramProofs` and of the search, were first checked by TLC on the instance of the run.

*`ComponentProofs`: `Grounded`.* `CountersExact` is not inductive by itself: between the moment an argument
becomes `out` and the end of the walk over its children the counters are ahead of the labels.
The inductive invariant `IInv` therefore has the following parts.

- `Counted(b)`, the lines on `b` that are still counted, includes the ones whose decrement is
  still to come (the rest `node2` of the inner walk), and the counter of `b` equals their number.
- `WalkShape` ties the walks in progress to the argument popped and to the labels.
- `StackExact` says that the accepted arguments whose children are not all rejected are on the
  stack, once. Without "once" a popped argument could be processed again; without "none is
  missing" the labelling could stop early.
- `OutIsAttacked` and `LabelsForced` say that all labels are forced by every complete extension.

From these follow, with `Spec => []IInv`: the types, exact counters, the comment on
`number_of_attackers` in `taas_aaf.c:27-29` (`CountersOnReturn`), that the result is the grounded
labelling (`GroundedCorrect`: with an empty stack and nothing forgotten, `in` is complete, and
being forced it is the least complete set), and that each step is one of `GroundedLabelling` or
leaves the labels alone (`Refinement`).

*`EncodingProofs`.* The clauses of `add_admTestClauses`, including the shortcut that gives an
argument decided by the grounded labelling a unit clause and nothing else, describe exactly the
admissible sets that contain the grounded extension: each model's `in` part is one
(`AdmModelIsAdmissible`), and each such set is the `in` part of a model (`AdmissibleHasModel`).
The same is shown of the complete and the stable encodings.
The lemmas after them are those that the tasks keep needing. Every admissible set has a
preferred one above it (`PreferredAbove`, from `MaximalSet`: a nonempty family of subsets of a finite
set has a maximal member), preferred extensions are complete, so contain the grounded
extension and have a model (`PreferredHasModel`), and two admissible sets that do not attack each other
have an admissible union (`UnionIsAdmissible`). `SolverOver` is the set of solvers over a set of
assignments, and `AskSpec` says what one call gives.

*`PreferredProofs`: `SePr`.* `IInv` says that the set in hand is admissible and either empty or above the
grounded extension (a set that lacks part of it could not be extended by a model), that
the models left in the solver are exactly the strict admissible supersets, and that during
an iteration `temp` and `clause` are what the current model says. It follows that the solver is used
within its contract (`UseOfSolver`), that the clauses are exact (`ClausesExact`), that the set
printed is preferred and contains the set given (`SePrCorrect`), that every iteration enlarges
the set (`SePrGrows`), and that `solve_sepr` implements `PreferredSearch`
(`SePrRefines`: the initial states map to initial states, every step to a step or a stutter). The theorems speak of
`solve_sepr` started in its `Init`. That DS-PR starts it there is part of `ContractsKept`, proved
below.

*`PreferredProofs`: `DsPr`.* `QInv` contains that `IInv`, which the second phase of the query needs, and the following.

- `SolversInv`: the first solver always has all models of the admissibility clauses, the second only
  loses some; each has the value that the next step will read.
- `SearchingInv`: an attacking set that is excluded can be extended by the argument. It has to
  speak of all attacking sets, not only of those still possible: `NoCounterexampleLost` is this part.
- `VerdictInv`: after NO, *every* preferred extension around the set found lacks the argument.
  That the set itself lacks it is not enough, as `solve_sepr` enlarges it.
- `CallInv`: the set handed over is the `in` part of a model, so that `Init` of `SePr` holds and
  `SearchKeepsPromises` repeats the theorems about `SePr` for the composed specification.

The answer YES rests on the fact that a preferred extension without the argument, together with an
admissible set that has it, is in conflict, so that it attacks it: it is one of the attacking sets.

*`RangeProofs`.* `RInv` speaks of both encodings at once. `Kind(S)` is admissible or conflict-free.

- `SearchInv`: the models left are those that decide `notUndec` and more (`Above`). With
  `InArgDecides` the set in hand decides `notUndec`, so that when no model is left its range is maximal.
- `OuterInv`: a labelling that would settle the query is still a model of the outer solver.
- `InnerInv`: with each labelling the inner solver keeps all that decide more (`InnerKeeps`), and it has
  none left that decides no more than the best one so far (`IsBest`). If no labelling that would
  settle the query is left, the second call asks without the query: UNSAT means that nothing decides more than
  the best one, which is an extension. Otherwise something decides more, so that a labelling that decides only what the
  best one does is no extension, and the clause added to the outer solver excludes no others.
- `PassInv` describes the half-finished pass of the stage queries while the model is still readable; once it
  is not (see the finding on `ModelIsCurrent`) they end in `abort` and nothing is claimed.

*`CoreProofs`.* `FirstLoopInv` says that every model with a member that attacks `psc` is still there: clauses made for a
larger `psc` are implied by the newer ones, as `psc` only shrinks. With that, UNSAT means that no
admissible set attacks what is left (`SuperCoreComputed`). For `compute_ideal`, `WalkKeepsAdmissible` with
`changed = FALSE` at the end says that the members are defended and conflict-free, and contain
every admissible subset of the super-core: the ideal extension. For `solve_eapr`, `ThirdLoopInv` says that
each candidate not yet seen can still be found, and `TestInv` repeats the invariant of `DsPr` for the members of
`acc` built into both solvers: restricting both to supersets of `acc` loses nothing only because
`acc` is contained in every preferred extension (`AcceptedExact`), so the two are proved together.

*`ComponentProofs`: `Counting`.* `CountInv` is `CountExact` between rounds, and within a round of CE-PR the set
in hand counts as possible. It is preserved because no two models of the stable and the complete encodings have
the same `in` part, and because in CE-PR the clause that ends a round excludes exactly
the subsets of the set found, of which only that set is preferred. This needs `GrowInv`: with each set, the solver keeps all
admissible sets above it, so that a set without a larger model is preferred.

*`ComponentProofs`: `RaSet`.* `PlacesExact` states both directions between the two arrays: each member is
found at its place, and each place in use holds a member that has it for its place. The first
direction is what a removal needs (it looks the place up), the second what a walk needs. The
third part of `SetInv`, that `number_of_elements` is the cardinality of the bit set, shows that
an addition of a new element has a free place. It follows that the array is exact
(`ListIsExact`), that a removal moves only the last member (`RemovalIsLocal`), and that the
structure implements `ElementSet` (`RefinesSet`).

*`ProgramProofs`.* The run goes through phases, and `PInv` says for each what has been established.

- *Bit sets.* A place is a word and a place in it (`DivModSpec`, `WordPlaces`). With it,
  `bitset__next_set_bit` returns the first set bit from a place on, whatever the bits beyond the
  length are (`NextSetBitSpec`), and the walk over the set bits lists each once (`WalkSpec`). The
  walk is a recursive function. That there is one which satisfies its equation is shown by the
  well-foundedness of the numbers, which the library states without an operator for a parameter: the least place from which
  there is a walk is 0 (`WalkExists`). The greatest place of an option is found the same way.
- *Options.* `OptionsInv`: each field is the value after the last option of its kind before the current
  token, or unset. At the end `AskedInv` holds, or an undefined field is used or the information was
  asked for, and then the call was not a proper one (`OptionsReadSpec`, `InfoOptionAsked`).
- *Readers.* `ReadingInv`: the framework reflects exactly the attack lines before the current row
  (`Reflects`: both lists with repetitions, the counters, both bit sets), or, while a tgf file is
  still in its first section, holds the names before the row. It speaks of files of the format named (`AsMeant`). Of
  the others (`Misread`) `PInv` says nothing but the types: the readers go on with what they find there. From a
  proper file the reader leaves what is defined only by a name too long for its buffer. At the end
  `LoadedInv` gives `LoadedExact`, of which `Init` of `Grounded` is a part (`GroundStarts`).
- *Driver.* `RunInv` says that the framework and the argument are those asked for (`InputInv`), the
  labelling is the grounded one (`GroundedInv`), and either the task is still the one asked for and nothing is printed
  (`Asking`) or the answer is printed and the task is the search for its witness (`Witnessing`).
  The shortcuts rest on lemmas about the semantics. All extensions of the queries concerned contain the grounded extension and
  avoid what it attacks (`KeepsGrounded`); with nothing undecided it is the only semi-stable and
  stage extension (`DecidedIsOnly`); and there is one ideal extension (`IdealKeepsGrounded`).
- *Single-shot tasks.* `SolverInv`: the models of the clauses are those of the complete or stable
  encoding, so that by `FirstCall` a model is an extension and UNSAT means that there is none.

`PInv` is the types and, unless the file is misread, the phases. So `ProgramCorrect` says of every command line and every task, known or
not, that an answer is only given to a proper call and is the right one, and that a proper call can end without one only where the
file is `Overfull` or the library ends a stage query. It says nothing of the answer to a misread file; that one may be given is
part of the model. `OverrunSpec` and `ReadArgumentSpec` are the two places where `Overfull` comes in. The theorem
speaks of the tasks with a module of their own through the step that `Driver` has for
them. That step is the result that the theorems of their proof modules state.

*`SearchInvariant` and `SearchProofs`.* None of the properties of `Search` is inductive. That a falsified clause is
noticed rests on the watches, what the watches see on the levels of the literals they are false on, those levels on reasons and
the order of the trail, and both answers on all of them. The invariant `SInv` therefore has a part for
each, about an assignment, clauses and watches that are parameters, so that each operation (`Assign`, `Backtrack`, moving a watch,
strengthening, deleting) has one lemma for each part it concerns.

- `TrailInv`: no variable is twice on the trail (`Once`), the levels begin one behind the other (`Stacked`), a literal lies behind the
  decision of its level (`Leveled`), and what has no reason above the root is a decision (`Decisions`). Literals of lower levels
  may lie among those of higher ones, as chronological backtracking leaves them.
- `ReasonsInv`: the clause that is the reason of a literal forces it, from literals before it on the trail. During analysis this is
  said of the literals that can still be met (`Relevant`): the reason of a literal already resolved may just have been strengthened.
- `ClausesInv`, `WatchesInv`: clauses are well formed, and the watches are those of the first two literals.
- `WatchedInv`: a watch is `Good` if, where propagation has made it false, another literal of the clause is true and will stay so at least
  as long (`Blocked`). A clause is `WellWatched` if one of its two watches is good, and a watch that is false at the root is. How far propagation
  has come is part of it: to the current level if there is a conflict, and short of the literal in hand for the clauses still to be
  visited. `watch.hpp` promises this of both watches, which does not hold (see *Findings*); one is just
  enough: once propagation is at rest, no clause can be false (`NothingFalsified`).
- `ViolatedInv`, `DerivingInv`: the conflict is false, and so is what is derived from it, with a literal of the current level, so that the
  learned clause is a unit after the jump.
- `MeaningInv`: the irredundant clauses with the root literals have exactly the models of the input; everything else
  follows. This gives `FormulaIsKept`. Its second half needs `TakesOver`, by which a clause that subsumes an irredundant one becomes irredundant.
- `AssumptionsInv`, `ModeInv`: the first levels are those of the assumptions, so that a conflict on a level of theirs means that there is no
  model with them; the lucky strategies run without assumptions.

`OccursInv` adds that the irredundant clauses speak of variables of the formula, which a lucky strategy may rely on when it assigns
just those. `AnswerIsCorrect` follows: 10 is given when the trail assigns every variable and nothing is falsified, or
when a lucky strategy has made every clause true; 20 when a clause is false at the root, or an assumption is false by
those before it (`AssumptionRefuted`: what is on the trail follows from the assumptions decided so far). The helpers that the code
writes as loops are functions over the places of a sequence, and their
properties (`RestrictedSpec` and the like) are proved by the least place at which they would fail, since the
induction rule of the library cannot be used.

*Model-checked only.* Liveness under fairness (`Termination`, `CountingEnds`, `QueryEnds`, and the fairness
half of the refinement of `GroundedLabelling`) is out of the prover's reach. `ModelIsCurrent` of the
stage queries is false (see *Findings*). `IncSolver` has no proofs. Its properties `ModelsExtend` and
`RedundantImplied` and its refinement of `SolverContract` cannot have one: the findings `solver_gate` and
`solver_backward` are formulas for which they fail, so that they hold for the formulas of the run and not for all.
`WellFormed` and `NoModelLost` may hold for all. They fold over clauses, partners and the extension stack at some
twenty places, and root propagation in `Cnf` is a recursive function over sets of clauses; each would need an
induction by hand like those for the search.

## Not modelled, and why

- **`solve_dsid`**: repeats `compute_ideal` with earlier returns; it is called only when
  `PRINT_WITNESS` is 0, and `taas-fudge.cpp:33` defines it as 1.
- **What a write past a buffer does**: either no harm, and the run goes on, or anything at all, a wrong answer included, for which
  `undefined` stands. The modules of the tasks have sets of models and no buffers: what they show is shown of
  files that are not `Overfull`.
- **Files that are neither**: a header without a number, a name given twice in a tgf file, text that is in neither format.
- **Labelling data type and checks, cloning and random functions of the sets**: no caller in the program.
- **Characters**: reading a line, trimming it, and the wording of what is printed.
- **Of the solver's search**: local search (`walk.cpp`) and rephasing only choose phases, and any phase
  is tried; scores, queues and limits likewise. Search ends with a full assignment, so the
  external propagator, the constraint and the terminator, which the program does not install, are left out.
- **Of inprocessing**: blocked, covered and globally blocked clauses, conditioning and instantiation are off
  by default (`options.hpp`). `compact` renumbers variables, and external and internal numbers are
  one in the model. Several rounds of elimination are separate steps with propagation in between.
- **The rest of CaDiCaL**: the stand-alone program, its fuzzer `mobical.cpp`, proof formats, checkers and
  tracers, LRAT chains, statistics, messages, the file parser, and the parts of the API that
  `ipasir.cpp` does not call. They are more than half of the vendored source, and none of them runs
  when taas-fudge does. Together with data structures that a model has no use for
  (memory arenas, heaps, radix sort, profiling), they are why most lines of the
  repository have no counterpart here.

## Plan

Done: the program from the command line to the printed answer, all tasks, the solver's
contract, its clauses between calls, its inprocessing and its search; proofs of all safety
properties of the program itself and of the search.

Left, in this order:

1. `NoModelLost` of `IncSolver`: every model of the clauses added satisfies the irredundant and the redundant clauses, the root literals
   and the clauses on the extension stack. Each technique adds only clauses that follow, so that the invariant has one lemma
   for each; elimination and restoring need the stack as well.
2. `ModelsExtend` for elimination without gates: one step of the walk over the extension stack repairs the
   clauses of the variable eliminated.
3. Larger formulas for `Search`, with a trail that is reused for more than one level.
