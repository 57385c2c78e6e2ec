# PiELo in TLA+

PiELo is a small language for robot swarms: a compiler front-end (`src/Parser`),
a stack machine that runs the bytecode on each robot (`src/VM`), and a router
process that connects the robots (`src/VM/router.cpp`).  Robots share two kinds
of variables.  A *tagged* variable is replicated, the newest update wins.  A
*stigmergy* variable is a map from robot IDs to values, each robot writes its
own entry.  When an update arrives, the closures that depend on the variable are
run again, between two instructions of whatever the robot was doing.

This directory holds the specifications of that system, what TLC checks of them
on small instances, and the proofs TLAPS checks for every instance.

    tlc -config MCTaggedVar.cfg MCTaggedVar     # one run; PROJECT.json lists all
    tlapm TaggedVarProofs.tla                   # the proofs

## The system

| Component | State | Operations | Talks to |
|---|---|---|---|
| Router (`router.cpp`) | `clients`, `currentID`, `goSignalSent`, the child that waits for the operator | register an address, send the ID, send the start signal, forward an update to every client | robots, by UDP |
| Networking client (`networking.cpp`) | socket, `robotID` | `initNetworking`, `broadcastVariable`, `checkForMessage` | router; `taggedTable`; `handleDependants` |
| Tagged variables (`storeLoad.cpp`) | `taggedTable` entries: value, `lastUpdated`, `dependants` | `storeTagged`, `tagVariable`, the update of `checkForMessage` | `broadcastVariable`, `handleDependants` |
| Stigmergy variables (`storeLoad.cpp`, `stigmergy.cpp`, `vm.h`) | `stigmergyData`, `iter` | `storeStig`, `stigSize`, the iterator instructions, the update of `checkForMessage` | as above |
| VM core (`vm.cpp`, `instructionHandler.cpp`) | `stack`, `returnAddrStack`, `programCounter`, symbol tables | `step`: one instruction, then `checkForMessage` | all of the above |
| Closures and reactivity (`closureInstructions.cpp`, `storeLoad.cpp`) | `closureList`, `cachedValue`, `dependencies`, `dependants` | `defineClosure`, `callClosure`, `retFromClosure`, `rerunClosure`, `handleDependants` | VM core |
| Garbage collector (`gc.cpp`) | marks in `closureList` | `markRoots`, `sweep` after every return | `closureList`, tables, stacks |
| Arithmetic, comparison, logic (`arithmetic.cpp`, `comparisonJumps.cpp`) | operand stack | one operator per instruction | VM core |
| Bytecode loader (`VM/parser.cpp`) | `bytecode`, labels, closure templates | `load`, the table of handlers, `handleDefineClosure` | VM core |
| Compiler, reading (`Parser/tokenizer.cpp`, `Parser/parser.cpp`) | the tokens not read yet | `tokenize`, `atomize`, `parse` | code generator |
| Compiler, code (`Parser/codegen.cpp`) | `env`: scope, reactivity, dependencies and type of each name; one output file per function; counters for labels | `codegen` of each form, `findVariables`, `parseFile` | loader, through a text file |
| Registered C functions (`robotFunctions.cpp`) | the robot's position | `goForward`, `randomSleep`, ... | VM core |

A robot is one process with one thread.  `main` loops over `step()`, and
`step()` is one instruction followed by one `checkForMessage()`.  The router is
one process with one loop.  All concurrency is between processes: datagrams in
sockets, and the clock that all robots of one host read.

### What is hard here, and what makes it correct

* Replication without coordination.  A store, the reading of the clock for the
  message and the sending are three moments; others act between them.  Correct
  means: replicas agree when nothing is under way (`Convergence`), entries do
  not get older (`NeverOlder`), the exchange of answers ends
  (`SingleWriterSettles`), and a store is not undone by an older one
  (`NoStaleOverwrite`, which the code violates).
* Joining.  The robot reads two packets blindly: the first is its ID, the
  second the start signal.  Correct means: IDs are distinct although updates of
  robots that run already may be sent to a robot that still waits
  (`DistinctIDs`), nobody runs before the signal, faults or not
  (`NobodyStartsEarly`), and late robots are started (`EverybodyStarts`).
* Echoes.  The router sends an update back to its sender.  A robot's older
  stigmergy store comes back after a newer one was written.  Correct means: the
  entry is repaired by what is under way (`KnownOrOnTheWay`), other robots
  never see an entry go back (`OthersNeverGoBack`).
* Reactions in the middle of a computation.  An update that arrives between two
  instructions runs the dependent closures there and then.  Correct means: the
  code of a closure runs in its own scope and returns to where it was entered
  (`CodeRunsInItsScope`), there is code to run (`EveryClosureHasCode`), reactions end (`ReactionsEnd`), the reaction to the
  last update is not lost (`BarrierOpens`), and the interrupted computation goes
  on as if nothing had happened (`BarrierHolds`, which the code violates).
* The collector.  It runs after every return, with raw pointers to closures on
  the return address stack.  Correct means: nothing the program can reach is
  freed (`NothingReachableIsFreed`, `TypeOK`), nor what updates still run
  (`DependantsAreKept`, which the code violates).
* Propagation along several paths.  Closures that depend on closures are run
  depth first, some of them several times, on a mix of old and new values.
  Correct means: when a reaction is over, no closure is out of date
  (`NothingIsOutOfDate`).
* A compiler that writes one file per function and decides from apostrophes what
  depends on what, for a stack machine whose instructions each have their own
  idea of what they leave.  Correct means: a compiled program computes what it
  means (`ProgramsMeanWhatTheySay`), keeps the bodies of its functions apart
  (`BodiesStayApart`), leaves nothing behind on the stack
  (`OnlyReactionsGrowTheStack`) and comes to rest (`ProgramsComeToRest`).
* A loop over a map that others write into.  Its position is an iterator inside
  the variable.  Correct means: no entry is visited twice
  (`ForeachVisitsEachOnce`).

Faults the code can meet: a full socket buffer drops datagrams, the router may
be restarted, a new process may get the port of an old one.  Nothing is
persisted, so that a restarted robot is a new robot.

## The modules

* `Network`: sockets as FIFO queues, the router's client list, and the operators
  the other modules conjoin into their actions.  It starts after the handshake.
* `TaggedVar` (extends `Network`): one tagged variable.  `step()` is cut where
  other processes can see the difference: `StoreTagged` or `OtherInstruction`,
  then for a store `StampMessage` (second reading of the clock) and
  `SendMessage`; then `CheckForMessage`, which is `NoMessage`, `ApplyUpdate` or
  `AnswerUpdate`, the last again followed by `StampMessage` and `SendMessage`.
  `at[r]` says where in `step()` robot r is.  Values are numbered by store, so
  that "older" can be said of values and not only of timestamps.
* `Stigmergy` (extends `Network`): one stigmergy variable, `stig[r][q]` is what
  robot r's map holds for robot q.
* `Startup`: the handshake, with its own network since it carries other packets,
  and with the faults as separate actions in `FaultyNext`.
* `Operators`: the arithmetic, comparison and logic instructions as operators on
  data.  `arithmetic` is a recursive function, as the code calls itself again
  with the values of closures; an operand that is not resolved after once per
  closure leads back to itself, and the code calls itself until it crashes.
* `Loader`: from the text of a program to cells, labels and closure templates.  It
  runs before anything else, so that its results are constants.
* `Machine` (extends `Loader`, `Operators`): the machine of one robot as a record,
  each instruction an operator on it, named after the C++ function.  `Fail` stands
  for an exception, which ends the process, and for the infinite recursions of
  the collector and of `handleDependants` over cycles.  Tagged variables may hold
  closures; an update then replaces the cached value.
* `Swarm` (extends `Network`, `Machine`): a machine per robot.  `step()` is
  `Instruction` or `Store`, then `CheckForMessage`; `at[r]` says which is next.
  An update that is received enters the first dependent closure, whose body the
  next `Instruction`s run.  `Swarm` implements `Stigmergy`
  (`ImplementsStigmergy`): the map in `taggedTable` is its `stig`, every other
  instruction a stutter or `OtherInstruction`.  `Stigmergy` knows stores by their
  number; the histories `stored`, `written` (what the n-th store of a robot was),
  `known` (which store of another one a robot heard of last) and `audience` (the
  clients at a robot's last store) tell the numbers, and the mapping compares:
  an entry that is not what the store it should come from has written is mapped
  to -1, which is no store, so that a map that is mixed up is no behaviour of
  `Stigmergy`.  Programs may store what they like, the same value twice too.
* `Reader`: `tokenize` and `parse`.  A text is a sequence of parentheses, spaces
  and words, so that it says which pieces become one token.
* `Codegen` (extends `Reader`): the compiler's state as a record that every
  operator takes and returns, one operator per form of the language, with the
  bytecode files as sequences of instructions.
* `Semantics` (extends `Reader`, `Operators`): what a program means, without
  bytecode: the reference, translated from no code.
* `Language` (extends `Machine`, `Codegen`, `Semantics`): one robot from the text
  of its program to the last instruction.  `Step` is a `step()` that finds no
  message, `StepWithUpdate` one that finds an update.
* `StigmergyProofs`, `StartupProofs`: theorems about the module each is named
  after, and their proofs.  `TaggedVarProofs` (extends `MCTaggedVar`) and
  `OperatorsProofs` (extends `MCOperators`) have theorems about the behaviours of
  those instances too.
* `Recursion`: induction up to a number, and by it what the recursive functions of
  `Operators` return.
* `SwarmProofs` (extends `Swarm`, `Recursion`): what an instruction may do to the
  map of a stigmergy variable, and from it the refinement.
* `CollectorProofs` (extends `SwarmProofs`): machines refer to closures that are
  there.
* `ScopeProofs` (extends `CollectorProofs`): machines are in the scope that their
  code was written for.
* `MCTaggedVar`, `MCStigmergy`, `MCOperators`, `MCSwarm`, `MCLanguage`: instances
  for TLC.  `MCTaggedVar` also has the behaviours in which no two clock readings
  coincide, `MCOperators` a state space of operands, `MCSwarm` the programs
  `testPrograms/barrier.txt`, what the compiler makes of `stigtest.txt` (with one
  and with two foreach blocks, without its print), and robots that store, once or
  twice the same, and end; `MCLanguage` puts its programs together from parts.

`Reader`, `Codegen`, `Semantics` and `Language` have recursive operators, which
TLC evaluates and the proof system does not take: there are no theorems about
them.

Some definitions are preceded by a *mutant*, the same definition with a
plausible bug.  Nothing uses them; replacing the definition by its mutant must
break the property PROJECT.json pairs with it.

Abstractions.  Values are numbers of stores, never data.  A robot's other
variables and its instructions that do not touch the variable are one step
(`OtherInstruction`).  Robot IDs in `Stigmergy` are the robots themselves, which
`DistinctIDs` justifies, in `Swarm` too.  Timestamps are one number; the code compares seconds,
then microseconds.  Reactions (`handleDependants`) are left out of `TaggedVar`
and `Stigmergy`; for the latter `Swarm` has them, and `Language` for both.
`Machine` leaves out floats, strings and stigmergy variables that hold closures;
an operand that is a stigmergy variable with a value is an error of arithmetic.  An exception in
`checkForMessage` or in an instruction ends the process there and then: the rest
of `step()` does not happen.  A robot in `TaggedVar` never
ends; in the code one that reaches `end` stops answering.

### What a program means, and which programs are compared

`Semantics` gives a reactive variable the value its formula has now, as in a
spreadsheet, a function its body with the arguments in their order, a block its
last expression, and a loop a value like everything else; a local name hides a
global one.  It takes nothing over from the code.  Where the two are known to
disagree, a program for it is in the run `language_promises` (deviations 3 and 6 to 9), and
the programs of `language` keep away from it: no `while` is followed by anything
in a block or stands in another loop, no local variable has a global one's name,
functions of two parameters do not depend on their order, every name a closure
depends on has a value before the first return.  The value of a program that ends
in a loop is left open, that of formulas that lead back to themselves is not
defined.

The programs stay inside what the compiler handles without leftovers: the result
of a call is an operand of `+` or `*`, an argument, the value of a `set`, or
returned; a reactive variable is given a value
before its formula and is set once; an update of a variable that has dependants
comes while the program spins; each foreach body has its own variables.  What
lies outside and is known: `sub` and `div` of a call are reversed
(`language_promises`), a reaction inside an operand leaves its index
(`swarm_early`), and the hazards of `PROJECT.json` that no property covers.

The models of the compiler also hold what the runs do not single out: `tokenize`
joins a word to the parenthesis before it (tokenizer.cpp:36); `%` is generated
for one argument only (codegen.cpp:102), so that no text reaches `mod`;
only names with an apostrophe become dependencies (codegen.cpp:217).

## The runs

| Run | Instance | Shows |
|---|---|---|
| `tagged_two` | 2 robots, both write, 3 stores, 4 messages, 3 clock values, fairness | `TypeOK`, `Convergence`, `NeverOlder`, `EventualAgreement` |
| `tagged_one_writer` | 3 robots, 1 writer, distinct clock readings | `SingleWriterNeverGoesBack`, `SingleWriterSettles` |
| `tagged_stale` | 2 robots, distinct clock readings | counterexample to `NoStaleOverwrite` |
| `startup` | 3 robots, 1 update, 2 faults of any kind, fairness | `TypeOK`, `DistinctIDs` and `NoMisreadPacket` (until a fault happens), `NobodyStartsEarly`, `EverybodyStarts` (unless a fault happens) |
| `stigmergy` | 2 robots, 3 stores each, fairness | `TypeOK`, `KnownOrOnTheWay`, `OthersNeverGoBack`, `StoresSpread` |
| `stigmergy_barrier` | 2 robots, 1 store each, fairness | counterexample to `EverybodyCounted` |
| `operators` | 10 x 10 operands, 20 caches | `ClosuresActAsTheirValues`, `OrderIsTotal` |
| `swarm` | 2 robots: one at a barrier of 2 or summing up a map, one that stores and ends; or two that store twice; fairness | `TypeOK`, `NothingReachableIsFreed`, `CodeRunsInItsScope`, `EveryClosureHasCode`, `ImplementsStigmergy`, `ReactionsEnd`, `BarrierOpens` |
| `swarm_early` | the barrier | counterexample to `BarrierHolds` |
| `swarm_collected` | two foreach blocks | counterexample to `DependantsAreKept` |
| `language` | 188 programs, up to 3 updates from robots 1 and 3, fairness | `TypeOK`, `ProgramsMeanWhatTheySay`, `OnlyReactionsGrowTheStack`, `CodeRunsInItsScope`, `BodiesStayApart`, `NothingIsOutOfDate`, `ForeachVisitsEachOnce`, `ProgramsComeToRest` |
| `language_promises` | 8 programs, each of which alone is one | counterexample to `ProgramsDoAsPromised` |

Bounds.  `MaxClock`, `MaxStores`, `MaxBroadcasts`, `MaxUpdates` and `MaxFaults`
cap counters that only grow.  Two stores race, the third overwrites the winner;
three clock values give equal, older and newer timestamps; four messages are two
stores and two answers.  In `tagged_one_writer` the clock and message bounds
are never what stops a robot: `SingleWriterSettles` fails at once if they are
set too small.  In the other runs of `TaggedVar` a robot may stop at
`MaxBroadcasts` inside a broadcast; such a state is not quiescent, and
`EventualAgreement` speaks of behaviours where broadcasts end.  The
runs of `Swarm` have no bound: the programs store once, and two updates reach
the robot in question, its own and the other's, which is enough for a reaction
in the middle of the first call and of the other reaction; the two robots that
store twice have echoes of an older store come back after a newer one.  Two robots at the
barrier were too many for TLC (more than 13 million states).  `CHECK_DEADLOCK
FALSE` in all runs but `operators`: with every bound used up the models
stop; in `Startup`, `Swarm` and `Language` the robots also end.

The programs of `language` are: every operator on every pair of -7, 0 and 2 and
two operators nested either way; conditions, loops, blocks, including the
compiler's test programs iftest.txt and whiletest.txt; recursive, nested and
reactive functions; three reactive variables over a fourth in all 21 shapes of
dependence, diamonds included, alone and, with the fourth one tagged, under
updates; formulas that call and choose; loops over a map of up to three entries,
once, twice and as a reactive block, under updates; and six programs that mean
an error.  Half of the texts have as few spaces as they may, half have more than
they need.  Three updates let a newer one follow one that was ignored, and fill a
map while the loop stands in it.

Fairness.  The router's loop and each robot's loop never stop on their own, so
that a step of theirs that stays possible is taken (`WF`).  Nothing makes a
robot store, join or be launched, or the operator give the signal.  In `Language`
the robot goes on stepping (`WF_vars(Step)`: `main` calls `step()` in a loop), and
no update need arrive.  In `Swarm`
the fairness of a robot's loop is stated with the change of `at`, `Steps`, which
every step makes but the failing instruction that ends the process: the same
fairness, in a form TLC evaluates six times faster.  `BarrierOpens` and
`ReactionsEnd` accept a robot that has ended, by itself or by an error.

Deviations found.  TLC stops at the first counterexample of `language_promises`;
with `-continue` it shows one for each of the eight programs.

1. `tagged_stale`: `broadcastVariable` (networking.cpp:140) stamps a message with
   the time of sending.  r1 stores, r2 stores later, r2's update is sent first,
   r1's second: r1's carries the newer stamp and replaces r2's newer value, and
   the log (networking.cpp:199) says the local version was out of date.  The
   replicas still agree, on the older store.
2. `stigmergy_barrier`: `barrier.txt` promises "Wait for 5 robots, then go"
   (line 1), and the router starts late robots (router.cpp:188), but forwards an
   update only to the clients of that moment (router.cpp:211).  A late robot
   never counts those that stored before it joined.
3. `language_promises`: `sub` and `div` on a closure push the two values in the
   wrong order and run again (arithmetic.cpp:103-104, 221-222), so that `b - a`
   (arithmetic.cpp:62) becomes `a - b`.  A closure whose value is a closure
   exchanges them once more.  A program that subtracts 2 from a call's result 7
   ends with -5.
4. `swarm_early`: `ret_from_closure` leaves the closure's index on the operand
   stack (closureInstructions.cpp:129).  A caller pops it; a computation that an
   update interrupted does not expect it.  In the closure `wait` of `barrier.txt`
   an update between `gt` and `jmp_if_not_zero` makes the jump find a closure,
   which is no number: it is not taken, and the robot goes on.
5. `swarm_collected`: a foreach block is an instance that only the list of
   dependants of its map names once the program has popped it.  The collector
   does not follow that list (gc.cpp:29), so that the return of the next call
   frees the instance; the next update re-creates an empty closure at its index
   and runs the program from the start in its scope.
6. `language_promises`: a `while` leaves nothing on the stack (codegen.cpp:575),
   where "Everything has to push something!" (codegen.cpp:456).  The pop behind
   one in a block, which is to "Discard the result of all expressions other than
   the last" (codegen.cpp:406), takes the value of somebody else, or throws:
   `(begin (while 0 1) 2)` stops with an error.
7. `language_promises`: `load` lets a global variable win over one of the scope
   (storeLoad.cpp:81), `store local` does not: the body of a foreach over `y`
   reads a global `y`, although "it is local" (codegen.cpp:517).
8. `language_promises`: arguments are pushed from left to right
   (codegen.cpp:156), the layout above `callClosure` has `arg1` at the bottom, and
   the call gives the top to the first parameter (closureInstructions.cpp:62):
   `(minus 7 2)` computes 2 - 7.
9. `language_promises`: the collector looks up the dependencies of every
   closure, those of templates never called included, and throws for a name
   without a value (gc.cpp:21).  `closure_test.txt` declares a closure that depends
   on `fResult`, which is stored after the first return: it stops there.  The
   text is taken over with the spelling today's loader accepts (`push i 7`, `store
   global fResult` on a line of its own, no types of parameters).

## The proofs

Everything is proved for any set of robots, any bounds and any programs.  What is
assumed of the constants is in the modules that declare them, and TLC evaluates it
on every run: in `Swarm` that a robot is a number (`RobotAssumption`) and the
shared variable a name (`SharedAssumption`), that programs are launched that the
loader accepts (`LaunchAssumption`), what the loader makes of every text
(`BytecodeAssumption`: an operand behind each instruction that has one, numbers
where labels and literals were, templates that start in the bytecode; in `Loader`,
`DefinitionAssumption`: templates are numbered from 0, their arguments and
dependencies are names), and that
programs write the shared variable by store stig only (`StoreAssumption`).

`TaggedVarProofs` proves `Spec => []IInv` and from it `TypeCorrectness`,
`SwarmConverges` and `EntriesNeverOlder`.  `Convergence` alone is not inductive:
at rest it says that everybody holds the newest message, but nothing about how
they got there.  `IInv` adds that no timestamp is newer than `newest`'s except
that of a store whose broadcast is not stamped yet (`NewestIsNewest`), that only
clients take part (`Participation`), and `Agreeing`: either a message is about
to be stamped, or some client holds (or will read) the newest message and has
another one to read after it, so that it will answer, or every client has the
newest message, will receive it, or is a late joiner nothing was sent to.  The
proof has one lemma per action.

Its last theorem, `OneWriterNeverGoesBack`, is about the behaviours in which one
robot writes and no two readings of the clock coincide (`DistinctSpec` of
`MCTaggedVar`): there `SingleWriterNeverGoesBack` holds for any number of readers.
Why the writer's own echoes undo nothing is said by `SingleWriterInv`: what the
network carries is in the order in which it was stamped, in each queue and along
the way from the writer through the router to each robot (`SentInOrder`); all the
others only listen, because whatever they have still to receive is newer than
what they have (`OthersListen`), so that every stamp is the writer's; and the
writer is ahead of everybody, and would take an echo for newer only if it carries
its last store (`WriterIsAhead`).  The assumption on the clock is one the code
does not ensure: with two readings in one microsecond a listener answers.

`StigmergyProofs` proves `Spec => []IInv` and from it `TypeCorrectness`,
`EntriesKnownOrOnTheWay` and `OthersEntriesNeverGoBack`.  The argument is about what
a robot has still to receive, its `Stream`: what waits in its own socket, then
what waits in the router's.  Forwarding leaves the stream of a client as it is, a
store is appended to all streams, a read takes the head of one.  `KnownOrOnTheWay`
alone is not inductive: a read could replace the last entry by an older one, or
take the last one away and leave an older one behind it.  `IInv` adds that the
entries of a robot pass in the order it stored them (`InOrder`), that its last one
is there where any one is (`LastIsThere`), that nothing a robot will receive of
another is older than what it has (`NotOlder`), that nobody has what was not
stored (`EntriesWereStored`), and that robots that have not joined have nothing
(`Participation`).  A robot's own entry is left out of `NotOlder`, for its echoes
do set it back; that its last store waits behind is what `LastIsThere` says.
`OthersNeverGoBack` is `NotOlder` at the head of the stream.

`StartupProofs` proves `Spec => []IInv` for starts without faults.  `IInv` says
what is in each robot's socket at each stage of the handshake (`Handshake`):
the ID first, then the start signal if it was given, then only updates; that
only registered robots send updates, after the signal (`Requests`); and that the
IDs read or waiting to be read are distinct and below `currentID`
(`OwnIDsDistinct`).  The theorems are `TypeCorrectness`,
`RunningRobotsHaveDistinctIDs`, `OnlyUpdatesReachRunningRobots` and
`StartWaitsForTheSignal`.  Assumption: `WordAssumption`, that the first bytes of
an update read as an integer.

With faults only `SignalIsAwaited` survives: as long as the signal was not given,
nobody is past waiting for it, what waits for a robot is its ID at most, only pings
wait for the router, and a robot whose ID has come although the router does not
know it (any more) has no ping there that could be answered with a second ID,
which it would take for the signal.  Losses, restarts and reused ports keep that,
so that `FaultsStartNobody` has `NobodyStartsEarly` for any number of them.
`FaultyIInv` joins it with the types, and with `IInv`
as long as `faults = 0`, which carries `DistinctIDs` and `NoMisreadPacket` over
to the specification with faults.

`OperatorsProofs` proves that the six comparisons agree (`OrderIsTotal`) on every
pair of data, for integers of any size: a case for each kind of pair that the
chains of ifs tell apart, with less, equal and greater for integers.  And that
`add`, `mul` and `mod` on closures are what they are on the closures' values
(`ClosuresActAsTheirValues`), for any number of closures.  The recursion of
`arithmetic` is met with `UpTo` of `Recursion`: induction up to N, said of a set
that holds 0 and the next of what it holds, since the induction theorems of the
library take the property as an operator, which the provers cannot be given.  The
same lemma unfolds the other recursive functions, `DependOnAll`, `WithDependants`
and `Reached`.

`SwarmProofs` proves that `Swarm` implements `Stigmergy`, and carries what
`StigmergyProofs` has proved over to the machines (`EntriesKnownOrOnTheWay`,
`OthersEntriesGoForward`).  First come lemmas about single
instructions: that they leave the tagged table as it is (`Spares`), or rewrite its
variables but not the maps in them (`Keeps`), or write the one entry that they
name (`Writes`).  They assume nothing of the bytecode but that nothing in it is
store tagged, and nothing of the machine but its fields: programs may underflow
the stack, jump anywhere or name what is not there.  The inductive invariant is
`Machines` (every machine has the fields of one), `Places` (counters and histories
belong together), `Carried` (what is on its way are stores of the past) and
`MapsAreKnown` (the entry of q in r's map is the `known[r][q]`-th store of q): from
it follows that the mapping never meets its -1.

`CollectorProofs` proves `CollectorFreesNothingReachable` and `TypeCorrectness` of
`Swarm`.  Neither is inductive: what a collection leaves depends on what all the
closures, tables and stacks hold.  The invariant is that machines are *whole*
(`IsWhole`): every index of a closure in a table, on the operand stack, in a local
variable or a cached value, and every scope on the return address stack, names a
closure that is there, and lists of dependants, which the collector does not
follow, hold at least numbers below the length of the closure list.  That is what
makes reading a missing index, which creates an empty closure, harmless.  Each
operation takes a whole machine to a whole one (`Becomes`); for the collector
that needs that `Reached` is closed under the references it follows
(`ReachedIsClosed`): it goes on for as many rounds as there are indices, and by the
pigeonhole principle the rounds stop adding before that.

Both say `NoClosureIsStored => ...`: no robot has put a closure into the shared
map.  The map of a stigmergy variable that holds closures is outside the model
(see below), and an index that arrived from another robot would mean nothing here.
The condition is about what has happened so far, not about the text of the
programs: a program may contain a store of a closure, and the theorem
holds until it executes it.

`ScopeProofs` proves `CodeStaysInItsScope`, which has `CodeRunsInItsScope` of
`Swarm` for every program whose closure bodies are apart (`BodiesAreApart` of
`Machine`): the main program comes first, and neither a jump nor the step from one
instruction to the next leads from one body into another.  The loader does not
check that.  The compiler ensures it, for which the run `language` has
`BodiesStayApart` on all its programs, and TLC evaluates it on those of `MCSwarm`
(`LayoutAssumption`).  The invariant is `PlacesFit`: a machine between two steps
is *standing*, one that has still to look at the socket is *settled*: the place
it is at or about to go to, and all places on the return address stack, are in
bodies whose scope goes with them (`Fits`).  An instruction takes a standing
machine to a settled one, a reaction a settled one to a settled one, and the end
of the step lets it stand again.  Operands, tables and values do not matter, so
that most operations only have to leave the place and the templates of the
closures alone (`Stays`).  The collector needs `IsWhole`: a scope on the stack is
not freed, so that it keeps its template.

A body is looked up by the template of the closure, and an empty closure has none.
A reaction makes one when the dependant it is to run was freed before, which the
collector may do (deviation 5).  `PlacesStayFit` therefore excepts places in empty
closures, and `CodeStaysInItsScope` supposes that there are none
(`EveryClosureHasCode`, which `swarm` checks of its programs).

Only model-checked:

* the liveness properties: fairness and ENABLED are out of reach of the prover;
* `EveryClosureHasCode`, which depends on the program: a second foreach block over
  the same map breaks it (deviation 5);
* everything about `Language`: `Reader`, `Codegen` and `Semantics` are recursive
  over the structure of programs.

Hazards that no property covers.  Some hazards of `PROJECT.json` name no property:
the code does what they describe and no doc, comment or test says otherwise, so
that there is nothing to hold it against.  The models do it too; the note of each
says where.  Among them: equal timestamps are answered for ever, which the
distinct readings of `tagged_one_writer` exclude; a lost packet of the start blocks a
robot for ever; a restarted router; the indices that reactions leave on the stack,
which `OnlyReactionsGrowTheStack` counts among what it expects (the effect on
what they interrupt is `BarrierHolds`).

## Not modelled

* Floats and strings: every branch for floats repeats the one for integers after
  a conversion, and strings are only stored and printed.  Their cells are loaded
  (`print "done"`), not computed with.
* Stigmergy variables that hold closures: `storeStig` throws in the middle of its
  own handler for them (a hazard in `PROJECT.json`).
* Arithmetic on a closure and a stigmergy variable of integers: the code takes the
  variable's own value, which nothing has written (`getVariableData`,
  arithmetic.cpp:86); the model makes it an error.
* Formulas that lead back to themselves: the machine fails where the code recurses
  without end (gc.cpp:8, storeLoad.cpp:146), and no program has them.
* `rerun_closure` and jumps to line numbers: no text that the loader accepts or the
  compiler writes has them.
* Exceptions as such: which error is thrown is a matter of wording; where one is
  thrown is in the models.
* The memory behind a vector that `codegen` erases from while it goes through it
  (codegen.cpp:440): the model makes the two cases what they are when they show.
* `Playground`: earlier experiments that the program neither includes nor links.

## Plan

1. `Swarm` as an implementation of `TaggedVar` too, so that reactions and
   replication of tagged variables are seen together; robots that end.
2. An abstract replicated register that `TaggedVar` implements, with the proof.
3. What of a program makes `EveryClosureHasCode` hold: that the indices of its
   reactive closures stay on the stack, or in a variable.
