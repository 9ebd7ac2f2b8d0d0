# Verification of the Icon run-time system

TLA+ specifications of the parts of Icon (the C implementation under `src/`)
whose correctness depends on the order of steps or on the edges of data: who
runs when control passes between co-expressions, what a suspended generator
finds when it is resumed, what a collection may take, how linked structures
change under all of them, what the linker and the preprocessor make of several
files, and arithmetic, conversions and string operations at the ends of their
ranges. TLC checks every module on small instances. TLAPS proves, for all
values of their constants, the safety properties and refinements of context
switching, of co-expressions, of the transmission of values, of lists, of
strings and their collection, of storage regions, and of the cache of `map`.
Paths below are relative to the repository;
`runtime/` stands for `src/src/runtime/`, `common/` for `src/src/common/` and
`icont/` for `src/src/icont/`.

## 1. The system

An Icon program is translated to virtual-machine code (`icont/`), and
interpreted by `iconx`: an interpreter loop (`runtime/interp.r`) over a stack
of procedure, expression and generator frames, a library of operators and
functions written in a C dialect (`.r` files, translated to C by `rtt/` when
Icon is built), and storage management. Everything runs in one process. The
only concurrency is that of co-expressions, each of which owns a POSIX thread;
but suspended generators, co-expressions and collections interleave with
everything else, sequential as it is.

| component | state | operations | hard behaviour |
|---|---|---|---|
| context switching, `common/rswitch.c` | a context per co-expression (semaphore, thread, `alive`), `inited` | `coswitch`, `coclean`, `nctramp`, `makesem` | threads interleave between post and wait; globals without locks; threads joined inside a collection |
| co-expressions, `rcoexpr.r`, `lmisc.r`, `omisc.r`, `rmisc.r` | block and interpreter stack of each, `stklist`, `k_current`, activator stacks, `tvalloc`, `coexp_act` | create, refresh, activate, return, fail, `&source` | activations do not nest; values are stored into suspended stacks; half-made blocks during a collection |
| interpreter, `interp.r`, `invoke.r`, `imisc.r` | `ipc`, `sp`, `pfp`, `efp`, `gfp`, `ilevel` | one per VM instruction | backtracking into suspended operators and procedures, unwinding of C recursion |
| sets and tables, `rstruct.r`, `fstruct.r`, `oset.r`, `oasgn.r` | size, mask, segments of chains ordered by hash number; generator state | insert, delete, lookup, generate, copy, union, difference, intersection | chains split under a suspended generator; deletion of the element it stands on |
| lists, `fstruct.r`, `oref.r`, `ocat.r`, `omisc.r` | chain of circular buffers, size; block and index of `!L` | put, push, get, pop, pull, subscript, section, concatenate, generate, sort | ends that meet, emptied blocks that stay, changes under `!L` |
| storage allocation, `ralc.r` | chains of string and block regions; what is reserved | `alc*`, `reserve`, `deallocate`, `newregion` | collection inside any allocation; several regions and goals |
| garbage collection, `rmemmgt.r` | marks threaded through blocks, qualifier list | `collect`: mark, `cofree`, `scollect`, `adjust`, `compact` | relocation of everything; stacks swept from frame pointers |
| assignment, trapped variables, `oasgn.r`, `oref.r` | substring and table-element variables | assign, exchange, reversible forms | lengths and positions that shift; undone in reverse order on backtracking |
| scanning, `imisc.r`, `fscan.r`, `fstranl.r` | `&subject`, `&pos` | `bscan`, `escan`, `tab`, `move`, analysis functions | environment exchanged on entry, suspension, resumption and exit; the subject changes under a suspended function |
| string functions, `fstr.r` | the cache of `map` | `map`, `center`, `detab`, `repl`, ... | descriptors that stay equal while their strings move; lengths at their limits |
| arithmetic, conversion, comparison, `cnv.r`, `oarith.r`, `rlrgint.r`, `rcomp.r`, `fmisc.r` | none | on words, large integers, reals, csets, structures | carries, overflow into large integers and back, one order for all types |
| files, `fsys.r`, `rsys.r`, `oref.r` | status and `FILE` of each, buffers | open, close, read, write, seek, `!f` | line ends, pieces, a full disk, `FILE`s that are used again |
| linker, `icont/l*.c` | tables of globals, records, fields, labels | `ilink`: read, discard, generate | renumbering after discarding; chains of forward references |
| preprocessor, `common/ipp.c` | open files, definitions, nesting of conditionals | directives, `ppch` | expansion while the text is consumed; one count of conditionals for all files |
| code generation, `icont/tcode.c` | loop stack | one per node type | marks to be removed on every way out |
| translator front end, `rtt/`, `preproc/`, graphics, dynamic loading | | | section 5 |

Components meet in a few places. `activate` and the return instructions call
`co_chng`, which saves the registers of one co-expression, loads those of
another, and calls `coswitch` to change threads. Every allocation may call
`collect`, which marks from `&main`, `&current`, the globals and the tended
descriptors, frees unreached co-expressions through `coclean`, and moves all
blocks and strings. Generators (`!x`, `key(t)`, `upto(c)`, `!f`) are C
functions suspended in the middle of a structure, a subject or a file that the
program goes on changing.

What makes each part correct:

- *context switching*: one thread runs at a time, the one of `&current`; a
  switch reaches its target; a reclaimed thread leaves.
- *co-expressions*: a return goes to the latest activation that has not
  returned; a value or a failure reaches the activation its receiver is
  suspended in, and nothing else on its stack changes; a collection frees no
  co-expression that something refers to.
- *interpreter and code generation*: the code of an expression, run on the
  stack, does what goal-directed evaluation of the expression does; frames,
  marks and C functions stay in step.
- *sets and tables*: an element is found where its hash number says, whatever
  has been split or merged; a generation produces each element that stays
  exactly once.
- *lists*: the blocks behave as one sequence; `!L` produces what `put` adds.
- *storage*: what is reserved is there until it is used; a request is refused
  only when no region could hold it; what is reachable survives a collection
  with its contents, and nothing else does.
- *assignment*: a variable of any kind gets the value and nothing else
  changes; what is resumed is undone.
- *arithmetic, conversion, comparison*: results are those of integers, in their
  one representation; numerals mean what they say; one order, which sorting
  follows.
- *linker, preprocessor*: a reference leads to what was declared, a jump to its
  label; the lexical analyzer gets the lines that count, with definitions
  expanded.
- *files*: no character is lost, doubled or sent to another file.

## 2. Modules

| module | what it is |
|---|---|
| `CoSwitch` | threads, semaphores and contexts of `rswitch.c`, with `co_chng` and `cofree` as its callers |
| `Coroutine` | what `CoSwitch` implements: one holder of control, transfers to live co-expressions only |
| `Activation` | creation, refresh, activation, return, activator stacks and the collection of co-expressions |
| `ActivatorStacks` | what `Activation` implements: a plain sequence of activators per co-expression |
| `Transmission` | values and failures handed between co-expressions, over the stacks of `ActivatorStacks` |
| `Icode` | the code that `icont/tcode.c` generates for expressions |
| `Frames` | the interpreter stack and the control regime of `interp.r`, running that code |
| `Goal` | what `Frames` is to do: goal-directed evaluation of the source expressions |
| `HashTable`, `Generation` | sets and tables with a suspended generator, and what they implement: generation while the structure changes |
| `Lists`, `Deque` | lists with a suspended `!L`, and what they implement: a sequence |
| `Regions`, `Arena` | the chains of regions with `reserve`, `findgap`, `newregion` and `deallocate`, and what a program sees of them |
| `Collector` | marking, adjustment and compaction of the block region, on words of memory |
| `StringSpace`, `StringVars` | strings as addresses and lengths, and `scollect`; and what they implement: variables with values |
| `MapCache` | what `map` keeps from call to call |
| `TrappedVars` | assignment, exchange and their reversible forms |
| `LargeInt`, `Arithmetic` | large integers, and Icon's operations on integers |
| `Conversions` | strings, csets, integers and reals converted to one another |
| `Ordering` | comparison, identity and sorting |
| `Scanning` | matching and analysis functions over a subject that changes |
| `StringFunctions` | the functions that make strings |
| `Files` | files, their buffers and `!f` |
| `Linker`, `Labels` | the phases of `ilink`; the layout of code and the chains of forward jumps |
| `Preprocessor` | directives, nested files and expansion, with their meaning defined on the structure of the files |
| `MC*` | instances for TLC |
| `ProofLemmas`, `*Proofs` | proofs, section 4 |

`MCOperators`, `MCStrings`, `MCFunctions` and `MCLinker` are sums of modules
that do not interact: a variable says of which part a behaviour is, and the
variables of the others rest. Their properties are those of the parts.

The three co-expression modules see the same code at three levels. `CoSwitch`
has the threads and abstracts from who activates whom: any co-expression that
exists may be switched to. `Activation` takes a switch as one step, which is
what `CoSwitch` shows it to be, and has the activator stacks and the
references that a collection follows. `Transmission` takes the activator
stacks as sequences, which is what `Activation` shows them to be, and has the
operands. Storage has three levels as well: `Regions` has sizes and no
contents; `Collector` has blocks and pointers of one collection, and
`StringSpace` strings and all collections of one region.

A definition called `X_Slip` is `X` with a plausible mistake. No specification
uses it; it records which property notices the mistake.

### 2.1 CoSwitch

`pc[c]` is where the thread of `c` is: in the interpreter (`run`), in
`coswitch` (`setup`, `mark`, `post`, `wait`, `woke`), in `nctramp` (`start`),
in `coclean` (`kill`, `join`), or gone. The actions follow `coswitch` from one
operation that another thread can notice to the next: the look-up and creation
of contexts (`Setup`, or `CreateFails` when `pthread_create` refuses),
`new->alive = 1` (`MarkAlive`), `sem_post` (`Post`), `sem_wait` (`Wake`), the
test of `old->alive` (`Resume`, `Die`). `CoChng` is `activate` and `co_chng`
up to the call: it changes `k_current` and `coexp_act` while the old thread
still runs. `CleanBegin`, `CleanPost` and `CleanJoin` are `coclean`, called by
`cofree` on any co-expression that is neither `&main` nor `&current`: the
marking that decides is `Activation`'s. A flag that `malloc` returned and
nobody has written is `"unset"`, and a thread that tests it may go either way.
A semaphore's errors other than `EINTR` (which `coswitch` retries) are left
out: the code passes it valid semaphores.

### 2.2 Activation

`actstk[c]` is the chain of `astkblk`s of `c` from the oldest, each a sequence
of `(activator, acount)` records; `PushAct`, `Popped` and `TopAct` are
`pushact`, `popact` and `topact`. `held[c]` is the set of co-expressions that
the interpreter stack of `c` refers to, `freshblk[c]` those that its refresh
block does. `Create` is two steps because `alcrefresh` may collect in between.
`Collect` frees what `Marked` does not contain, at any time. `stopped` tells
the ways the run-time system could go wrong: `popact` on an empty stack, and a
sweep that starts from an unset frame pointer.

### 2.3 Transmission

`stack[c]` holds the operands of `c`; `tvalloc[c]` is the index of one of
them, `NULL`, or `Garbage` for the field of `&main` that `init.r` does not
set. `CoChng` is `co_chng` followed by what the resumed co-expression does
with the signal, in one step. `Compute` stands for all other code of the
running co-expression, which pushes and pops operands.

### 2.4 HashTable

`tab.chains[s]` is the chain of slot `s`, in all segments together;
`tab.stale` remembers the `clink` of a block that was deleted while a
generator may still follow it, and `Collected` forgets those that it cannot.
`Grown` and `Halved` are `hgrow` and a turn of `hshrink`. `gen` is the
generator's `hgstate` and the element it produced last; `Hgnext` is `hgnext`
with its records of splits (`sgmask`, `sghash`): `Noted` makes them, `Entry`
uses them to skip or enter a chain. `Slots[i]` is the number of slots up to
segment `i`, the sum of the `segsize` before it. A copy, a union, an intersection or a
difference is a new structure that the program goes on with. `must` and `may`
are history variables: what a running generation has still to produce.

### 2.5 Lists

`blk` maps block numbers to `b_lelem` records; the end pointers and the size
are those of the list header. `SetBlocks` removes at once what a collection
may remove at any time, blocks that nothing leads to and values in slots that
are not in use. `ep` and `i` are the local variables of a suspended `!L`.
`Section` replaces the list by a section, a copy or a sorted copy of itself,
which `cplist` and `cpslots` make; `MadeBy` says which operation has made the
first one.

### 2.6 Icode, Frames and Goal

The same programs are given a meaning twice. `Icode` translates an expression
tree as `traverse` does, one operator per node type, with the loop stack and
its counts of marks; `Frames` runs the code one instruction per step. `Goal`
evaluates the tree directly, by depth-first search with continuations, and
knows neither frames nor marks. `meaning` holds what it says, and `Agrees`
compares.

A cell of `stack` is a descriptor or a frame marker; `efp`, `gfp`, `pfp` and
`glbl_argp` are indices. `csusp` is the C stack: the functions that suspended,
each of which has called the next activation of `interp`, so that `ilevel` is
one more than its length. `failing` is the label `efail`, from which no
instruction is fetched: `FailFrame`, `ResumeE`, `ResumeP` and `ResumeC` are
its branches. `Unwound` is the return of `interp` after `interp` that the
signals `A_Unmark_uw` to `A_Pfail_uw` bring about, with what `bscan` and
`escan` do when their call of `interp` returns (`LeaveC`). `Sweep` is
`sweep_stk` on the stack as it is.

A subject is represented by its length, and `write`, `move`, `+`, `<`, `===`
and `to` stand for the functions and operators that return, fail, or suspend.
Invocation by string or integer, argument lists of other lengths, local
variables, `apply` and field references are left out, as they only push data.
A `next` in the control expression of an `every` is not among the programs:
`tcode.c` (line 490) removes no marks for it, and where a frame has been
marked the failure that follows ends that frame rather than the iteration.

### 2.7 Regions

Of a region there are three numbers: its size, how much of it is used, and how
much of that a collection would keep. `next`, `prev`, `Gnext` and `Gprev` are
the two chains as the code links them, and `Along` is what a loop over one of
them sees. `reserve` is a procedure with a program counter, as its collections
take it through other files: `Reserve` is what it does before the first
collection, `CollectLarge`, `PassOver` and `GiveWhenGoalMet` are the loop over
regions that are large enough, `Grow` is `newregion` with the sizes that it
asks `malloc` for (`Sizes`), `CollectSmall` the loop over the others, and
`Search` what it does when all that has not helped. What is to be
collected for want of room, and whether a collection of strings has failed
because the list of qualifiers could not grow (`qualfail`), are choices.
`credit`, `ahead` and `result` are what the program is entitled to: bytes
reserved and not yet allocated, a block allocated in advance that it may give
back with `deallocate`, a string that is being built.

### 2.8 Collector

`mem` is memory as words, and a block a title word with its fields. `Mark` is
one descriptor of `markblock` with the recursion as a list of what is to do;
`adjust` and `compact` go over the blocks from the base of the region as their
loops do. Every word means what the code takes it for: a title word is an
integer that is larger than any title when it is the head of a chain of
pointers. `before` is the graph at the start, with which `CollectsRightly`
compares the result.

### 2.9 StringSpace and MapCache

`StringSpace` has the characters of the region, and a qualifier per variable.
`qualify` keeps what points into the region, `qsort` may leave equal locations
in any order, and `Collect` is `scollect` with its clumps of overlapping
strings. An `int` has `IntBits` bits, because `qlcmp` casts a difference of
addresses to one. The abstraction maps a qualifier to its text. `MapCache`
abstracts further: a string lies where its index in `space` says, and a
collection that drops some strings renumbers those that it keeps.

### 2.10 Assignment, numbers, conversions, comparison

`TrappedVars` has blocks for substrings and table elements; `held` is a left
operand that has been evaluated, `suspended` are the reversible operations,
newest first. `LargeInt` follows `rlrgint.r` digit by digit, with the number of
bits to a digit as a parameter; a word has two digits. `Arithmetic` decides
between words and large integers as `oarith.r` does. `Conversions` reads
numerals character by character, as `ston` does, and compares with a grammar.
`Ordering` has `anycmp` and `equiv` on values of every type, and the structures
that `sort` and `sortf` take, lists with the blocks they are in.

### 2.11 Scanning, string functions, files

A suspended call of `Scanning` keeps its own copies of the subject and the
bounds, or, as `tab` and `move` do, the old position only. `StringFunctions`
has one call to a behaviour, and `Made` says by what a reader of the manual
would expect what its result is. In `Files`, `stream` is the C library's side
(buffer, position, what is on disk) and `file` Icon's (status, which `FILE`);
the library may give a closed `FILE` to another file. It is taken to be GNU's,
which writes what a `FILE` has in its buffer before it reads from it: ISO C asks
for a positioning call between the two, which `read` and `reads` make only after
`Fs_Writing`, and nothing sets that (section 6). A pipe is to a command that
there is: `popen` also starts a shell for other names, and what that does with
them is not modelled.

### 2.12 Linker, Labels, Preprocessor

`Linker` takes a program of files and performs the phases of `ilink` in order;
a program is correct or is refused, and `LinkedRightly` compares the icode with
the declarations. `Labels` has the code buffer, with an `int` of two bytes or
four in an operand that is longer, and the chain of forward references through
it. `Preprocessor` is `ipp.c` as the lexical analyzer calls it: an included
file must be readable, as `pathfind` finds out, before its name is compared with
those of the open ones. Its second half
defines the same on the structure of the files.

## 3. Runs

Every configuration finishes. `CHECK_DEADLOCK` is on wherever the program goes
on for ever (a process that has ended stutters); it is off for the runs of
computations that end: a collection, a call, a program that is linked.

| run | instance | what it shows |
|---|---|---|
| `coswitch` | `&main` and two others, two threads, fair | mutual exclusion, `&current`, signals, flags, contexts, victims; coroutines are implemented; every begun switch and `coclean` completes |
| `coexpr` | the same co-expressions, two records to a block, five pending activations | `popact` always finds an activator; nothing needed is freed; the stacks are sequences |
| `hash` | six keys, two to eight slots, five elements, two pairs of loading factors | chains stay ordered, complete and short; generation under insertion, deletion, union, two splits and shrinking |
| `lists` | two values, four elements, three blocks | the chain of buffers is a sequence, and `!L` sees the elements put to it |
| `frames` | 7000 programs, fair | generated code does what the source means, frames and C functions stay in step, the collector's sweep sees the stack as it is, and every program ends |
| `regions` | three regions, requests smaller and larger than the first, memory for some of them | the chains, what has been reserved, and when a request is refused |
| `collector` | every graph of three blocks, one elsewhere, a co-expression and the roots | what is reachable is kept, isomorphic and packed, and nothing else |
| `strings` | three variables, three bytes; and 200,000 calls of functions | variables keep their values through collections; functions make the strings they should |
| `operators` | three co-expressions; digits of two bits; strings of two characters; 65,000 values | transmission, arithmetic, assignment and conversion |
| `functions` | two variables of `map`, three subjects, values of all types, three operations on two files | `map`, scanning, order and sorting, files |
| `linker` | 30,000 programs of two files, two labels, 20,000 source programs | references, jumps and source text lead where they should |
| `error_value` | as `collector`, with `&errorvalue` | ends in a counterexample, section 6 |

The bounds are where the cases end rather than where time does.

- *Co-expressions.* Two beside `&main` let one clean or activate another while
  a third party waits. `MaxThreads` = 2 is a thread for each of them, so that
  this limit is never met here; `pthread_create` fails for want of resources,
  which it may do at every first activation (`CreateFails`). The proofs hold
  for every `MaxThreads`. Five pending activations of blocks of two records give a
  chain of two full blocks and a partial one, and are enough for activations
  that do not nest.
- *Sets and tables.* Six keys with chosen hash numbers (two equal; two that
  part at the first split, two at the second; in both orders) give every case
  of `hgnext`: a chain that splits once or twice, an element of equal hash
  number that defers the split, and a deleted element under the generator.
  `MaxCopies` = 1 keeps a deleted
  key from being inserted again only while a generator stands on its old block.
- *Lists.* Four elements in blocks of one and two slots wrap around, fill and
  empty blocks at both ends and meet in the middle; the smaller sizes that
  `put` tries when storage is short exist only for lists of sixteen times
  `MinListSlots`, so one size is tried here.
- *Programs of `frames`.* Every combination of alternation, conjunction,
  sequence, addition, limitation, `if`, `not` and `every` two deep over a
  generator, an effect and a failure; procedures that suspend, return, fail or
  call themselves, under fourteen kinds of calls; scanning nested in scanning
  and in procedures that suspend from it; loops left by `break`, `next`,
  `return` and `fail` from inside limits, cases and alternatives. Two levels
  are enough for each construct to be suspended in, resumed in and unwound out
  of each other one. `Fuel` bounds the depth of `Goal`'s search, and no program
  of these families reaches it; `MaxOut` leaves out the few that write more
  than twelve values. The programs have also been written as Icon source and
  run by a build of this repository, and write what `Goal` says.
- *Storage.* With a first region of 100, requests of 50 and 120, and memory of
  320, a request may fit, fit after a collection, need a region that can be
  added, that can be added only in a smaller size, or that cannot. Three
  regions give a ring on which `findgap` goes both ways. Three blocks suffice
  for pointers forwards, backwards, to themselves and several to one block.
- *Strings.* Three qualifiers in three bytes overlap, touch, are equal or lie
  apart; a list of qualifiers of two entries has to grow.
- *Numbers.* Digits of two bits make the corrections of long division, which
  are rare with digits of 32, common; the operands are every word and numbers
  about the boundaries of words and digits. The run has also been made with
  digits of three bits. Numerals have up to four digits with `MaxLong` = 1023,
  `MaxInt` = 31 and a mantissa that is big from 100 on, so that each bound of
  `ston` lies inside the range.
- *Functions and files.* A file of seven characters is longer than the pieces
  in which it is read, so that a line end may fall between two of them; three
  operations let a file be opened, changed and read again.
- *Programs of `linker`.* Two files may contradict each other in every way that
  three could; six lines of conditionals close, part and reopen two levels.

Sets of interchangeable values, variables, labels and `FILE`s are symmetry
sets; runs that check liveness use no symmetry.

**Fairness.** `CoSwitch!Fairness` is weak fairness of each thread's steps
inside `coswitch`, `nctramp` and `coclean`. These are steps of a runnable
thread under the system's scheduler, a `sem_wait` on a semaphore that is
positive and that nobody else waits for (each semaphore has one waiter), or a
`pthread_join` of a thread that has exited; POSIX promises that they happen.
`Frames!FairSpec` is weak fairness of the interpreter's next step: its loop
waits for nothing. Nothing is assumed of Icon code (`run`): a program may loop
for ever without switching.

## 4. Proofs

Each proof module `XProofs` is about `X` and holds for all values of its
constants that its assumptions allow. `OperatorProofs` is about two small
modules, `Transmission` and `MapCache`; `ProofLemmas` has what several of them
need of sequences and of sequences of activators.

| theorem | what it says |
|---|---|
| `CoSwitchProofs!TypeCorrect`, `MutualExclusion`, `CurrentRuns`, `SignalArrives`, `FlagWrittenInTime`, `ContextsInTime`, `VictimsLeave` | each safety property of the run `coswitch`, from `Invariance`, `Spec => []IInv` |
| `CoSwitchProofs!Refinement` | threads and semaphores implement `Coroutine` |
| `ActivationProofs!StacksInvariant` | `Spec => []StacksSound` |
| `ActivationProofs!ActivationImplementsStacks` | chains of blocks implement sequences of activators |
| `OperatorProofs!SlotsInvariant`, `TransmissionArrives` | `tvalloc` is the operand that waits; every transmission arrives there and nowhere else |
| `OperatorProofs!MapCacheInvariant` | types, and the table that `map` keeps is the right one |
| `HashTableProofs!TableSound` | `Spec => []Sound`: elements are found, counted, and not too crowded |
| `HashTableProofs!EachElementOnce` | a suspended generation produces every element that stays exactly once |
| `RegionsProofs!RegionsInvariant`, `ReservationsKept` | `Spec => []RegionsSound`, `Spec => []AdvanceKept` |
| `RegionsProofs!CollectionsNeeded` | `reserve` collects only when no region has room |
| `RegionsProofs!RegionsImplementArena` | regions, garbage and collections implement an arena that has neither |
| `ListsProofs!ListsSound` | `Spec => []BlocksSound`, for lists that are not made by concatenation |
| `ListsProofs!BangProducesAll`, `ListsImplementDeque` | `!L` produces what `put` adds; the chain of circular buffers implements a sequence; for the same lists |
| `StringSpaceProofs!StringsKeepValues` | addresses, shared characters and collections implement variables with values |
| `StringSpaceProofs!CollectionsCompact` | a collection keeps each character in use once, and nothing else |
| `StringSpaceProofs!AddressesInOrder` | `qsort` leaves the list in the order of addresses; all three for regions that an `int` spans |

None of the properties is inductive. What makes them so:

**CoSwitch.** That two threads do not run at once depends on a semaphore being
posted only for a thread that waits, which depends on where the threads on
their way to a post are going, which depends on `&current` and on contexts that
exist. `IInv` says all of it: there is exactly one token of control, held by a
thread or posted to a semaphore (`Exclusive`); a semaphore counts to one and
only for a thread that waits or starts (`Semaphores`); contexts, threads and
activator stacks come and go together (`Contexts`); a flag is written before
its thread can be posted, and is clear only between the first store of a
`coclean` and its join (`Flags`); `&current` and the signal are those of the
token's owner (`Globals`); a thread in `coswitch` and its target, and a thread
in `coclean` and its victim, are at matching places (`Switching`, `Cleaning`).
There is one lemma per action, with a step for each conjunct. The refinement
maps `holder` to the thread that has the token and `live` to the blocks whose
flag is not cleared; a post transfers control, `alccoexp` creates, the first
store of a `coclean` reclaims, and every other step is invisible.

**Activation.** Activations do not nest on any one stack: `c` may be on the
stacks of several others, and several times. But taken together they do. The
invariant has a witness that no variable holds, the *trail*: the sequence of
all pending activations in the order they were made. It begins with `&main`,
the activators of each co-expression are what the trail says of it, and
`&current` is at its end. A return therefore always finds an activator that
exists. Whatever is on the trail is reached by marking from `&main` and
`&current`, so that what a collection frees is idle: nobody's activator and
nobody's reference. `Balanced` (each co-expression is an activator as often as
it waits) is counting, by induction on the trail. For the refinement, the
chain of blocks `<<b1, ..., bn>>` stands for the concatenation of its records;
the lemmas say what `pushact` and `popact` do to that. Nothing is assumed but
that `&main` is a co-expression and a block has at least one record.

**Transmission.** The same trail, over plain sequences, shows that the receiver
of a return is suspended in an activation; `SlotsSound` relates its `tvalloc`
to the length of its operand stack, and the step property follows.

**MapCache.** The collector renumbers the strings that it keeps. `Rank` counts
how many kept strings lie before one and `At` is its inverse; the invariant says
that the kept arguments are descriptors of strings that exist, and that the
table was made from those strings; a collection moves both with all others, so
descriptors are equal after it exactly if they were before.

**HashTable.** Of the structure itself the invariant says little more than
`Sound`: chains are in the order of hash numbers, no key is there twice, each
element is in the chain of its slot, and `Uncrowded` holds (`TabOK`, `Loaded`).
The work is in what a chain becomes (`LinkedIs`, `UnlinkedIs`, `GrownIs`,
`HalvedIs`): which elements it has, and which of them come before which. A
union is tested for crowding only once, but it adds no more elements than there
were, so that it is at most twice too crowded, and one doubling is enough;
`hshrink` cannot go too far since `MaxHLoad >= 2 * MinHLoad`.

The invariant of a generation (`Track`) has three witnesses that no variable
holds. `p` is the *path* from the element produced last along the stale `clink`s
of deleted blocks to the first block that is still in the structure, or to none:
all stale blocks are on it, their hash numbers ascend, and all of them were in
the generator's chain under `tmask`. `kg` is the segment that was the last one
when the generator looked last (`tmask + 1 = Slots[kg]`), and `k0` the one that
was the last when it began: segments from `k0 + 1` to `kg` have a note, and each
note is shared by the segments that one or more splits made in between
(`Notes`). A note is the mask and the hash number at which the generator stood,
and `Past` orders hash numbers by residue and then by size, which is the order of
a generation under that mask; `Unpassed` says that a hash number lies beyond
every note. Then all elements that must still be produced are in the structure,
unpassed, and not before the generator's place (`Owes`), those in its chain come
after the end of the path (`Follows`), and whatever it may still meet has not
been produced (`Grants`). `EntryIs` shows that `hgnext` enters a chain at the first of
its unpassed elements, although it reads only the notes of the segments from the
chain's own down: the notes of later segments compare the residue of the whole
slot, which is beyond them already, or are the note of that segment. `NotedIs`
shows that making notes turns "beyond the generator's place" into `Unpassed`.
`HgnextIs` combines the two: the next element is on the path, in the old chain
past the hash number reached, or the entry of a later chain.

Of the constants the proofs need a finite set of keys, hash numbers in `Nat`,
`HSlots >= 2` and `MaxHLoad >= 2 * MinHLoad`; `&` with a mask is `%` in the
model, which is right for powers of 2.

**Regions.** Regions are numbered in the order they were made, `next` leads from
each to the following one, `prev` back, and the global chains run the other way
(`Ringed`); so the loop of `findgap` from any `pcurr` comes to every region.
While `reserve` is in a loop, what it has passed has no garbage or could not be
collected (`Collected`): this makes a refusal justified, and is what maps it to
`Arena`'s. `Asked` relates `want` and `nbytes`, `InAdvance` what the program
holds to what is used. `Along` and `Sizes` are recursive functions; the proofs
exhibit their values and show uniqueness by the least counterexample.

**Lists.** The witness is the path `p` of the blocks from `listhead`: a sequence
without repetitions that ends at `listtail`, with `listnext` and `listprev`
leading along it both ways and no further (`Chain`). `BlocksSound` is not
inductive, as it does not say which blocks may be empty: `get` skips one empty
block, and would take the next for one with elements. The invariant says that
only the two end blocks may be empty, that every block of the path has a slot,
from which follows that a block is not both full and empty, and that the blocks
off the path are empty (`Filled`). For `!L`, `BangOK` says where `ep` and `i`
stand: while only puts have come between, `produced` is the number of elements
in the blocks before `ep` and of those up to `i` in it. After any other change
`ep` may be a block that `get` or `pull` has left behind, and nothing more is
claimed. `Contents` concatenates the buffers along the path, and the lemmas say
what a change to a block, or to an end of the path, does to that concatenation.

The theorems on lists suppose that `"lconcat"` is not in `MadeBy`. The condition
cannot be dropped: `[] ||| []` makes a block without slots, and section 6 shows
what follows.

**StringSpace.** The invariant of the states is short (`SpaceOK`): a string is a
literal, or lies between `strbase` and `strfree`. The work is in one step, since
`Collect` is all of `scollect`; `PassOK` is the invariant of its loop over the
sorted list. After `n` qualifiers each of them is either *settled*, with its
characters below `dest`, or *waiting*: relocated already, while its characters
still are between `source` and `cend`, to be moved with the clump. From `source`
on memory is as it was before the collection, because `dest` never passes
`source`; that is where the order of the list is needed, and where a clump that
ended too early (`cend` is a maximum) would leave characters behind. `CoverOK`
counts: the addresses that the first `n` strings cover are `dest - strbase`
below `source`, and all from `source` to `cend`. When the last clump has moved
this is `Compacted`. What the operations do needs only that two strings have the
same characters if memory agrees below `strfree`, and that a concatenation of
adjacent strings, or one that grows the last string, has the text of both.

These theorems suppose `RegionFits`: every difference of two addresses of the
region is the same as an `int`. The comparison of `qsort` requires it, and
section 6 shows an unsorted list where it does not hold (`OrderedByLocation`
with `IntBits = 2`). In the run it holds, for `ssize = 3` and `IntBits = 8`.
`qualsize`, which powers of two change, has its type from TLC only.

Induction in these proofs is over the natural numbers, through the least
element of a set, because the provers cannot instantiate a theorem that takes
an operator; what a recursive function returns is shown by exhibiting a function
that satisfies its equations and proving that there is only one. The inductive
invariants of `CoSwitch`, `HashTable`, `Regions` and `Lists` have also been checked by TLC, on
the instances of the runs; `SpaceOK` is part of the `TypeOK` that the run
`strings` checks.

What only TLC checks:

- liveness (`SwitchCompletes`, `CleanCompletes`, `Ends`) and everything about
  `ENABLED`, which the provers do not handle;
- modules with recursive operators, about which nothing can be proved here:
  `Goal` and with it `Frames`, `Icode`, `Ordering`, `Preprocessor`, `Files`,
  `StringFunctions`; and `LargeInt` and `Arithmetic`, which use bitwise
  operators;
- the other modules so far (section 7).

## 5. Not modelled, and why

- Values of tables, csets, records: carried along, nothing depends on them.
- Arithmetic on reals, operations on csets: the C library's, or one loop.
- Tended descriptors of C functions: the translator `rtt` generates them, and
  that each function keeps no pointer across an allocation without tending it
  is a property of each function's text.
- The translator front end (scanner, parser, symbol tables) computes on text
  step by step, and is in part generated. Of the code it generates, `Icode` has
  that for control structures; instructions that only push or apply are left
  out, as are invocation by string or integer, argument lists of other lengths,
  `apply` and field references in `Frames`.
- `rtt/` and `preproc/` build the run-time system and are not part of it.
- Graphics, dynamic loading, tracing and profiling: their state is the
  environment's. Of the keywords there are `&source`, `&subject`, `&pos`,
  `&current`, `&main` and `&errorvalue`.
- In the linker, constants, the string space, line number tables and the
  reading of ucode; in the preprocessor, comments, the characters that words
  are made of, predefined symbols, the search along a path, and `-E`.
- Failure to allocate a hash segment (the structure then stays as it is), and
  errors that stop the program with a message.

## 6. Where the code disagrees with itself

`PROJECT.json` quotes, for each of these, the comment and the code. The run
`error_value` shows the first; each of the others is a definition that is false
of its module, which TLC shows when it is named as an `INVARIANT` (or
`PROPERTY`) in the configuration given. The properties of the passing runs
leave these cases out, and say so.

| definition | configuration | what happens |
|---|---|---|
| `AccessibleMarked` | `ErrorValue.cfg` | a collection does not mark the value of `&errorvalue` |
| `SweepStartsKnown` | `Activation.cfg` | a collection between `alccoexp` and `co_init` sweeps a stack from frame pointers that nothing has set |
| `OnlyResultOverwritten` | `MCOperators.cfg` | `v @ &current` leaves `tvalloc` set: `[1 @ &current, 2 @ &current, 3 @ &current]` is `[2, 3, 3]` |
| `NoWildStore` | `MCOperators.cfg` | `tvalloc` of `&main` is not initialised, and the first `v @ &current` tests and follows it |
| `EndsHoldElements` | `MCLists.cfg`, `MadeBy = {"lconcat"}` | `[] ||| []` has a block without slots, from which `get` may later take an element |
| `GoalReset` | `Regions.cfg` | `reserve` does not reset its goal, and collects regions in vain |
| `OneRegion` | `Regions.cfg` | what `detab` reserves may not suffice, and its result lies in two regions |
| `OrderedByLocation` | `MCStrings.cfg`, `IntBits = 2` | `qlcmp` casts a difference of addresses to `int` |
| `MapsByArguments` | `MCFunctions.cfg` | a call of `map` that failed leaves arguments whose table was not made |
| `FieldsFound` | `MCLinker.cfg` | the records of a field are not in order after renumbering, and a field is not found |
| `A!BitsExact` | `MCOperators.cfg` | `iand`, `ior` and `ixor` of negative large integers lose a digit when the complement is all zero |
| `A!TobyStops` | `MCOperators.cfg` | `i to j` at the last word goes on from the first |
| `A!ShiftsAsSaid` | `MCOperators.cfg` | the comment has the directions of `ishift` the wrong way |
| `T!ExchangesElements` | `MCOperators.cfg` | parts of one table element are exchanged as if they lay in two variables |
| `T!ReversesAll` | `MCOperators.cfg` | undoing leaves an element in a table that did not have it, and `&pos` at 1 |
| `T!AllOrNothing` | `MCOperators.cfg` | an exchange with `&pos` may fail half done |
| `T!NeverWild` | `MCOperators.cfg` | overlapping parts of one string: a position before its beginning |
| `PP!LiteralsKept` | `MCLinker.cfg` | the end of a continued literal is taken for the beginning of one |
| `PP!CircularOnly` | `MCLinker.cfg` | `$line` renames a file for the test for circular includes |
| `NotTooLong` | `MCStrings.cfg` | the product that `repl` checks wraps |
| `ExponentsFit` | `MCOperators.cfg` | an exponent that no `int` holds wraps: `1e4294967297` is 10.0 |
| `IntegersFit` | `MCOperators.cfg` | 2.0^63 becomes the most negative integer |
| `ErrorsReported` | `MCFunctions.cfg` | a write to a full disk succeeds, and the next one is an error |
| `WritingMarked` | `MCFunctions.cfg` | nothing sets `Fs_Writing` |
| `FromOwnFile` | `MCFunctions.cfg`, `MaxOps = 4` | a resumed `!f` may read from the file that has got the closed `FILE` |

(`A!`, `T!` and `PP!` name the instance in the MC module; a definition of one
line there makes it a name that a configuration can mention.)

Further remarks. `cpuconf.h` allows `HSlots` = 1; `hgnext` would then produce
elements twice, since a `sgmask` of 0 means that there is no history
(`rstruct.r`, line 325), and the assumption on `HSlots` excludes it. `tcode.c`
(line 490) removes no marks for a `next` in the control expression of an
`every`, and where a frame has been marked the failure that follows ends that
frame rather than the iteration; no program of `frames` has one. The numeral
`0e400` is refused, and the written form of the largest reals cannot be read
back.

## 7. Plan

Still to be proved: `Collector!CollectsRightly` and `Labels!JumpsLand`.
