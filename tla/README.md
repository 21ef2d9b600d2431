# TLA+ models of *Hands-on System Programming with Linux*

The repository is the code of a book: about 130 small C programs, chapter by
chapter, sharing only `common.c` and `common.h`.  There is no single system to
model.  What the programs have in common is what makes them worth modelling:
threads that share memory, processes that share files, signals that interrupt,
and cleanup that must happen exactly once whatever failed.  This directory
models the programs where that matters, family by family, checks them with TLC
on small instances, and proves the most important invariants with TLAPS for
every instance.

## 1. Inventory

| Component | State it keeps | Operations | Interaction, and what is hard | What makes it correct |
|---|---|---|---|---|
| `solutions_to_assgn/ch15/bankacc.c` | balance, mutex | deposit, withdraw, create, join, close | threads race on the balance; check-then-act in `withdraw` | the locked program is serial; credit floor; mutex lifetime |
| `ch15/cv_simple.c` | predicate, condition variable, mutex | wait, signal, join, destroy | lost signal, spurious wakeup | A continues only, and always, after B's work |
| `solutions_to_assgn/ch18/mt_copy.c` | source, destination, parameters per thread | divide, pread/pwrite loops, join | parallel writers without a lock; short and failing transfers | segments partition the file; failures stay local |
| `ch16/mt_iobuf_mtx.c`, `mt_iobuf_rfct.c`, `mt_iobuf_tls.c`, `cleanup_hdlr.c` | global or own buffer, mutex, streams | read/write loop, cancel, cleanup handler | critical sections, failure and cancellation together | no block lost or repeated; a buffer is freed exactly once |
| `solutions_to_assgn/ch16/mt_primes2.c` | parameters, buffers, `gCanceledThread` | generate, cancel, handler, merge, cleanup | a flag written by a dying thread decides what main frees | no use after free; no composite is printed, no worker's output lost |
| `common.c`, `common.h` | - | `handle_err` (FATAL, WARN), `LOCK_MTX`, `r_sleep` | FATAL ends all threads at any point; it returns when out of memory | restart of an interrupted sleep sleeps the full time |
| `ch15/mutex1.c`, `facto.c`, `pshared_mutex_demo.c` | counters, a process-shared mutex | lock, update, unlock, wait | a lock holder may die | the lock is free again; the result is a factorial |
| `ch14/pthreads*.c`, `solutions_to_assgn/ch14/*` | thread states | create, join, detach, timed join | main exits before its threads | every joinable thread is joined once |
| `ch16/cancelit.c`, `tsig.c`, `pthreads_app_template.c` | signal masks, threads | sigwait, cancel, join | which thread takes a signal; a join that never returns | signals reach the handling thread only |
| `ch10/simpsh_v1..v3.c` | parent, child, wait status | fork, exec, wait | children that end before or after the wait | the prompt follows the child's death; in v3 also its stop, and then a child is left |
| `ch10/fork_r6_of.c`, fork bombs, zombie demos | shared file offset, process table | fork, lseek, write | parent and child move one offset | lines land where the offsets say |
| `ch11`, `ch12` signal programs | mask, pending set, handler stack | sigaction, raise, queue, sigwait | nested and lost signals, overflow of queues | masked signals wait; real-time signals queue |
| `ch12/sigq_ipc` | one-message mailbox | sigqueue, handler, poll | message overwritten before it is displayed | what is displayed was sent |
| `ch13` timers | interval timers, game state | arm, expire, user key | expiry races with the event it measures | one outcome per round |
| `B_daemon/daemon_trad.c` | session, descriptors, cwd | fifteen steps | partial failure | not a session leader, std descriptors open |
| `A_fileio/simpcp1.c`, `simpcp2.c` | two files | read/write loop | short transfers, existing destination | copy equals source |
| `ch18/sgio_simple.c`, `mmap_file_simple.c` | six buffers, a mapping | allocate, writev, unwind | partial failure | everything is freed once |
| `ch7`, `ch8` credentials and capabilities | uid triple, capability sets | seteuid, cap_set_proc | privilege that comes back | what is dropped for good stays dropped |
| `ch3/rlimit_primes.c`, `ch17` scheduling | CPU limit, thread policies | setrlimit, sched_setscheduler | a thread id used before it is stored | the intended thread changes policy |
| other chapters (memory bugs, exec, formatting demos), scripts, texts | - | one system call each | - | not modelled: no state to model |

`PROJECT.json` lists the same components with their sources and status, and
every hazard at the line where it bites.

## 2. Modules

| Module | Models | Kind |
|---|---|---|
| `BankOps` | `deposit`, `withdraw` as functions of the balance | operators |
| `AtomicBank` | what the bank promises: indivisible transactions, one closing balance | abstract specification |
| `BankAcc` | `bankacc.c` | detailed specification, refines `AtomicBank` |
| `MCBankAcc` | an instance for TLC | |
| `BankAccProofs` | theorems about `BankAcc` | proofs |
| `CvSimple`, `CvSimpleProofs` | `cv_simple.c` | specification, proofs |
| `MtCopy`, `MtCopyProofs` | `mt_copy.c` | specification, proofs |
| `MtIobuf`, `MtIobufProofs` | the four IO loops; the program is the variable `variant` | specification, proofs |
| `MtPrimes2`, `MCMtPrimes2`, `MtPrimes2Proofs` | `mt_primes2.c` | specification, instance, proofs |
| `MCThreads` | the five programs above in one specification | composition, for TLC |
| `SimpCp` | `simpcp1.c`, `simpcp2.c` | specification |
| `Shells` | `simpsh_v1.c`, `simpsh_v2.c`, `simpsh_v3.c` | specification |
| `SharedOffset` | `fork_r6_of.c` | specification |
| `Daemon` | `daemon_trad.c` | specification |
| `SgFile` | `sgio_simple.c` | specification |
| `Privileges` | `savedset_demo.c`, `set_pcap.c` | specification |
| `React` | `react.c` | specification |
| `Timers` | `alarm1.c`, `alarm2_rep.c`, `intv_clksimple.c`, `runwalk_timer.c`, `3intv.c` | specification |
| `SigCount` | the counting handlers of `defer_or_not.c`, `altstack.c`, `segv_altstack.c`, `rtsigs_waiter.c` | specification |
| `SigIpc` | `sigq_sender.c`, `sigq_recv.c` | specification |
| `FaultHandlers` | the handlers of fatal signals in `handle_segv.c`, `segv_altstack.c`, `sigtmwtinfo.c`, `altstack.c`, `sigwt.c`, `pthreads_app_template.c` | specification |
| `SigThreads` | the signal handling thread of `tsig.c` and `pthreads_app_template.c` | specification |
| `ThreadLife` | creation, parameters, joins and cancellation: `ch14`, `cancelit.c`, `mt_primes1.c` | specification |
| `SharedMutex` | `pshared_mutex_demo.c` | specification |
| `LockDemos` | `facto.c`, `mutex1.c` | specification |
| `SchedThreads` | `assgn2.c`, `sched_rt_eg.c` | specification |
| `MCPrograms` | the sixteen modules above in one specification | composition, for TLC |
| `ProcessProofs` | theorems about `Privileges`, `Shells`, `Daemon`, `SharedOffset`, `SimpCp`, `SgFile` | proofs |
| `SignalProofs` | theorems about `React`, `SigCount`, `SigIpc`, `FaultHandlers` | proofs |
| `ProgramsProofs` | theorems about `ThreadLife`, `SchedThreads`, `LockDemos`, `Timers`, `SigThreads`, `SharedMutex`, and about `MCPrograms` | proofs |

Conventions.  Every thread has a control point (`pc[t]`, `main`).  A step is an
access to shared state, a blocking call, or a stretch of code that touches
nothing shared.  `FATAL` is the end of the process, so every worker step has
the guard `Alive` and main moves to `"fatal"`.  Printing is left out, except
that it is a cancellation point.  Definitions that begin with "Mutant of" in
their comment are deliberately wrong versions of the definition after them;
they show that the properties notice such a bug and are not part of any
specification.  Modules that one specification brings together use different names:
a prefix (`Cv`, `Mt`, `Io`, `Pr`, and those of the sixteen below) marks a name that
would otherwise be in two of them, such as `MtNext` or `IoTypeOK`.

### BankAcc

`gBalance += amt` is a load and a store; the guard of `withdraw` reads the
balance in a step before.  The script of operations is a constant, so that an
account can be driven into the circuit breaker, which the two scripted threads
of the shipped program never reach; the number of threads is a constant too.
`AtomicBank` has one action per transaction.  The refinement maps the balance
to `Settled`: the value the current owner of the mutex will leave behind, so
the linearisation point of a thread is its `LOCK`.

### CvSimple

`pthread_cond_wait` is split into release-and-block, wakeup, and re-acquire.
`Signal` wakes thread A only if it is blocked at that moment.  A spurious
wakeup may occur while A is blocked; there are at most `MaxSpurious` of them.

### MtCopy

Each `pread` and `pwrite` is a step.  The destination is a pair of sets of
offsets: those that hold the right byte and those that hold a wrong one.
`start_offset`, `len` and `rem` are the code's arithmetic.  The file size and
number of threads are chosen initially, as the command line and the source
file would.  In a run with `short` TRUE a transfer may return any positive
count up to the one asked for; `fd_read` and `fd_write` then repeat the same
offset and buffer, and `good` is the prefix of the buffer that holds data.

### MtIobuf

The state of each buffer is `none`, `live`, `freed` or `corrupt` (freed twice).
`content` is the number of the block a buffer holds.  In "mtx" all threads use
`Shared` and each transfer is done under `mylock`, taken and released for each
transfer, as the code does.  `Cancelled` is possible at every cancellation
point between push and pop of the handler, including the message that
`handle_err` prints after a failing write.

### MtPrimes2

`Primegen` is the trial division of the source, evaluated on small ranges.
Only `nanosleep` and `printf` are cancellation points of a worker; the
handler locks, records its thread number, unlocks and frees.  Main's loops
share one index, as `Loop` says.

### MCThreads

The five programs above share nothing.  `threads` is the one that runs; the others
keep one of their initial states, so the state space is the sum of the five and not
their product.  Main's steps and each worker's are weakly fair, as in each module's
own specification.  The modules' specifications stand on their own as well: the
runs that end in a violation, and the proofs, are about those.

### The stand-alone programs, and MCPrograms

Sixteen modules model programs that share nothing with each other.  Each has
its own variables, `Init`, `Next` and properties, under a prefix of its own;
where several programs of the book are variants of one idea, the variant is a
variable chosen initially (`tmProg`, `scProg`, `tlProg`: a record of what the
programs differ in).  `MCPrograms` extends all of them: `program` is the one
that runs, the others keep an initial state.  The state space is therefore the
sum of the sixteen, not their product, and one run checks them all.

* **SimpCp.**  A file is a sequence of byte numbers.  `cut` remembers that a
  transfer was short before the end of the file; then `simpcp2`'s wrappers
  repeat the request into the same buffer, as `mt_copy`'s do.  The destination
  may be older and longer: it is not truncated, so its tail survives.  What the
  program writes is right (`CopyFaithful`); what its documents promise beyond that
  it does not keep (`DestOverwritten`; and the retry
  of a short transfer, which `CopyComplete` judges in `mt_copy`).
* **Shells.**  The kernel keeps one status per child; `WaitNews` is the return
  of `waitpid` in version 3 for a child that stops or goes on.  `taken` counts
  those: the children left at a later prompt are as many.  A stopped child may be
  killed (`Kill`), and a wait may fail (`WaitFails`).
* **SharedOffset.**  One offset for parent and child, and numbered lines.  `overlap`
  says that both were between their seek and their last line, `last` who made the
  last seek: its lines survive any interleaving.
* **Daemon.**  Each fork copies descriptors, handlers, session and terminal
  (`Child`).  A failure returns from the function and main exits.  The original
  exits after its fork, whatever becomes of the others.
* **SgFile.**  The four buffers with their unwinding labels, and the file as a
  sequence, written by three seeks and writes or by one `writev`.
* **Privileges.**  Real, effective and saved id, effective and permitted
  capabilities, and the kernel's rules that tie them.
* **React.**  No handler masks another's signal: `stack` holds the handlers that
  were entered, the last one first, and only that one moves.  The player may press
  ^C before the alarm is set, and a call of a handler may fail.
* **Timers.**  One timer model (pending at most once, one-shot or interval), and
  per program: which timers, what it does after `pause`, whether it computes.  A
  signal handled before `pause` ends no pause.
* **SigCount.**  `s++` and `t++` are loads and stores inside handlers that nest
  (SA_NODEFER) or are deferred or queued.
* **SigIpc.**  Sender's probe and `sigqueue`, a bounded queue, one global record,
  and main's test, two-part display and reset, between which the handler runs.
* **FaultHandlers.**  Whose stack the handler runs on, that its own signal is
  blocked meanwhile, and what `raise`, `abort`, `exit` or a return do then; `reports`
  counts the diagnostics, without a bound.
* **SigThreads.**  Who blocks the signals when they come, who takes them with
  `sigwait`, and the joins of the template.
* **ThreadLife.**  A record per program: how the parameter is passed, how main
  waits, when it frees, how it ends; cancellation with a disabled prologue.
* **SharedMutex.**  A thread and a child on one mutex; the child may be killed at
  any point.  Segments of shared memory outlive the process.  The child's message
  takes 19 bytes and its pid: one of six digits or more (`longPid`) ends on the
  thread's signature, and the later writer cuts the other's part (`"cut"`).
* **LockDemos.**  Lists of updates to globals, each a load and a store.  `Factorial`
  is what the locked workers of `facto.c` are to print.
* **SchedThreads.**  Requests to the kernel that it may refuse, thread ids that
  are stored late, and what is displayed after.

## 3. Runs

| Run | Instance | States | Shows |
|---|---|---|---|
| `threads` | `bankacc`: 3 threads, opening 7, minimum 2, withdrawals of which no two fit; `cv_simple`: up to 3 spurious wakeups; `mt_copy`: 2..3 threads, sizes 0, 1, 3, 5, full and short transfers; the IO loops: 4 programs, 2 threads, 2 blocks each, failing writes, cancellation; `mt_primes2`: ranges 1..12, 13..25, 40..49, cancelled or not; calls that may fail in all | 24303 | refinement of `AtomicBank`; the wait loop; partition of the file; block conservation; memory freed once; every program ends |
| `cv_lost_signal` | 1 spurious wakeup | violation | A can wait forever: it does not test the predicate first |
| `mt_copy_short` | 2 threads, size 4, short transfers | violation | the retry loops do not advance |
| `mt_iobuf_blocks` | "mtx" | violation | blocks lost and repeated |
| `cleanup_double_free` | "cleanup", failing writes | violation | freed by the failing path and by the handler |
| `mt_primes2_merge` | no cancellation | violation | worker 0's output is dropped |
| `mt_primes2_one` | the ranges of `threads` | violation | 1 is printed as a prime |
| `programs` | the sixteen families, bounds in `Programs.cfg` | 25943 | file contents, prompt balance, detachment, privileges, verdicts, signals, threads; four liveness properties |
| `template_core` | every program of `FaultHandlers` | violation | the template exits before the raised signal is delivered |
| `dest_overwritten` | `simpcp1`, `simpcp2`, bounds of `programs` | violation | the tail of a longer destination survives |
| `daemon_mask` | one signal blocked by the caller | violation | the daemon still blocks it |
| `alarm_repeats` | the timer programs, with their fairness | violation | `alarm2_rep` sleeps for good after an early alarm |

What the properties of `threads` say (beside `ThreadsTypeOK`, the types of the five):

| Property | Module | Claim |
|---|---|---|
| `CreditFloor`, `Serializable` | `BankAcc` | the account never falls below the minimum, and deposits and withdrawals are those of some serial order |
| `MutexLifetime` | `BankAcc` | the mutex is initialised before and destroyed after every use |
| `ContinueAfterWork`, `WaiterServed` | `CvSimple` | A continues only after B's work; an A that waits when B signals does continue |
| `NoUseAfterDestroy` | `CvSimple` | mutex and condition variable outlive both threads |
| `WritersDisjoint`, `FailureIsLocal` | `MtCopy` | no byte is written by two workers or past the source's size; a failing call costs its own segment only |
| `ParamAlive`, `BufferFreed` | `MtCopy` | parameters are freed after their worker ended, buffers on every return but that of an empty segment |
| `OwnBufferKeepsBlocks`, `CountKept` | `MtIobuf` | with a buffer per thread no block is lost or repeated; in every version the number of blocks written is right |
| `MemorySafeUnlessFault`, `NoLeak` | `MtIobuf` | buffers are used while allocated and freed once, except after a failing write; a worker that has ended, cancelled or not, holds none |
| `PrMemorySafe`, `NoLeakAfterCancel`, `AloneAtCleanup` | `MtPrimes2` | what main skips and frees by `gCanceledThread` is what the handler has freed and has not; main reads it when nobody can write it |
| `PrimesNoComposites` | `MtPrimes2` | no composite number is printed and no prime of a merged range is missing |
| `BankCloses`, `CvEnds`, `CopyEnds`, `IobufEnds`, `PrimesEnd` | `MCThreads` | the program that runs ends; `cv_simple`, unless A begins to wait after the signal |

What the properties of `programs` say:

| Property | Module | Claim |
|---|---|---|
| `FileContents` | `SimpCp`, `SharedOffset`, `SgFile` | what is copied is the source from its start, and all of it, unless a transfer is cut; lines are at their writer's place when the writers do not overlap, and the last to seek loses none when they do; both ways of `sgio_simple` leave the drawn layout; a failed setup keeps no buffer |
| `PromptBalance`, `ShellReturns` | `Shells` | no child, dead or alive, at the prompt but for the stops taken for deaths; version 3 always comes back from a wait |
| `DaemonDetached` | `Daemon` | no terminal, no leadership, no inherited descriptor or handler, whatever the caller had |
| `PrivilegeOrder` | `Privileges` | what is dropped for good stays dropped, and nothing that is still needed is lost first |
| `FairVerdict` | `React` | who waits for the message is never told to have jumped the gun; no press counts before the timer is armed; the time of a press after `startoff` runs from start to press |
| `SignalsAccounted` | `SigCount`, `SigIpc`, `FaultHandlers` | counted (nested ones may count short), displayed unless replaced or late, a fault reported at most once and never gone on from |
| `ThreadsKeepTheirOwn` | `ThreadLife`, `LockDemos`, `SchedThreads` | a thread's parameter, result and policy are its own |
| `TimersTick` | `Timers` | a timer that is on comes to run its handler; the programs with an interval timer and `runwalk_timer` tick on until they exit; `runwalk_timer` keeps the period it is in |
| `SignalsTaken` | `SigThreads` | masked signals kill nobody, and the handling thread takes each |
| `SharedMutexEnds` | `SharedMutex` | main ends with both segments removed unless a call fails or the child dies inside the lock; what it displays was written to the end, and of two parts that overlap one is whole |

Bounds.  Two workers show every pairwise race; the bank has three, so that an
operation of a third can fall between two others.  Two blocks per worker let a
thread come back to the shared buffer.  The sizes of `mt_copy` give empty
segments (0, 1), an exact division (3 by 3), and remainders of one and two
(5 by 2 and 3).  Three spurious wakeups let A be woken before, during and after
B's critical section.  The prime ranges have limits above 6, as the program's
have: below that the loop bound `limit/2` accepts 4 as a prime.

Bounds of `programs`.  Sources of 0, 1, 2, 3 and 5 bytes with blocks of two give
an empty file, a partial block, a whole one, and remainders; an older
destination of 4 bytes is longer than some and shorter than others.  Three
children and three stop or continue signals let a shell miss a child twice.
Three lines per writer leave room for a foreign line between two.  Descriptors
0..7 with a limit of 6 lie on both sides of the limit.  Four signals and
`MAX` 3 make the counter wrap inside nested handlers.  Three messages and a
queue of two let one be refused, one replace another, and one come late.  Three
signals sent to two threads beside the handler repeat and mix both kinds.  The
other programs have the sizes of their source.

Fairness.  Every thread that can take a step eventually takes one (weak
fairness per thread): the kernel schedules all runnable threads of the process,
and no program changes the policy of a thread.  No mutex is contended for
forever, since each thread locks a bounded number of times, so strong fairness
is not needed.  Failures, spurious wakeups and cancellation points are never
forced.

In `threads` this is the fairness of the program that was chosen: its main thread and
each of its workers.  In `programs`, four modules state fairness, each for the part of the system
that must move: `ShFairness`, that the shell's wait returns when it can and
that a child ends unless it is stopped, but never that anybody types a command
or resumes a stopped child; `TmFairness`, that main and its handlers run and that the real and POSIX
timers expire (the virtual and profiling timers count CPU time, which nothing
promises to a sleeping program); `StFairness`, that the threads run, that the
workers' work ends and that main's creation loop goes on; `PsFairness`, that
main from its wait on, the thread and the child run.  All are weak.  The other modules have only
safety properties and state none.  A program that was not chosen has no enabled
step, so its fairness asks nothing.

Deadlock is not checked: each of these programs ends, and a finished process
has no step.  That nothing stops before the end is what the liveness
properties (`BankCloses`, `CvEnds`, `CopyEnds`, `IobufEnds`, `PrimesEnd` and those of
`programs`) say instead.

## 4. Proofs

TLAPS proves every invariant that the passing runs check, and the two action
properties among their temporal ones (`Serializable`, `AloneAtCleanup`), for
every value of the constants.  In each component the argument is an inductive
invariant, which a module with the specification states (so that TLC can check
it too) and the proof module establishes action by action.  The assumptions are
the named ones of the modules and nothing else, but where the list says so.

* **BankAcc.**  `IInv` adds to the types: who is inside the critical section is
  the owner (`Exclusive`); a balance that was tested or loaded is still current
  when it is stored (`Fresh`); main's position determines which workers exist
  and have ended (`Progress`).  `Exclusive` is what makes `Fresh` inductive,
  `Fresh` makes `CreditFloor` so, and `Progress` makes `MutexLifetime` so.
  `SerializableHolds` maps `Lock` to `Transact` and `Close` to `Close`, every
  other step to a stutter.  Assumption: `BankAssumption` and `Locking`.
* **CvSimple.**  `CvInv`: the mutex is with the thread that is inside; `gWorkDone`
  is true exactly after B's assignment; A past its loop means B past its signal.
* **MtCopy.**  `Segments`: with `len = fsize / numthrds`, the segment of a worker
  ends before the next one begins and the remainder ends with the file, from the
  properties of division and monotonicity of multiplication.  `WholeSegment`
  (a call without short transfers reads its whole segment) turns that into
  `WritersDisjointHolds`.  `MtProgress` gives `ParamAliveHolds`.
  `CopyInv` adds what has happened to the file and the buffers: without short
  transfers a buffer is full of source bytes when it is written (`FullBuffer`), so
  what has returned without an error is in place (`Landed`); an allocated buffer
  is in use or belongs to an empty segment (`Buffers`); the last worker ends with
  both its calls made (`Joined`).  Each byte lies in the region of the one call
  that `CallOf` names, again by division.  `FailureIsLocalHolds` and
  `BufferFreedHolds` follow.
* **MtIobuf.**  `IoInv`: main's position tells which workers exist and have ended
  (`IoProgress`); only worker 1 of "cleanup" can be in the handler (`Control`); a
  worker's control point determines the state of its buffer (`IoHeap`); with
  buffers of their own the workers hold different blocks, none of those about to
  be written is in the file yet, and every block read is in the file, held, or
  the one that went with the cancelled worker (`Carried`).  `MemorySafeHolds`,
  `NoLeakHolds` and `OwnBufferHolds` follow, the last with the theorem on the
  cardinality of subsets.  For `CountKeptHolds` the sum of the workers' turns is
  written as the cardinality of the set of pairs of a worker and a turn it has
  made (`Counted`): a turn adds one pair and one block.  Assumption:
  `MtIobufAssumption`.
* **MtPrimes2.**  `PrimegenExact`: a composite number up to the limit has a divisor
  below `limit/2` once the limit is 6 or more, so trial division up to there
  leaves the primes, and 1.  `PrInv`: main's position and index say which workers exist
  and have ended (`PrProgress`); `gCanceledThread` names the victim from the moment
  its handler says so and before it frees (`Told`); every worker's memory has the
  one state that follows from these two (`PrHeap`); an ended worker holds what
  `simple_primegen` prints (`Computed`).  All four safety properties and
  `AloneAtCleanup` follow.  Assumption: `MtPrimes2Assumption`; the theorem on the
  output, `PrimesNoCompositesHolds`, also assumes that every range ends at 6 or
  beyond, and says nothing of 1.

The stand-alone programs, each for its own specification:

* **Privileges** (`PvInv`).  The three ids and two capability sets at each control
  point, for the two programs apart.
* **Shells** (`ShInv`).  A report that is due is of a child that has not ended, and
  reports due and taken together are at most the stops sent (`ReportsSent`): that
  makes the count of children at the prompt inductive for any set of children.
* **Daemon** (`DmInv`).  What the original, the first child and the daemon have got
  rid of at each step (`DmStages`), since each fork copies the parent's state.
* **SharedOffset** (`OfInv`).  Where the two do not overlap, at most one of them
  writes and the offset is where its next line belongs (`OfStages`); what is left
  to write fits behind the offset (`OfRoom`).  For `LastSeekerKeepsLines`: after a
  seek the offset only grows, so no later write reaches back to a line of the last
  seeker.
* **SimpCp** (`CpInv`).  The bytes read and not yet written lie at the start of the
  buffer, and the file positions are apart by as many (`CpInStep`), while no
  transfer was cut.
* **SgFile** (`SgInv`).  What each stage of the setup has allocated (`SgMemory`), and
  that the file is as far drawn as the stage says (`DrawnTo`); for `writev` that
  the segments of the vector begin where the drawing has them.
* **React** (`ReInv`).  Of two handlers on the stack one is `startoff` and the other
  `userpress` (`Nesting`); how far each has come determines the flags and times
  (`StartProgress`, `PressProgress`).
* **SigCount** (`ScInv`).  A count, and what a handler has loaded of it, is at most
  the handlers entered less those that have not counted (`Behind`); where nothing
  nests it is equal (`Exact`).
* **SigIpc** (`SiInv`).  The record is of one message; what main is displaying is of
  the message in the record, or that one is late (`Displaying`).
* **FaultHandlers** (`FhInv`).  SIGSEGV keeps its handler until it is reported; the
  raised signal waits for the handler's return.  Only an unreported fault is
  delivered to a handler, so `reports` never exceeds 1.
* **ThreadLife** (`TlInv`).  A thread that has not started reads its own or a later
  number (`TlStarted`); a block is freed only after every reader of it has ended
  (`TlBlocks`); no thread is cancelled unasked (`TlCancels`).
* **SchedThreads** (`SdInv`).  A stored id is the thread's own; main changes and shows
  the asked thread once, on its way past it (`SdStages`).
* **LockDemos** (`LdInv`).  With the lock one worker is inside.  In `facto` it has
  multiplied as far as its updates go (`LdProducts`); in `mutex1` a cell has grown
  by the number of workers that are past it, and without the lock by one to that
  number (`LdCounts`); what is printed is less than what any worker that has
  counted will print (`LdPrinted`).
* **Timers**, **SigThreads**, **SharedMutex** (`TmInv`, `StInv`, `PsInv`).  The safety
  parts of their temporal properties, `TimersHonest`, `SignalsSafe` and
  `SharedMutexSafe`: an interval timer stays on, a one-shot timer is on, expired or
  handled (`TmTicking`); nobody exists before the signals are blocked
  (`StMasked`); whoever is between its lock and its unlock, dead or alive, is the
  owner and the only one whose part is torn (`PsOwned`); at most one part is cut,
  and then the other is whole or being written (`PsCut`).

**The composition.**  `EachProgramRuns`: a behaviour of `MCPrograms!Spec` is one of
each of the sixteen specifications, since a program that is not chosen stutters
in one of its initial states.  `ProgramsInductive`, `TypeCorrect` and the theorems
on the eight invariants of the run `programs` then need no step-by-step argument
of their own.

Induction.  The library's induction theorems cannot be used with the provers at
hand, but its theorem that a well-founded relation has minimal elements can:
`LeastNumber` takes from it that a set of numbers that is not empty has a least
one, and the lemma `FactorialIs`, on which the theorem about `facto.c` rests, shows by least counterexample that the recursive function
`Factorial` is defined for every number and satisfies its equation.

Only model-checked: the liveness properties and the liveness parts of temporal
ones (`BankCloses`, `WaiterServed`, `CvEnds`, `CopyEnds`, `IobufEnds`, `PrimesEnd`,
`ShellReturns`, `TimersTick`, `SignalsTaken`, `SharedMutexEnds`), which are out of the
prover's reach.  The thread programs are proved one by one, not in `MCThreads`: the
type invariants that `ThreadsTypeOK` joins are five theorems.

## 5. Disagreements between code and documentation

1. `cv_simple.c` waits before it has looked at the predicate (`cv_lost_signal`).
2. `mt_copy.c` does not continue a short transfer, it repeats it (`mt_copy_short`).
3. `mt_iobuf_mtx.c` calls itself thread safe, but its critical section ends
   between read and write (`mt_iobuf_blocks`).
4. `cleanup_hdlr.c` frees its buffer twice when a cancellation meets a failing
   write (`cleanup_double_free`).
5. `mt_primes2.c` uses thread number 0 for "no thread cancelled"
   (`mt_primes2_merge`).
6. `mt_primes2.c` prints 1 as a prime (`mt_primes2_one`).
7. `simpcp1.c`, which overwrites an existing destination by its own words, does not
   truncate it (`dest_overwritten`).
8. `daemon_trad.c` never resets the signal mask (`daemon_mask`).
9. `pthreads_app_template.c` exits before the raised SIGSEGV is delivered, so it
   dumps no core (`template_core`).
10. `alarm2_rep.c` stops repeating when an alarm comes before `pause`
    (`alarm_repeats`).

Further disagreements that the models contain and no run is about; the properties of
`programs` say where they leave these cases out:

* `simpcp2.c` repeats a short transfer too, as `mt_copy.c`, which has its loops from
  there (`SimpCp!CpRead`, `CpWrite`).
* `handle_segv.c` sets up an alternate stack "via the SA_ONSTACK" but does not set
  that flag; `pthreads_app_template.c` sets it, but only main's thread has the stack
  (`FaultHandlers!OnAltStack`).
* `altstack.c` and `segv_altstack.c` cannot report an overflow of the alternate stack:
  the handler is to run on the stack that overflowed (`FaultHandlers!DefaultAction`).
* The original process of `daemon_trad.c` exits before the daemon is initialized.
* In `pshared_mutex_demo.c` the child's message and the thread's signature overlap
  when the pid has six digits or more, and one cuts the other
  (`SharedMutex!WrittenOver`).
* `react.c` accepts a press that comes before the message, and may measure a time
  from a start that was not taken, or was taken after the press.
* `runwalk_timer.c` clears its `itimerspec` with the size of another structure, which
  is as large on 64-bit machines only; the models have no sizes of structures.

## 6. Plan, and what is not modelled

Done: the thread programs in the order `BankAcc`, `CvSimple`, `MtCopy`, `MtIobuf`,
`MtPrimes2`, then the stand-alone programs of `MCPrograms`, and the proofs of all
the invariants that the runs check.  Left:

1. Abstract specifications for the programs that have none, as `AtomicBank` is for
   `BankAcc`, and the proof that the detailed ones implement them: an atomic
   counter for `LockDemos`, a critical section for `SharedMutex`, a
   mailbox for `SigIpc`.
2. Action properties that the invariants of section 4 already imply: what was
   copied, printed or given up stays so.

Not modelled, and why:

* `forkbomb.c`, `smallbomb.c`, `fork2c.c`, `zombie.c`, `zombies_clear_linux26.c`:
  a loop or a pair of system calls without state of its own; what they show is
  the process table, and `Shells` has its zombies.
* `rlimit_primes.c`, `mmap_file_simple.c`, `iobuf.c`, `io_setbuf.c`,
  `query_pcap.c`: they make one request and print; what follows is the kernel's
  or the library's doing.
* The display functions of `common.c`, `timerspecsub`, and `handle_err`'s return
  when it cannot allocate: no control flow depends on the first two, and the
  third would put a second way out of every failing call in every program.
* The memory bugs of `ch5` and the exec and memory demonstrations of `ch4`, `ch7`,
  `ch9`: straight lines of calls, or undefined behaviour on purpose.
* Of the transfers: a short `write` in `fork_r6_of.c` and `mt_primes2.c`, which do not
  look for it; a `mt_copy` source that shrinks while it is copied (the read of 0 in
  the middle of a segment); the return of the IO loops of `ch16` on `feof` of the
  output stream, which a stream opened for writing never has.
* `mt_primes2.c` opens its output without O_TRUNC too; `dest_overwritten` shows on
  `simpcp1` and `simpcp2` what that does to an older file.
* A child of `pshared_mutex_demo.c` that is killed within its `snprintf` counts as
  killed before it.
* Scripts, makefiles, texts.
* Of the kernel: thread and process ids that are used again, the widths of
  counts beyond 2 GB, the layout of stacks.
