# buffer2 in TLA+

`buffer2` copies a stream from a source to a destination (files, standard
streams, named pipes, TCP sockets) through a ring buffer in memory.  An input thread fills the
ring, the main thread empties it, and two water marks decide when a stopped side
goes on.  This directory holds TLA+ modules for the program in `src/`, TLC
configurations that check them on small instances, and proofs for the TLA+ proof
system that hold for instances of every size.

The modules describe the generic (pthread) build for a 32-bit target, and where
the OS/2 and Windows builds differ in control, those too: the named pipes in
IOinterface, and the three implementations of the mutexes in Locks.  The code
assumes 32 bits itself: it casts a pointer to `int` (`fifo.cpp:57`) and gives
`%n` a `size_t` (`buffer2.cpp:215`).

## 1. The system

| Part | Source | State | Operations | Interacts with |
| --- | --- | --- | --- | --- |
| StaticFIFO | `fifo.h`, `fifo.cpp` | ring, two positions, level, two outstanding requests, end marker, statistics | `RequestWrite`, `CommitWrite`, `EndWrite`, `RequestRead`, `CommitRead`, `EndRead` | both workers; `Mutex` and two `Notification`s |
| Workers and main | `buffer2.cpp` | place in the loop, result of each worker, exit code | `InputWorker`, `OutputWorker`, thread start, join | FIFO, I/O objects |
| Command line | `buffer2.cpp` | sizes, marks (bytes and fraction), flags | `parseoption`, `parseint`, `parsedouble`, calculations | constructor of StaticFIFO |
| I/O objects | `IOinterface.h/.cpp` | descriptor or socket | factories, `Initialize`, `ReadData`, `WriteData`, destructors | the system; the descriptor table is shared by both threads |
| Mutex, Lock, FastMutex | `Mutex.cpp`, `MutexBase.cpp`, `FastMutex.cpp` | owner, depth, `Own` flags | `Request`, `Release`, scoped `Lock` | StateLock of the FIFO, LogMtx of the log |
| Notification | declared in `MMUtil+.h` | sleepers | `Wait`, `Notify`, `NotifyAll` | FIFO, Event; its implementation is not in the repository |
| Event | `Event.cpp` | `State` | `Wait`, `Set`, `Reset` | not used by the program |
| Smart pointers | `MMSmartPointer.h` | pointer and ownership | attach, release, reset, copy | `Notification::Mux` |
| SimpleDrain, SimpleSource | `fifo.h`, `fifo.cpp` | rest of the block in progress | `write`, `read` by copying, `EndWrite` | FIFO; not used by the program |
| PerfCount | `PerfCount.cpp` | counters, time | `Update`, `getSeconds` | statistics output only |
| Strings, casts, exceptions | `string.cpp`, `MMCast.h`, `exception.cpp` | none | | everywhere |

What is hard in it:

* Between a request and its commit a thread works on the ring without the lock.
  The two threads must never touch the same byte, and the position and length of
  a request must still be good at the commit, whatever the other side did.
* A stopped side is notified only when the level passes its mark.  With marks of
  0 and 100% each side waits for the other one to use up the whole buffer.
* Either side may end, fail or stall at any moment, asleep or not, and the other
  one must end, drain or fill accordingly.  `main` must not return before the
  input thread has ended, and the exit code must be right for every order.
* A block of `SimpleDrain::write` or `SimpleSource::read` may be longer than the
  ring: it takes several turns with sleeps between them, and the other side may
  end between any two.
* Two threads open and close descriptors at the same time, and the system hands
  the lowest free number out again at once.
* Option values overflow, and marks go through two variables, a fraction in
  floating point and back; `nan` is a number to `sscanf`.

The list of hazards with their lines is in `PROJECT.json`.  What makes each part
correct is stated under "Properties" at the end of its module.

## 2. The modules

```
ByteStream            what Drain and Source promise (abstract)
   ^ implemented by (TLC and proof)
FIFOClient  EXTENDS StaticFIFO      any pair of legal clients of the ring
   ^ implemented by (TLC and proof, but for a request size of zero)
Buffer2     EXTENDS StaticFIFO      the two workers and main
SimpleTransfer EXTENDS FIFOClient   SimpleDrain and SimpleSource (implements
                                    FIFOClient by proof)
Options                             the command line, up to the FIFO's marks
IOinterface                         files, pipes, sockets and their descriptors
Locks                               Mutex, FastMutex and Lock objects
AtomicEvent           what Event promises (abstract)
   ^ implemented by (TLC; its safety by proof)
Event                               Event on a mutex and a condition variable
SmartPointers                       who deletes an object
```

Every module with a `..._proofs` module beside it has its theorems there; the
lemmas and theorems about StaticFIFO are in `FIFOClient_proofs`.

**StaticFIFO** has the members of the class as variables and one operator per
member function.  A function runs under `StateLock` from its first access to its
return, except that `Notification::Wait` gives the lock up, so an operator is one
critical section: the call up to the point where its thread returns or falls
asleep (`RequestWrite`, `RequestRead`), or the rest of it after the wake-up
(`ResumeWrite`, `ResumeRead`).  A pointer is its distance from `BufferBegin`.  The
arguments `data` and `len`, which the functions get by reference, are variables
too (`wdata`, `wlen`, `rdata`, `rlen`), because `len` is changed before and after
the sleep.  `NotifyDrain` and `NotifySource` hold the state of the one thread that
can wait on each: `running`, `asleep`, `woken` (notified, without the lock yet)
or `stray` (`Wait` has returned by itself, without the lock yet).  The test of
the outstanding request in front of the lock is part of the same step; only the calling thread changes that variable at a time when the
thread can call (the other side's functions never write it).  The constant
`SpuriousWakeups` allows `Wait` to return by itself, as `pthread_cond_wait` may.

**FIFOClient** is the environment the contract in `fifo.h` permits: requests of
any length, commits of any part of the granted buffer including nothing, an end
at any moment the thread is not blocked, further requests after `EndWrite`, none
after `EndRead`.  The n-th byte is the number n.  Loss, duplication, reordering
and overwriting of bytes all become visible in `sink`.

**ByteStream** is the abstract promise: a bounded stream, bytes complete and in
order, an end that is reported when nothing is left.  `Stream` in FIFOClient is
the refinement mapping (`in` is `accepted`, `out` is `sink`, `closed` is `EOS`).

**Buffer2** has the loops of the two workers and `main`.  Each line that calls the
FIFO or an I/O object is an action.  `ipc` and `mpc` are the places of the input
thread and of the main thread.  `Initialize`, `ReadData` and `WriteData` are
nondeterministic: any short count, zero, or an exception.  The results 10, 11, 19
and 28 of the catch clauses, the exit code 29 of a failed thread start, and
`RequestSize` with its automatic value are those of the code.  `Client` maps it to FIFOClient.

**SimpleTransfer** has the loops of `SimpleDrain::write` and `SimpleSource::read`.
Each action is one of FIFOClient, taken on the terms of the loop (the request is
for the rest `wleft` or `rleft` of the block, all that is granted is copied), with
the loop's own variables and what the caller adds up from the results (`wtotal`,
`rtotal`).  The users of both objects go on calling, with blocks of any length,
until they end.

**Options** processes one argument per step, as `main` does.  A value is what
`sscanf` makes of the text: a number with a unit, a percentage, or nothing; a
command line is any sequence of `Arguments`, and `CommandLines` are those to look at.
Integers wrap at the width of an `int`.  A `double` is a pair of integers, with the
denominator 0 for an infinity and `<<0, 0>>` for not a number, both of which `%lf`
reads; a percentage is the `double` that is left of the text after the division by
100, which is thereby exact.  The operations after that round: `Rounds` asks of a
mark only that it is within half a byte and `1 / Precision` of the exact product,
so that a tie may go either way (29% of 50 bytes is 14 in the program, because
`0.29` is a little less).  The mark of a NaN is one of `NaNCasts`: the cast is
undefined in C, and these are what common processors make of it.  The last two
steps are the calculations and the constructor's marks.

**IOinterface** makes each system call of `Initialize` and of the destructors a
step, so that the calls of the two threads interleave on one descriptor table
with lowest-free-number allocation.  Every call may fail.  Every pair of objects
(stdio, file, OS/2 pipe, TCP with all forms of the address) is an initial state.
A pipe is created and connected, or opened when another process has created it.

**Locks** has one mutex, recursive or not, and any number of threads and `Lock`
objects.  A thread constructs and destroys objects, calls their `Request` and
`Release`, and calls those of the mutex directly.  A request gets the mutex, blocks
(`waiting`) until `Acquired`, or returns false.  `timing` says what becomes of a
time limit: `refused` (returns false at once: `Mutex.cpp` passes the relative time
to `pthread_mutex_timedlock` as an absolute one), `kept` (`Mutex` on Windows and
OS/2: the thread blocks and the limit may strike, `limited`) or `ignored` (the
critical sections of Windows and OS/2, the `_smutex` of EMX).  The clients keep to
two rules: no waiting for a plain mutex the thread owns already, no direct release
without a direct request.  Calls that return without doing anything (`Request` with
`Own`, `Release` without) are steps that change nothing and are left out.

**Event** has the unlocked tests of `Wait` and `Set`, the critical sections, the
sleep and the two ways out of it as separate steps (`pc`), with the owner of the
mutex of the base class.  The unlocked read of `State`, formally a data race on a
`bool`, returns the value of some moment of the call: it is one load, and the
lock that follows it keeps the compiler from reusing the value.  A thread whose
sleep has ended is `notified` or, without a reason, `woken`.  **AtomicEvent**
is the same interface with one step per operation; `callOf` maps the program
counters to its phases of a call.  It is less than the class comment promises: a
`Set` may leave threads waiting there if a `Reset` follows (section 6, 4).

**SmartPointers** has what each `own_ptr`, `sgl_own_ptr` and `ref_ptr` holds
(`Ptr`, `Own`), the objects that exist and those the client itself has to delete
(`raw`).  One action stands for the constructors or resets that do the same.  A cast moves
the object into its temporary argument first; if the `dynamic_cast` fails, the
argument deletes what it owns.  A
`ref_ptr` is a `boost::shared_ptr`: an owned object goes with the last `ref_ptr`
that holds it as owned.  Memory is assumed to be there, and no pointer to be a
member of an object (section 6).  Templates that cannot be instantiated are left out:
`sgl_own_ptr::reset(own_ptr&)` uses a protected member of another class (line
313), `ref_ptr::reset(own_ptr&)` takes the member function `own` for a value (448).

Definitions commented as MUTANT are plausible mistakes in the definition after
them; nothing uses them.  Exchanging one for its original must make TLC report
the property listed with it in `PROJECT.json`.

## 3. What TLC checks

| Run | Instance | Shows |
| --- | --- | --- |
| fifo_client | ring 4, marks 1 and 3, requests to 5, 6 bytes, spurious wake-ups | no overlap of regions, bytes in order, legal calls never throw, no lost wake-up, resumption at the marks, refinement of ByteStream |
| buffer2 | ring 8, marks 2 and 7, automatic request size 2, 12 bytes, spurious wake-ups | copy is a prefix, success means complete, failures are reported, no internal error, join, no futile wake-up, termination, failure reaches a blocked writer, a stall of one side does not stop the other early, refinement of FIFOClient |
| simple_transfer | ring 3, marks 0 and 3, blocks to 4, 5 bytes, spurious wake-ups | rests and results of `write` and `read`, only the end cuts a call short, every call returns |
| options | command lines with up to 3 options, parts that are a tie, infinite or not a number | marks (but for a NaN) and sizes are legal and are those asked for |
| io_objects | every pair of objects, 6 descriptors | no use and no closing of the other side's descriptor, no leak |
| locks | 3 threads, 3 Lock objects, 2 direct requests each, the 5 kinds of mutex | mutual exclusion, no release too many or too few |
| event | 3 threads, calls without end, time limits, spurious wake-ups | no lost wake-up, each operation is atomic, an event that stays set releases everybody |
| smart_pointers | 2 objects, 2 own_ptr, 1 sgl_own_ptr, 2 ref_ptr | no second owner, no owner of a deleted object, the one way to leak, who is left with a dead pointer or with NULL |

Four runs (buffer2_tinybuffer, buffer2_firstwrite, options_percent, event_reset) show
where the program departs from what it says; see section 6.

*Bounds.*  A ring of four bytes has every relation of the two positions: empty,
full, free part wrapped, filled part wrapped, with requests shorter and longer
than either part.  Six bytes are one and a half laps, so slots are reused while
older bytes are unread; so are twelve in the ring of eight, the smallest in which
the automatic request size is more than one byte and passes a mark in the middle
of a request.  Blocks of four in a ring of three take two turns or three, and five
bytes are more than one block.  Counters of the statistics wrap at 2 (at 1 in
simple_transfer) instead of 2^32; nothing reads them.  The proofs of section 5
remove these bounds for everything but liveness; simple_transfer has the extreme
marks.
Three free descriptors besides the standard ones let both sides have two open or
find the table full.  In Options, 1024 is 4 and an int has 4 * 4^3 values, as it
has 4 * 1024^3 on a 32-bit machine: products overflow at the same units.  With a
`Precision` of 1000 a rounding error matters at ties only, and half of the buffers of
7 and 3 bytes is one.
Actions whose guards carry a bound: `Store`, `SourceDelivers` and `WriteCall`
(`StreamLength`), the requests of FIFOClient and the blocks of SimpleTransfer
(`MaxRequest`), `Open` (`Limit`, which the system has
too), `DirectRequest` (`MaxDirect`).  Three threads let one hold the mutex while
two wait, and let one set and one reset the event while the third wakes up; three
Lock objects nest in one thread or belong to different ones.  Threads and objects
of Locks are interchangeable, hence its symmetry, as are objects and pointers of
one class in SmartPointers.  Two objects let a pointer replace one by the other.

*Fairness* (Buffer2, `FairSpec`).  Both threads are scheduled: weak fairness of
each thread outside its calls to the I/O objects.  A critical section is short
and no thread waits inside one, so that the lock is always released, and each
thread competes with one other thread only: weak fairness of its steps is what a
mutex between two threads gives that take it again and again only with I/O calls
in between.  `Initialize`, `ReadData` and `WriteData` may block for ever (a
listening socket, a tape, a terminal); that they return is a hypothesis
(`SourceResponds`, `DestinationResponds`) of exactly those properties that need
it.  `FailureReachesInput` therefore names the known issue of `buffer2.html`: an
input thread inside `Initialize` or `ReadData` does not notice the end of the
output, every other one does.

*Fairness* (SimpleTransfer, `FairSpec`).  Each loop is scheduled, as in Buffer2.
That the users go on calling until they end is a hypothesis about them: without it
the other side may wait for ever, as it has to.

*Fairness* (Event, `FairSpec`).  Weak fairness of each thread inside a call.  For
the mutex this says only that a thread gets it when nobody takes it any more.
That is enough for what AtomicEvent promises: as long as the event stays set,
`Wait` and `Set` return without the mutex.  That a `Set` gets through while
others keep requesting the mutex would need a mutex that starves nobody; it is
not claimed.  Time limits and spurious wake-ups are never forced.

## 4. What each property protects against

* `NoOverlap`, `InOrder`, `CopiesPrefix`: data races on the ring, bytes lost at a
  short commit, at the wrap or at the end.
* `LegalCallsSucceed`: a commit that has become illegal since its request.
* `NoLostWakeup`, `Terminates`, `FailureReachesInput`: notifications lost or given
  at the wrong level.
* `ResumeAtMark`, `NoFutileWakeup`: wake-ups below the marks (the reason for the
  marks is to avoid them), and wake-ups for a state that is gone.
* `StalledSourceDrains`, `StalledDestinationFills`: one side is served from the
  buffer while the other one stalls, which is what the program is for.
* `CompleteOnSuccess`, `FailureReported`: the end of the two threads in every order;
  `FailureReported` also says that no worker breaks the contract of the FIFO (exit
  code 19), and the `TypeOK` of Buffer2 that `main` does not return before the input
  thread.
* `StopsForOutputOnly`: the input worker takes the refusal of a request for the end
  of the output, which it must be.
* `SimpleTypeOK`, `ResultsAddUp`, `CutShortOnlyAtEnd`, `CallsReturn`: a block in
  several turns, cut short by the end of the other side; two blocks longer than
  the ring that wait for each other.
* `StreamSpec`, `ClientSpec`: the layers fit together.
* `ConstructedLegal`, `LastOptionDecides`, `RequestSizeRule`: the FIFO gets the
  sizes StaticFIFO assumes, and those the user meant as far as they fit an `int`.  The
  first excepts a mark that is not a number, the second asks of a part of the buffer
  that it is the next whole number, and of a size that overflows that it keeps its
  lower bits; the third is the rule of `buffer2.html`, which the usage text
  contradicts (section 6).  `RangeErrorsAreSyntaxErrors` is what the texts say of levels
  out of range, and does not hold.
* `HandleIsOwn`, `ClosesOnlyItsOwn`, `NothingLeaks`: descriptor numbers that are
  reused between two calls of the other thread.
* `MutualExclusion`, `DepthCounts`: nested, released and re-requested Lock objects
  mixed with direct requests; a timed request that failed, at once or late.
* `WakeupNotLost`, `ImplementsAtomicEvent`: the unlocked tests of Event, a time limit
  that races with `Set`, a wake-up that comes when the event is reset again: `Wait`
  must then not return true.  `SetReleasesWaiters` is the stronger promise of the
  class comment, which does not hold.
* `SingleOwner`, `LeaksOnlyIfHeldAlready`: transfers between the pointer classes; the
  second one also says where clients have to be careful: `p = f()` loses the
  object if `p` refers to it already without owning it (`MMSmartPointer.h:153-157`).
* `PointersStayGood`: a pointer left behind by a deletion has held the object
  without owning it, with two exceptions the property names: an owner that is reset
  to a reference to its own object (`MMSmartPointer.h:154`, `546`) deletes it and
  keeps the address; and a `sgl_own_ptr` becomes NULL only when it is made from an
  empty `auto_ptr` (line 279), after which its `operator!` is wrong.

## 5. What is proved

All safety properties that the passing runs check are theorems, for every value
of the constants under the assumptions named in the modules; each assumption is
evaluated by TLC on its instance.  Every inductive invariant is in the model's
module, after the properties, and the proofs go one lemma per action.

### The ring: FIFOClient_proofs

The first part has the lemmas about StaticFIFO: each critical section preserves
`FIFOInv`, and the two outstanding regions are disjoint.  The second part has the
lemmas about slots (which one is the i-th unread one before and after a step) and
the theorems.  They assume that sizes are positive, that marks
lie in `0..BufferSize` (which `FIFOAssumptionHolds`, below, proves of the command
line, except for marks that are not a number), and that requests are at least one byte.

The argument: `ClientInv` is inductive (`ClientSafety`).  It needs more than the
properties say:

* `PositionsAgree` (the write position is `Level` slots behind the read position)
  and `RequestsFit` (an outstanding request fits without wrapping) give `NoOverlap`
  and the legality of commits;
* `SleepersWait` says for which state each sleeper waits, `NotBothAsleep` follows
  at the moment one falls asleep, since the other would have to sleep on an empty
  and this one on a full buffer, or past its mark;
* `PhaseInv` ties the client's phase to its request; in particular after the end
  of the stream the writer holds no buffer, except after `EndRead`;
* `ContentInv` says which byte is in which slot and how many the reader took, and
  gives `InOrder`.

From it follow `TypeCorrect`, `RegionsNeverOverlap`, `BytesInOrder`,
`NoLogicError` and `WakeupsNotLost`, for spurious wake-ups too.  `MarksRespected`
adds `WokenAtMark`: who is notified has his mark or the end, and nobody but he
himself can take it away before he has the lock.
`ImplementsStream` shows that each step is a step of ByteStream or leaves its
variables unchanged, under the invariant.

### The program: Buffer2_proofs

The theorems have the hypothesis `RequestSize # 0`.  By the lemma `Sizes` it fails
for one kind of command line only, a buffer of less than four bytes without `-r`,
and there the program is wrong (section 6, 1).  For all others, all marks and all
lengths of the input:

* `ImplementsClient`: each step of the program is one of FIFOClient or leaves the
  FIFO alone.  The module takes the proofs about FIFOClient by INSTANCE (`Copy`), so
  `ClientInv` need not be proved again: its preservation follows from the step
  being one of the client.  This carries the facts about the ring over to the program.
* `ProgramSafety`: `ClientInv` together with `WorkerInv` is invariant.  `WorkerInv` ties
  the two places to the rest: whether the thread exists and what the exit code is
  (`StartInv`), that `EOS` is set exactly when one of the workers has said so
  (`EndInv`), the three ways out of the input loop and the two out of the output
  loop, with the result each leaves behind (`InputInv`, `OutputInv`), and that a
  notified thread finds what it was notified for (`WokenInv`).
* `CopyCorrect` comes from `InOrder` of the ring.  `SuccessIsComplete` and
  `FailureShows` need `EndInv` with the ways out of the loops: an output loop that
  ended regularly found the ring empty after the input had closed it, and an input
  loop may leave with an open source only because the output failed.
* `StopsTruly` and `WakeupsUseful` are action properties.  A refused write request
  after the end, and a wake-up, are judged from the state before the step, where
  `EndInv`, `OutputInv` and `WokenInv` hold.

### The rest of the FIFO's users: SimpleTransfer_proofs

`SimpleInv` relates the rest of each block to the request in
progress and to the bytes counted, and is inductive together with `ClientInv`
(`SimpleSafety`).  Under it each step of the two loops is one of FIFOClient
(`SimpleIsClient`), so that all theorems about `Spec` hold for SimpleDrain and
SimpleSource.  `RestsInRange` and `ResultsCorrect` follow from the invariant,
`OnlyTheEndCutsShort` from the two turns of the loops: a turn that has been granted
nothing has met the end.

### The command line: Options_proofs

For every command line, every width of an `int`, every default and every precision
of at least a third of a byte.  `OptionsInv` says
that the settings are what the words read so far make of the defaults:
`GivenBefore` is the last option of a kind before `pos`, which `ParsedInv` relates to
the variables while parsing and `CalculatedInv` after the marks have become
fractions.  `OptionsCorrect` is the invariant.

* `FIFOAssumptionHolds` (`ConstructedLegal`): the sizes and marks that get through to
  the constructor are those StaticFIFO assumes, unless the last `-h` or `-l` is not a
  number.  With it the assumption of the ring's theorems is discharged for the
  program on all other command lines; for `-h=nan%` it is false (section 6, 3).
* `LastOptionWins`: the last option of a kind decides.  It needs that the detour of
  a mark in bytes over `d / BufferSize` and back is the identity for every buffer
  size (`BytesMark`), and that a part of the buffer stays within it (`PartMark`).
  Both rest on `LessThanAByte`: half a byte and the error of a double together are
  less than a whole one.  A `-b` after a `-h` is no exception because the division
  comes after the last word.
* `RequestSizeChosen`: the given request size, or the quarter or eighth.

### The descriptors: IOinterface_proofs

For every size of the descriptor table.  `DescriptorInv` (`DescriptorSafety`) says at
each place of a side which descriptors it has: a handle it may still use is its own
and at the places of a server the listening socket (`HandleInv`); between accept and
the assignment there are two of them (`AcceptInv`); the standard descriptor is there
until the object is destroyed (`StandardInv`); and it owns nothing it has no name
for (`Owned(s) \subseteq Known(s)`), which is what makes `NothingLeaks` inductive.  The
two sides meet only in the lowest free number, and that one is nobody's
(`LowestIsFree`): `OtherSide` is the lemma that a step of one side leaves the
invariant of the other alone.  `HandlesStayOwn`, `NothingStaysOpen` and `ClosesOwn`
follow.

### Mutex, Lock, Event: Locks_proofs, Event_proofs

`Locks_proofs`: `LocksInv` is inductive (`LocksCorrect`), for any set of threads and
any finite set of Lock objects, each kind of mutex and of time limit, without a
bound on nesting.  `DepthCounts` alone is
not inductive: that the last release frees the mutex needs that nobody but its
owner is entitled to it (`MutualExclusion`), and that a blocked thread's object
does not own yet (`WaitingInv`).  Each action either gains or loses one entry for
one thread; the four lemmas about that do the counting with cardinalities.

`Event_proofs`: `NoWakeupIsLost` (a thread falls asleep only with the mutex and
while `State` is false, and the Set that changes it keeps the mutex until it has
notified) and `EventIsAtomic`, that every step is one of AtomicEvent or changes
nothing there.  It needs besides the types only that a Wait whose time is over had
a limit (`LimitedInv`).

### Ownership: SmartPointers_proofs

For any sets of objects and pointers.  `PointerInv` (`PointerSafety`) is `TypeOK` and
`OwnerInv`: what an owner holds exists, is not left to the client, and has no other
owner unless both are `ref_ptr`s.  Existence is what `SingleOwner` needs to survive a
deletion: without it a pointer could own what another one has deleted.
`LeaksNothingElse` and `PointersGood` are action properties.  The first goes by what
the common parts of the operations do: replacing and moving lose no object that had
an owner (`ReplaceLeaksNothing`, `MoveLeaksNothing`), so that what remains is the
case the property names.  The second goes by `DetachDeletes`: a detached owner deletes
its object only if nobody else owns it, and whoever else holds it then is the one
left with a dead pointer.  `PointersAssumption` says that the singleton, `NULL`
and the objects differ and that an own_ptr, a sgl_own_ptr and a ref_ptr are
different things.

### Only model-checked

`Terminates`, `FailureReachesInput`, `StalledSourceDrains`, `StalledDestinationFills`
(Buffer2), `CallsReturn` (SimpleTransfer) and the fairness in
`ImplementsAtomicEvent` (Event; its safety is `EventIsAtomic`): liveness under
fairness, and `ENABLED`, are out of the prover's reach.  So is the instance with a
request size of zero, where the properties of Buffer2 are false.

## 6. Where program and documentation differ

1. `-b=1` to `-b=3` without `-r` (run buffer2_tinybuffer): the automatic request
   size `BufferSize / 4` is zero (`buffer2.cpp:415`), `RequestWrite` returns zero,
   nothing is copied, and the program blames the output and returns 0.
2. `-h=100%` (run buffer2_firstwrite): `buffer2.html` promises that nothing is
   written until the buffer is full.  The mark holds back only a reader that has
   found the buffer empty and fallen asleep (`fifo.cpp:125`), so a reader that
   comes late writes what there is.
3. `-h=150%` and `-h=nan%` (run options_percent, whose property each of them violates):
   a level out of range is to be reported as such (`buffer2.cpp:261`) and must not be
   larger than the buffer (`buffer2.cpp:382-383`).  The range test comes after the
   division by 100 (line 260), and for 150% the constructor's `invalid_argument` ends
   the program as an internal error (19), not as a syntax error (49); the same holds
   for negative marks in bytes (`-l=-5`).  A NaN passes the tests in line 260, line 403
   and `fifo.cpp:167`, whose comparisons are all false, and the mark is the undefined
   cast of it.  As `0x80000000` it is a high water mark that no level reaches: once
   asleep, the output wakes up only at the end of the input.
4. `Event::Set` and then `Reset` (run event_reset): `MMUtil+.h:391-392` says that Set
   causes all waiting threads to resume.  They are notified, but `while (!State)`
   (`Event.cpp:138`) sends back to sleep those that get the mutex after the `Reset`.

Part of the models, which follow the code, without a run of their own:

* `-b=5g`: the size is to be multiplied by 1024 to the power of 3
  (`buffer2.cpp:369-371`); the product overflows unnoticed (line 221), and the buffer has
  one gibibyte (`AsAsked` in Options).
* The default of `-r` is as much as possible in the usage text (`buffer2.cpp:372`), a
  quarter or an eighth of the buffer in `buffer2.html:111-113` and in the code
  (`buffer2.cpp:415`, `AutoRequestSize` in Options).
* A timed request of a mutex that is held: `MMUtil+.h:229` says it returns false after
  `ms` milliseconds; on pthreads it does so at once (`Mutex.cpp:129`, `Refused` in Locks).

Met while modelling, and not part of the models:

* The usage text (`buffer2.cpp:356`) says that an existing output file is appended
  to; it is truncated (`IOinterface.cpp:353`).
* `MMSmartPointer.h:170` converts every `own_ptr` to true.
* A `ref_ptr` made from an owning `own_ptr` (`MMSmartPointer.h:421-428`): if there is no
  memory for its counter, `boost::shared_ptr` deletes the object, which the `own_ptr`
  still owns and deletes again.
* `own_ptr::reset` (`MMSmartPointer.h:155`) deletes the old object and then releases the
  source.  If the source is a member of that object, as in `p.reset(p->next)`, its
  destructor has deleted the new object by then.
* The Windows event is created as one that resets itself when it releases a
  thread, although `MMUtil+.h:391-392` says that all waiting threads are released
  and the event stays set.
* `Event::Set` on OS/2 queries the event and posts it in two steps; if another
  thread posts it in between, the second call fails and throws, although
  `MMUtil+.h:354` calls the class thread safe.

## 7. Not modelled

* The implementation of `Notification`: not in the repository.  It is modelled by
  its use, as a condition variable bound to `StateLock`.
* `interrupt_exception`: nothing in the generic build throws it.
* The `Die` flag: written by the destructor, read nowhere.
* The output of statistics (it reads the counters without the lock), `PerfCount`,
  text formatting, flags `-c`, `-s`, `-a`.
* In the smart pointers: the two cases named in section 6, of which the repository
  says nothing that a run could check; access, comparison and debug output.  What a
  reference to a deleted object is used for.
* The OS/2 and Windows events, which wrap one of the system; the OS/2 thread
  priorities of the workers; `Interlock` on Windows, which raises the priority of a
  thread and, as its comment says, excludes nobody.
* Mutexes shared by name or between processes, constructors that fail, a release
  by a thread that is not the owner.
* Signals (`EINTR`, `SIGPIPE`).
* Destruction of a mutex or an event in use.  `MMUtil+.h` lets waiting threads get
  an `interrupt_exception`; the pthread classes have no such mechanism.
* How long a wait takes.  A spurious wake-up makes `Event::Wait` start its time
  again.

## 8. Plan

Done: the ring and its clients, the program, the command line, the I/O objects with
pipes, Mutex and Lock in all builds, Event, the smart pointers with their casts,
SimpleDrain and SimpleSource, with the safety of all of them proved.  What is left:

1. **Options and Buffer2 together**: a theorem that every accepted command line gives
   Buffer2 constants it assumes, with the exceptions of a small `RequestSize` and of
   marks that are not a number, stated over the two modules at once.
2. **Buffer2**: the mark of a wake-up (`ResumeAtMark`) for the program, from
   `MarksRespected` and `ImplementsClient`.
