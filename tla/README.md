# Ruxen in TLA+

Ruxen is a compiled language with a Rust implementation: a compiler
(`compiler/ruxen_core`), command-line tools around it (`src/`), and a standard
library whose runtime half is written in C (`library/std/*/runtime`). This
directory holds a formal model of the parts of it that run concurrently or
depend on the order of events: the async runtime, the channels, threads and locks of
the standard library; the incremental build cache and the package commands, where a
process may stop between any two writes; and, of the compiler, two places whose result
matters when it runs: the code generated for `async def` and `block_on`, and the
decision which local variable frees a heap object.

Paths below are relative to the repository's root.

## 1. Inventory

### Task scheduler (`library/std/future/runtime/scheduler.c`)

* State: per thread, a list of task entries (future, `Context`, `ready` mark,
  handle), the flags `t_pump_in_progress` and `t_wake_all_pending`; per task a
  `RuxenTaskHandle` with `done`, `result` and a reference count, shared by the
  list and the spawner.
* Operations: `spawn`, `wake_task`, `wake_all_tasks`, `ready_nonempty`,
  `pump_tasks`, `drain_remaining`, and the `TaskHandle` queries and drop hook.
* Hard: a poll runs user code in the middle of the pump's walk; that code spawns,
  drops handles and wakes. A waker may be used from any thread.
* Correct if: the walk never stands on a freed entry; a handle lives exactly as
  long as it has an owner; a wake that comes after its task's poll has begun
  leads to another poll; waiting tasks are polled round robin.

### Event reactor (`library/std/future/runtime/reactor.c`)

* State: per thread, a table of fd slots (fd, mode, `fired`, parked task), a table
  of timers, `registered_count`, a wake fd; in the kernel an epoll or kqueue set.
* Operations: register (one-shot, persistent, timer), `set_waker`, `check_fired`,
  `deregister`, `wake`, `park_current`.
* Hard: the kernel keeps pointers to slots that are freed and reused; an event and
  the waker it is for come in either order; `registered_count` decides whether the
  thread may sleep without a timeout; Linux and macOS differ in what is reported
  once and what until it is read.
* Correct if: the count agrees with the tables, events reach the slot of the fd
  they are about, no event passes a waker by, and the thread sleeps only while
  something can end the sleep.

### Wakers and contexts (`library/std/future/runtime/executor.c`)

* State: a `Context` and its waker cell (task, reactor) per task, and one for the root.
* Operations: `waker_wake` (mark the task ready, then trigger the wake fd),
  context creation and drop.
* Hard: it is the one call made from other threads; it is two memory accesses with
  the executor running in between.

### `block_on` and async lowering (`compiler/ruxen_core/src/async_lowering/lower.rs`)

* What is generated: for `block_on`, a loop that pumps, polls the root, pumps
  again, and parks when nothing completed and nothing is ready; for an `async
  def`, a state machine, *linear* (returns `Pending` between two awaits) or
  *loop-shaped* (goes on to the next state in the same poll).
* Hard: the decision to park against wakes from elsewhere; who re-polls a state
  machine that returned `Pending`.
* Correct if: the thread never sleeps on progress it could make, and `block_on`
  returns when everything its root waits for has happened.

### Library futures (`library/std/future/src`, `library/std/time`, `library/std/async_net`, `async_io`, `async_fs`)

* State: what each future remembers between polls: a timer handle, a
  registration, a deadline.
* Hard: a deadline and the data arrive together; registrations outlive futures;
  a stream's handle is an integer that other objects copy.

### Channels (`library/std/sync/runtime/channel.c`)

* State: a list behind a mutex and a condition variable, an atomic count of
  `Sender` handles that is *not* changed under that mutex, `receiver_alive`.
* Operations: `send`, `clone`, `recv`, `try_recv`, both drop hooks, the last of
  which frees the channel.
* Hard: the last sender leaves while the receiver decides to wait; spurious
  wake-ups; two halves dropped at the same time.
* Correct if: it behaves as one queue with atomic operations and an end that is
  reported only when final; no wake-up is lost; it is freed exactly once, last.

### Threads, mutexes, `SharedSync` (`library/std/sync/runtime/{thread,mutex,sharedsync}.c`)

* State: a counted context shared by the thread and its `JoinHandle`; a pthread
  mutex with an integer behind it; a counted box (`SharedSync`) that keeps the mutex alive.
* Operations: `spawn`, the trampoline, `join`, the drop of a `JoinHandle`; `lock`,
  `try_lock`, the guard's `get`, `set` and drop; `SharedSync` `clone` and drop.
* Hard: the thread ends and its handle goes in either order or at once; the last of the
  threads that share a box frees it; a read and a write under one guard must be one step.
* Correct if: counting from several threads gives every thread a number of its own, `join`
  returns it, and everything is freed once, after its last use.

### Incremental build cache (`src/ruxenc/src/cache`, the link step of `compile.rs`)

* State: on disk a manifest (for one set of flags: the files, their keys, what they
  import), objects keyed by source and flags, signatures keyed by source, and the
  linked programs; in memory the hits, the dirty files and the cascade of a build.
* Operations: `build()`, link or skip, `clean`.
* Hard: an object depends on more than its key says: on the signatures of what its
  source imports. The cascade makes up for it within a build, but several files are
  replaced before the manifest is, and a build may stop in between; builds of different
  files and flags share the directory.
* Correct if: what a build returns is what compiling everything would give; no file is
  compiled without need; the program reported is the one the sources give.

### Drop elaboration (`compiler/ruxen_core/src/mir/lower`, `borrow_check`)

* State: while one function body is lowered, its MIR blocks, `initialized_heap_locals`
  and the stack of open loops; beside it the move checker's set of moved locals; after it
  the safe, aliased and transferred locals that `insert_drops` computes.
* Operations: one per statement (let, assignment, hand-over, if, while, loop, break,
  continue, return), then drop elaboration over the finished blocks.
* Hard: three places free objects, each by a list of its own: the edges that leave a loop,
  an assignment to a local that holds something, and the end of the function. None of
  them follows the paths of the program.
* Correct if: on every path each object is freed at most once, by its owner, never
  read after that, and in the end not left over.

### Package commands (`src/ruxen_cli/src/{deps,lock,resolve_deps,build}.rs`)

* State: `Ruxen.toml`, `Ruxen.lock`, and the clones under `target/deps`, one directory per
  piece and ref; in memory the calls of `resolve_dep` in progress and what is resolved.
* Operations: `add`, `remove`, `update`, `update --precise`, `build` (with `--locked`),
  `check`, `clean`; inside them the recursive resolution, clone and checkout, and the
  writing of the lock.
* Hard: upstreams move between two commands; a killed clone leaves its directory; the manifest
  is written before the resolution, the lock after it, nothing is locked against a second
  process; a piece met twice keeps what it was first met as.
* Correct if: a complete lock that no manifest contradicts decides what is built, whatever
  else happened; a piece comes after the pieces it needs; a command that ends leaves a lock
  for all it built.

### Not modelled

Lexer, parser, formatter, diagnostics; HIR, resolution and type checking; the rest of MIR
lowering (borrows and regions, `match`, closures, derives, `Copy` types, calls); code
generation: single-threaded passes whose state space is the set of programs. The
synchronous I/O wrappers, collections and scalars of the standard library: data structures
and system calls. Argument parsing, scaffolding, `publish` and self-update, the LSP, the
IDE queries and the REPL: front ends. PCRE2 is vendored.

### How the parts interact

`block_on` calls the pump and `park_current`. The pump calls `poll` of the futures,
which call the reactor (register, `set_waker`, `check_fired`, `deregister`), the
scheduler (`spawn`) and wakers. `park_current` turns kernel events into `wake_task`
calls. Other threads reach in through `waker_wake` only. All of it is one thread's
state, except `ready`, the wake fd and the waker cell. Channels are independent of
the async runtime: `recv` blocks its thread; so are threads and locks, whose only meeting
point with it is that any thread may hold a waker. The build cache and the drop
elaboration are parts of the compiler and share nothing with the library. The package
commands decide which sources the compiler is given; their processes meet only in the
project's files.

## 2. Modules

| module | models | kind |
|---|---|---|
| `Scheduler` | `scheduler.c` | component |
| `MCScheduler` | the same with a history of polls | TLC |
| `SchedulerProofs` | theorems about `Scheduler` and the history of polls | TLAPS |
| `Reactor` | `reactor.c` and the registrations of its clients, over a kernel | component |
| `ReactorProofs` | theorems about `Reactor` | TLAPS |
| `AsyncRuntime` | `block_on`, lowered state machines, library futures, threads; composes `Scheduler` and `Reactor` | composition |
| `MCAsyncRuntime` | the programs that are run | TLC |
| `AsyncRuntimeProofs` | `AsyncRuntime` implements `Scheduler`; no use after free, no sleep on progress | TLAPS |
| `MpscQueue` | what `std.sync.mpsc` promises | abstract |
| `Channel` | `channel.c`, refines `MpscQueue` | component |
| `ChannelProofs` | theorems about `Channel` | TLAPS |
| `TicketDesk` | what counting behind `SharedSync[Mutex[Int]]` promises | abstract |
| `Threads` | `thread.c`, `mutex.c`, `sharedsync.c`, refines `TicketDesk` | composition |
| `ThreadsProofs` | theorems about `Threads` | TLAPS |
| `BuildCache` | `cache/*.rs`, `clean.rs`, the link step of `compile.rs` | component |
| `MCBuildCache` | a project to build | TLC |
| `BuildCacheProofs` | theorems about `BuildCache` | TLAPS |
| `Drops` | lowering of statements, move checker, drop elaboration, and the run of the result | component |
| `MCDrops` | the sublanguages programs are written in | TLC |
| `DropsInvariants` | the invariants of those theorems and what they are stated with | TLAPS |
| `DropsProofs` | theorems about `Drops` | TLAPS |
| `Packages` | `deps.rs`, `lock.rs`, `resolve_deps.rs`, the first step of `build.rs` | component |
| `MCPackages` | what pieces depend on | TLC |
| `PackagesProofs` | theorems about `Packages` | TLAPS |

Each module has the definitions named `...` in a comment as *Mutant* next to the
definition they vary: the same code with a plausible mistake. They are used by no
specification; they record which mistake each property would notice.

### `Scheduler`

`queue`, `entry`, `ready` are the list and its entries; `handle`, `done`,
`result`, `refcount`, `caller` the handle and who owns it. `ruxen_executor_pump_tasks`
is split where user code can run: `PumpEnter`, then per entry `PumpSkip` or
`PumpPoll`, then, between `PumpPoll` and `PollReady`/`PollPending`, anything a poll
may do (`Spawn`, `HandleDrop`, `WakeTask`, `WakeAllTasks`), and `PumpExit`. `pc`,
`pos` and `walkAll` are the locals of that function. `pos` stands for
`prev_link`/`cur`: the walk keeps the address of the link it came by, which is what
an index into the list is. `owed` is a history variable: woken and not polled since.
Identities are never reused, so `entry[t] = "freed"` is freed memory for good.

### `Reactor`

The functions of `reactor.c` are operators on a record `r` (`RegisterFd`,
`SetWaker`, `AfterCheckFired`, `Deregister`, `AfterEvent`, ...), so that a poll can
make several calls in one step; the actions are what clients do with them: a file or
connect future that registers and deregisters its own fd, a sleep, a stream that
registers both modes when it is made and unregisters when it is dropped. The
kernel's part is `interest`, `expired`, `armed`, `wakeFd` and `io`, and follows
epoll_ctl/epoll_wait/timerfd and kevent as the code uses them: epoll refuses a
second add of an fd, kqueue keeps one filter per fd and mode; a timerfd is reported
until it is read, a one-shot kqueue timer once. The variable `platform` chooses and never
changes, so that one run covers both. Handles keep the
code's sign convention: negative for fd slots, positive for timers, 0 for none. A
`park_current` is `ParkWait` followed by one `ParkEvent` per event of the batch.

### `AsyncRuntime`

`bpc` walks the program: `open`, while it opens its streams, then the generated loop: `pump1`, `root`, `pump2`, `decide`, `park`. A program
(`prog`) gives the root and every task a body of steps: spawn, join, yield, sleep,
read, read with timeout, and `ext`, a future some other thread completes. A poll
runs a body's steps one by one until `ret` is set, so that wakes of other threads
and kernel events fall between any two of them. `Advance` is where the two lowerings
differ. `WakeEntry` is `ruxen_executor_wake_task` on whatever pointer a slot or a
waker holds: if the entry is gone, `uaf` remembers the write into freed memory ("entry"), as it
remembers a waker cell read after its `Context` was freed ("cell").
`Rct` and `Sch` are instances of the two component modules; the calls are theirs.

### `Channel` and `MpscQueue`

A critical section that looks only at what the mutex protects (`send`, `try_recv`)
is one step. `recv` is not: it reads `sender_count`, which changes outside the mutex,
and `pthread_cond_wait` gives the mutex up, so it has the steps `Recv` (lock),
`RecvTake`, `RecvWait` (decide), `RecvSleep` (unlock and sleep), `RecvRelock`,
`RecvEnd`. A drop has the steps the code has: the `fetch_sub`, the broadcast under
the mutex if it was the last sender, the unlocked test of `try_free_channel`, the
free. `Signalled` is signal and broadcast alike: there is one receiver.
`SpuriousWakeup` is POSIX's. `DropsOverlap` says whether two halves may be in their
drop hooks at the same time: the code does not forbid it, and section 6 says what
happens then.

`Promise` maps the C channel to `MpscQueue`: `open` is the set of handles whose drop
has not reached the counter, and the queue is empty once the receiver is gone.

### `BuildCache`

`manifest`, `objects`, `signatures` are the files under `incremental/`; `job` is the memory
of the process that builds, field by field the locals of `build()`: `dirty`
(`needs_compile`), `prior`, `priorSig`, `inUse` (`object_bytes`), `newSig`, `deps`, `queue`,
`invalidated`, and `changed` for the `output_changed` of the statuses. `StartBuild` is
everything up to the first write, after which come `StoreObject` and `StoreSignature` per
dirty file in path order, `SeedCascade`, `PopOrigin` and the same two writes per dependent,
in any order since the code iterates a hash set, `SaveManifest`, and `Link` or `SkipLink`.
Each write is one step because `atomic_write` writes and syncs a temporary file and
renames it; a crash is that of the process. The compiler is an arbitrary function of a
file and the sources it can see, since the driver takes it as a callback; `Imports`,
`Compiles`, `ObjectOf` and `SignatureOf` are its results. In `ruxenc` itself every call has
one file and no imports (`compile.rs:496`); the cascade is the library's contract,
exercised today by its tests. `lost` is a history variable that says in which of three
ways past builds have broken the cache (section 6), `warm` one that says what should hit.

### `Threads` and `TicketDesk`

The main thread keeps a `Mutex` in a `SharedSync`, clones the handle for every thread it
spawns (`Clone`, then `Spawn`), and joins the thread or lets its handle go (`Join`,
`Detach`); a worker locks or tries to, reads, writes, unlocks, drops its handle of the box
and returns. `hpc` is where the main thread is with each `JoinHandle`, `tpc` where each
thread is; `fetch_sub` and the free that may follow are separate steps on both sides
(`HandleRelease`/`HandleFree`, `Unshare`/`FreeShared`, `ThreadRelease`/`ThreadFree`). `uaf` remembers
a use after the free. `Desk` maps the write under the guard to the one step in which
`TicketDesk` draws a number. A panic aborts the process, so that nothing ever poisons a mutex.

### `Drops`

A behaviour has three phases. `lower` writes a program, one statement a step (`Let`,
`LetFrom`, `Set`, `SetFrom`, `HandOver`, `If`/`Else`/`EndIf`, `While`, `Loop`, `EndLoop`,
`BreakOrContinue`, `ReturnEarly`), as far as the move checker (`moved`) accepts it, and
appends to `blocks` what the lowerer emits; `inited` is `initialized_heap_locals`, `frames` the
open constructs. `InsertDrops` computes what `insert_drops` frees before a return: `Rooted`, `Taint`,
`Alias` and `Track` are the passes of `compute_dealloc_safe_locals` over the blocks in order of
their ids. Then the program runs a block a step, both ways at each branch, over a heap of
objects: `Exec` and `Freed` set `mem.fault` to what went wrong first. A block is its instructions
and two sets, the locals cleared before them (`prepend_zero_init_for_body_locals`) and those freed
and cleared behind them (`emit_dealloc_loop_locals`): only loop edges have such, and the
order within them is visible to nobody, since what they free is one object each. All locals are of one
class without a destructor; what a callee, a vector or a task is given stays in `mem.kept`.
`Fragments` are the sublanguages: which statements, in and out of loops, and the code
generator, on which the value of a local before its `let` depends (`Unset`). `Disciplined`
sublanguages are those the elaboration is sound for: nothing is stored in a field; in a loop nothing is passed to a
user's function, copied to another local, set again or taken from outside the loop; where a program may branch, a
local that was given away stays without a value; LLVM only for programs without branches.
Every exclusion is a case of section 6.

### `Packages`

A process runs one command: `Build`, `BuildLocked`, `Update`, `AddPiece`, `RemovePiece` or
`Precise`, of which all but the last start a resolution from the manifest and the lock they
read (`job`). `stack` holds the calls of `resolve_dep`, each with the manifest it reads its dependencies
from (`wants`), the project as the first; `SkipResolved`, `RefuseCycle`, `FromPath`, `RefusePath`,
`RefuseRef`, `FromGit` are the ways the next dependency may be met, `Cloned`/`CloneFails` and
`Checkout`/`CheckoutFails` the two calls of git, `Return` the end of a call, `Save` the writing of the
lock. A manifest, the project's or a piece's, says of a dependency a path or git with a rev, a tag, a
branch or nothing (`Spec_`), and `SpecOf` is what the one being read says; `LockDecides` and
`EffectiveRef` are the choice between that and the lock. A revision is a number and stands for the
commit; a clone is what it knows, what its tag names and what it has checked out. `Publish` and `Retag`
are the upstreams. `Crash` is possible anywhere; `CrashSaving` leaves a prefix of the lock a
resolution ends with, `KilledWriting` a prefix of the manifest that `add` and `remove` write or of the
lock that `--precise` does. What a command reads and rewrites without calling git in between is one step.

Simplified: a repository has one line of revisions, on which every branch ends. A path in the manifest
of a piece that was cloned stays inside the clone (a `..` out of it, into a neighbour's directory, is
not modelled), and what lies there is of the clone's revision. A manifest that a killed write has left
unparsable stops every command until its author mends it, and is left out.

## 3. Runs

| run | module, cfg | question |
|---|---|---|
| `scheduler` | `MCScheduler`, `MCScheduler.cfg` | list, handles and ready marks under every order of calls during the walk; no lost wake, round robin, every wake followed by a poll |
| `reactor` | `Reactor`, `Reactor.cfg` | epoll and kqueue: count, tables, kernel set and clients' handles agree (on kqueue the count as an upper bound); no missed event; a parked task is watched; the single report of a one-shot timer is never lost |
| `runtime_linux` | `MCAsyncRuntime`, `RuntimeLinux.cfg` | programs with and without other threads: `block_on` returns, loses no wake-up, never sleeps on progress, touches no freed entry, and leaves no task in the queue without a waker on what it waits for |
| `channel` | `Channel`, `Channel.cfg` | the channel implements `MpscQueue`, no lost wake-up, freed exactly once and last |
| `threads` | `Threads`, `Threads.cfg` | counting behind `SharedSync[Mutex[Int]]` implements `TicketDesk`; freed once and last; every thread ends |
| `drops` | `MCDrops`, `Drops.cfg` | for every program of four sublanguages and every path: frees hit what the local owns, no read after a free, what was handed over survives, nothing is left |
| `packages` | `MCPackages`, `Packages.cfg` | a complete lock that no manifest contradicts decides what is built; dependencies first; no circles; commands leave complete locks; all under kills, moving upstreams and a second process |
| `build_cache` | `MCBuildCache`, `BuildCache.cfg` | what a build returns is what compiling would give, the manifest is a snapshot, warm files hit, only interfaces invalidate, the program reported is current |
| `runtime_two_awaits` | `MCAsyncRuntime`, `RuntimeTwoAwaits.cfg` | violation, see 6 |
| `channel_race` | `Channel`, `ChannelRace.cfg` | violation, see 6 |
| `build_cache_outputs` | `MCBuildCache`, `BuildCacheOutputs.cfg` | violation, see 6 |
| `drops_reassign` | `MCDrops`, `DropsReassign.cfg` | violation, see 6 |

The type invariants of `Scheduler`, `Channel` and `Threads` are checked by the runs and
proved; those of `BuildCache` and `Packages` are proved (the latter bounds the recursion of
`resolve_dep`). The others say what values a variable takes and are no question of a run of their own.

### Bounds, and why they are enough

* `scheduler`: three tasks, one payload. Three entries are what the unlink code
  distinguishes (head, middle, tail), and two would not separate "polled twice" from
  "polled once each" for `NoOvertaking`. Handles have two owners whatever the number of
  tasks.
* `reactor`: two fds, one timer, one task, two slots (`MaxSlots`). Two fds and two
  slots make a slot change hands; every property relates one registration to one
  slot, or two registrations to each other.
* `runtime_*`: a root and two tasks, one stream, three timers. A program's bodies have
  up to four steps; the set contains every order of two spawns and two joins, tasks
  that wait for nothing, for time, for data, for another thread, and for one after
  the other. A root may spawn late or leave the spawning to a task.
* `channel`: three handles, two messages each. The first handle and two clones let
  one be dropped last while another was cloned from a clone; two messages each make
  order visible. Send counts (`MaxSends`) and handles bound the state; nothing else does.
* `threads`: two workers that lock and one that tries. The counts distinguish "one holder
  left" from "more"; two lockers contend and the third fails to get the lock; the proofs cover any number.
* `drops`: two locals, five statements, three objects, eight blocks entered: 5.5 million
  states. Two locals are an owner and the one it is moved to; three objects let a loop
  come round with a new object while two are about. The four sublanguages together have all statement
  kinds of the module but fields; what they leave out of each other is what section 6 lists. A
  random search through programs of eight statements, three locals and five objects (16 million states)
  found nothing more.
* `packages`: three pieces, two revisions each, three commands, of which the first two may run
  together in two processes. Three pieces make a piece that is needed by another one
  that is needed (and a circle of three); a second revision is what a lock protects from;
  three commands are "lock it, then a mishap, then build": for example a killed clone, a lock with an
  empty revision, and the build that refuses it. The project may ask for 1 at HEAD or on disk, for 2
  at HEAD or at revision 1, for 3 by a branch. Piece 1 needs 2, first at HEAD, later at revision 1, which a
  lock edited by `--precise` may contradict; 2 comes with 3 in its own repository, and later needs the tag
  of 3, which moves (`Tagged`); 3 comes to need 1. Every way a lock may be overridden is in there.
* `build_cache`: three builds and one mishap (crash, failed link, lost object, damaged
  manifest, deleted program, `clean`), with any edits in between. A stale object needs a
  build that stores it, one that breaks off or passes it over, and one that replays it. The
  project is a chain of three files, the middle one either handing on the interface below it
  or hiding it, so that a cascade may stop half way or go through; the bottom has three
  interfaces, one of which the top does not compile against; the fourth file is built alone
  and may import itself. Builds are given all files that their files import. One output
  path: with two, `ReportedIsCurrent` fails, see 6. A source stands for its hash:
  different files have different sources, and a signature changes only with its object (`CompilerAssumption`).

Deadlock checking is off where the modelled program may rightly stop: a scheduler
nobody calls, a reactor without clients, a `block_on` that returned, a channel
with nothing left to send, threads that have ended, a program that has run, a project nobody
builds or whose commands are spent.

### Fairness

* `Scheduler`: `WF(PumpStep)`. The executor calls the pump in every iteration of the
  `block_on` loop and polls return: a future that never returns from `poll` blocks its
  thread by design. Nothing is assumed of the calls a program makes.
* `AsyncRuntime`: `WF` of the executor thread, of each other thread that holds a waker, of
  each armed timer, and of each peer. These are the operating system's scheduler, the
  clock, and the hypothesis under which "block_on returns" is meaningful: a peer that
  never sends keeps a reader waiting in any implementation.
* `Threads`: `WF` of every thread's next step and of the release of a `JoinHandle` that has begun. A mutex is held for a bounded section, and a waiting thread gets it: strong enough for
  `ThreadsEnd` because each worker locks once. No fairness of what the program chooses to do.
* `BuildCache`, `Drops` and `Packages` have safety properties only: that a build ends is the affair of
  the compiler or of git, and a program may loop.
* `Channel`: `WF` of a `recv` in progress and of the broadcast of a drop in progress: a
  thread inside a call goes on, and a mutex held for a bounded section is obtained. Under
  it `RecvReturns` says that `recv` returns if there is a value or no sender; no
  fairness is assumed of the programs' calls or of spurious wake-ups.

## 4. What is proved

TLAPS checks the following for every value of the constants; all invariants were
first checked by TLC.

* `SchedulerProofs`. The invariant is the conjunction of the type invariant,
  `QueueSound`, `HandleSafety` and `NoLostWake`, with the fact that a handle's
  liveness and its count are both functions of who owns it (`Owners`). It
  is inductive only as a whole: `PollReady` frees the entry that the walk stands on, so
  its soundness needs that the list holds each entry once, and the count it decrements
  is right only because an entry in the list is an owner.
  `NoOvertaking` is stated over the history `passed`, so its invariant speaks of
  what the list and the walk are *now*, of tasks that were polled *then*: `Turns` says that a task
  polled since a waiting one was marked ready lies behind it in the list, or was polled by the
  walk in progress, and both if that walk is through with the waiting one. Unlinking a completed entry moves the
  walk and everything behind it by one place; appending at the tail never puts a new task before a
  waiting one. `History` is needed for the append: a task that is not spawned yet is neither
  ready nor recorded.
* `AsyncRuntimeProofs`, about the whole composition, for any set of tasks, fds and programs. The
  runtime calls the operators of `Scheduler`, so the scheduler's invariant holds of its queue, and the
  lemmas of `SchedulerProofs` and `ReactorProofs` are used wherever a step makes such a call.
  `RuntimeNoUseAfterFree`: no wake writes through a freed entry. `SafeInv` carries the scheduler's
  invariant, the shape of the reactor's record and, for each event of the batch, the entry it is about
  into the runtime; on top of it `WakersParked` says that whoever can wake a task (one slot, one timer
  or the waker another thread has taken) is alone in that, and that the task is still queued, not ready,
  and not in the middle of a poll. That is why the entry is there when the wake comes: a task is
  freed only by a poll that returns `Ready`, and it is polled again only after its one waker has been
  used. The hypothesis is `NoTimedReaders`: a read with a timeout leaves its waker in two places and
  takes back one of them, and `TimedOutReader` (section 6) is the execution in which the other is
  used too late; the theorem shows that, of the futures modelled, no other does so.
  `RuntimeNeverSleepsOnProgress`: the thread never sleeps, with no wake under way, while a task is
  ready or what the root waits for has happened. `RootWaitsForNews` follows the root from the poll
  that returned `Pending` over the second pump and the decision into the kernel,
  `ReadyIsAnnounced` says that after the decision only another thread makes a task ready, and that
  this thread's next step is the wake fd. The hypothesis `RootLoops` (the root is not a linear state
  machine with two awaits) is `runtime_two_awaits` again: such a root returns `Pending` with its next
  await not started and nothing to wait for.
* `ChannelProofs`. The invariant adds to the types five facts: `sender_count` is the
  number of handles whose drop has not begun (`Counting`); `recv` holds the mutex exactly
  from its lock to its sleep (`Mutex`); where the receiver can be while it is alive
  (`Listening`); who frees has seen that the receiver is gone (`Freeing`); and, the heart
  of it, `Sleeping`: from the moment `recv` has *decided* to wait until it wakes, the list
  is empty and a sender is left or about to broadcast. `NoSleepOnNews` alone is not
  inductive: the window between the test of the loop and the wait is where a wake-up
  would be lost, and it is closed because both `send` and the last broadcast need the mutex
  that `recv` still holds. From the invariant follow `NothingLeaks` and, step by step, the
  refinement `Spec => KeepsPromise`. These hold with overlapping drops. Under `~DropsOverlap`
  two more facts, `Solo` and `LastFrees`, give `NoUseAfterFree`.

* `ThreadsProofs`, for any number of threads. The invariant says who counts: the reference count
  of the box is the number of handles not yet dropped (`Counting`, over the set of holders, so that
  the steps are facts about cardinalities), that of a context is one for the handle and one for the
  thread while they hold it (`Contexts`). `Sharing1` adds that at most one thread is between the count's
  reaching 0 and the free, and `Exclusion` that what a thread has read under the guard is still
  there when it writes, which is what makes read and write one step of `TicketDesk`. `NoUseAfterFree`
  is an invariant only together with them: that a context is live where it is used follows from who
  is still counted. From the invariant follow `NothingLeaks` and the refinement `Spec => KeepsPromise`.

* `ReactorProofs`, on both platforms and for any number of fds, timers, tasks and slots: every
  property the `reactor` run checks. All assume `0 \notin Fds`: fd 0 is the code's mark of a free slot,
  and with it the slot of standard input is handed out twice (section 6). The invariant `IInv`
  speaks of the reactor together with the handles clients hold, since neither is sound alone:
  `Disjoint` (each handle's slot records the fd and mode its holder registered, and nobody else
  has it), `Routed` (what the kernel watches is held, and reports to that slot), `Silent` (fired and
  waiting exclude each other, in slots and timers), `Known` (the events still to be looked at are
  about entries that exist) and, on macOS, `Kept` (a live timer is armed, due, in the batch or marked).
  It is stated of a reactor value and a set of handles, so the lemma of each function of
  `reactor.c` is proved once and used wherever an action calls it; an action that calls two, as
  `StreamFromFd` and `SleepRegister` do, chains the lemmas. That a free slot is handed out to one
  client only comes from `AllocatedSlot`, which needs that `Min` of a non-empty set of naturals is in it;
  that is taken from the well-foundedness of `<`. Two more invariants stand on it: `Counted`
  (`registered_count` is the number of live entries, at most that on macOS, where a fired
  timer gives its count back twice) and, on Linux, `Watched` (the kernel watches every held
  handle, and an fd for one slot only: epoll's delete, which knows no mode, would otherwise take
  away another client's registration). `ParkedIsWatched` needs both.

* `BuildCacheProofs`, for any project, flags and compiler: every property the `build_cache` run checks.
  The invariant `IInv` ties together three things no one of which is enough: what the manifest stands for
  (`SnapshotStands`: each object and signature it names is the one its own sources give, but for those the
  build in progress has replaced), what the build in progress has done (`Hits`, `Compiled`,
  `Remembered`: files not yet compiled are as the manifest has them, the others as the sources give them)
  and what it still owes (`Cascading`: a file whose signature moved is in the queue, or all who
  import it have been compiled). When the queue is empty, suppose a file that was not compiled had an object
  other than the compiler would make now. By `CompilerAssumption` one of its imports has another
  signature than the manifest's; the cascade did not see it move, so that import was not compiled
  either and is stale in the same way. Going on so one never comes to an end, which `NoLoop` excludes: the
  import graph of the build has passed `check_acyclic` and is finite. That is `NewSnapshot`, the core of
  `FreshObjects` and of the new manifest being a snapshot again. `Intact` is part of the
  properties: the two ways past it are the code's (section 6). `OneProgram`, the hypothesis of
  `BuildCacheReportedIsCurrent`, says that one file is built to one path, and alone: with two paths
  the statement is false (`build_cache_outputs`).

* `DropsProofs`, for programs of any length, with any number of locals, objects and jumps, written in any
  set of disciplined sublanguages (`WellBehaved`, which `MCDrops` assumes of the checked ones and TLC
  evaluates; `drops_reassign` is what happens outside). The difficulty is that
  the lowerer and the elaboration decide by the order of the text and the program runs along its branches,
  so that no invariant of the run alone is inductive. The lowering is therefore typed (all invariants named here
  are in `DropsInvariants`). `Sat` says of a
  memory that the locals `own` hold one live object each, no two the same, and the locals `clean` such an object or
  nothing; a typing `know` gives each block what it may rely on. `TypedSoFar(know)`: every block emitted so far, run in a
  memory with what it relies on, ends without fault in one that has what its successors rely on. It is stated for
  *every* set F of locals that may yet be given away or copied from before the body ends (`Allowed`), because
  only at the end is it known which locals stay clean on all paths (`Given`); with the set fixed the
  invariant breaks at the first hand-over. Under it are `Shape` (blocks, targets and
  open constructs are well formed, for any sublanguage), `Scoped` (scopes nest; what a loop gives up was declared
  in it) and `Ordered` (what is copied was defined earlier in the text, which is what makes the elaboration's one pass
  in text order right). `Scan` follows that pass: no local is both rooted and tainted, what was given is
  tainted; so `DropLocals` holds no local that was given up, and none whose value is returned. `Running` then says
  that the memory has what the block about to run relies on, and `Owning` joins the phases. From it follow
  `FreesOnlyOwn`, `ReadsOwn` and `HandedOverSurvives`. `NothingLeaks` needs the opposite, what holds an object
  at most: `Snug(m, S)` says that every live object of m is kept by another owner or held by a local of S, and
  `Carries(is, S, T)` that the instructions lead from S to T. Its three parts have each an invariant in
  `Tidy`. Without branches (`Even`) the one block carries nothing to `Holders`, the locals that are listed as
  initialized and not moved, and the elaboration's pass keeps them all rooted (`Tracks`), but for the one returned.
  A local outside `Entangled` is rooted where it is defined (`AllDefined`) and nothing in the pass unroots it
  (`Roots`), so it is freed at the return. Where nothing is entangled (`Neat`) each block has a
  number `count[b]` such that only the locals 1 to `count[b]` hold objects where it starts (`Counted`): a `let`
  raises it for the blocks still to be reached, and in a loop there is none, as the back edge would free it.
  Recursion occurs twice, over the instructions of a
  block in the run and over blocks in the elaboration; both are functions, and `Recursion` shows, by induction on
  a natural number, that such functions exist.

* `PackagesProofs`, for any number of pieces, revisions, commands and processes, whatever pieces come to
  need and whenever a process is killed. The invariant has, for each process, `Calls`: each call of
  `resolve_dep` in progress was made for a dependency of its caller, what a call has done with is
  resolved or in the hands of the next call (or of git), the pieces in flight are different ones and
  not resolved. From it follow `NoCircle`, that the recursion is never deeper than there are pieces
  (`PackagesTypeCorrect`, by the pigeonhole principle), and that what is resolved in the end needs nothing
  else. That it is no *more* than the manifest leads to is `Leads`: it speaks of all sets of pieces that are
  closed under what was met so far, and of those sets it is true step by step; "reachable" as a
  path would be an induction. Both give `LockIsClosed`. `LockReproduces` needs `Locked` (a process that
  found a complete lock has met its pieces at the locked revisions only) and `CheckedOut`: a
  directory named for a revision and checked out by somebody stays at it until `clean`, which no process
  runs beside. That is true although clones are shared by all processes without a lock, and
  depends on `Cloning`: a directory being cloned has nothing checked out and one process cloning it, since
  `resolve_git_dep` clones only where there is no directory. The hypothesis `Pinned` says that the lock has a
  revision for each piece, has just the pieces that the manifest leads to at those revisions, and is
  contradicted neither by the manifest nor by that of a locked piece: a `rev` there is the locked one, and
  there is no `tag` and no `path` (section 6 says what the code does otherwise). `LeavesFirst` is about the recursive `topo_visit`, so its
  proof is an induction over data, which is possible here because the recursion is a function and
  not a RECURSIVE operator: `FoldExists`, `FoldUnique` and `VisitExists` show, by induction on a natural
  number (`NatIn`, from the well-foundedness of `<`), that the functions behind `InOrder` and `TopoVisit`
  exist and obey their equations; `SortingVisit` then shows, by induction on the depth of the
  recursion, that a visit pushes its piece after all it depends on, whatever is in the midst
  of being visited, as long as that ranks higher. That what was resolved can be ranked at all is an invariant of its
  own, `Graded`: a piece returned from `resolve_dep` ranks above all that was resolved before.

Assumptions on constants: `ReactorAssumption`, `RuntimeAssumption`, `ChannelAssumption`,
`ThreadsAssumption`, `BuildCacheAssumption`, `SourcesAssumption` and `CompilerAssumption`, `BoundsAssumption` (`Drops`), `PackagesAssumption`, each in the module that declares the constants; the
scheduler's proofs need none. `SourcesAssumption`: a source stands for its hash, and a build is given all
that its files import. `CompilerAssumption` is what the driver's comment states (`driver.rs:137-139`): a
compiler sees of an import its signature only, and a signature changes only if the object does.
TLC evaluates both for the compiler of `MCBuildCache`.

## 5. Only model-checked

Liveness (`EveryWakeServed`, `Completes`, `RecvReturns`, `ThreadsEnd`) is out of the prover's reach.
So far `WaitersAreWatched` (`AsyncRuntime`) is checked only: no ready mark, no waker, no way on. It is
about the programs of `runtime_linux`. A task that joins another, a linear state machine of two
awaits (`runtime_two_awaits`), two readers of one stream (the second takes the slot) or a line reader (section 6) would break it.
Every other safety property of a passing run is proved, some under the hypotheses that section 4 names.

Abstractions that every run shares: allocation succeeds; `EINTR` is retried invisibly;
one `epoll_wait` takes all pending events (the array has 16 places); timer identifiers are
not reused; payloads are opaque; `ready`, a plain `int` written across threads, is one atomic
store; the acquire/release strength of the atomics is not weakened. In `AsyncRuntime` there
is one call of `block_on`, `TaskHandle`s are not dropped before it returns, a stream has one
reader and stays open, and a poll of a library future is one step.

## 6. Where the code and its documentation part

With a run (each finds a shortest execution):

* `runtime_two_awaits`: a linear state machine returns `Pending` between two awaits and wakes
  nobody; the pump skips tasks nobody woke (`lower.rs:2095`, "re-poll on next call").
* `channel_race`: `sender_drop` leaves `sender_count` before it locks the mutex; `receiver_drop` on
  another thread may find both halves gone and free the channel, mutex included.

* `build_cache_outputs`: whether to link is decided by comparing objects with the previous
  build, not with what the output holds. `-o A` in debug, `-o B` in release, `-o A` in release:
  the third is "Up to date", and `A` is the debug program (`compile.rs:225`). Two sources linked
  to one path by turns show the same: the second time the first is "Up to date", with the other's program.
* `drops_reassign`: `var x = A.new; keep(x); x = A.new` passes the move checker, and the
  assignment frees the object `keep` was given: `emit()` takes out of
  `initialized_heap_locals` what is moved to FFI, a constructor or a collection, not what a user's
  function takes by value (`assign.rs:79`, `emit.rs:116`). `docs/TASKS.md:604` says that moved values
  are never dropped.

Seen while modelling, without a run of their own. In the async runtime:

* On Linux `park_current` drops every event that is not the wake fd while no fd slot was ever
  allocated, so a spawned task that sleeps in a program without fds is never polled again
  (`reactor.c:890`; `SleeperWithoutFds` in `MCAsyncRuntime` is the program).
* A read that timed out leaves its task in the stream's slot; when the task has finished, the
  next byte makes `park_current` write through the freed entry (`TimedOutReader`).
* Closing a stream deregisters with reactor 0, which returns at once; the slots stay counted,
  and `park_current` may sleep with nothing registered.

* `ruxen_waker_wake` makes the task ready first and reads `cell->reactor` second
  (`executor.c:176`); called from another thread, the task may finish, and its cell be freed,
  in between. `uaf` records it.
* The race of `channel_race` also allows two halves to pass `try_free_channel` and free twice.
* On macOS a fired timer is counted down twice (`reactor.c:857`, `:726`), so the count may
  reach 0 with something registered, and `park_current` yields instead of waiting. This is
  why `CountMatchesTable` is an inequality there.
* On Linux the second `EPOLL_CTL_ADD` of a stream's fd is refused, so a stream has no write
  registration (`reactor.c:544`), though `async_net.c:492` says it registers for both.
* fd 0 is standard input for `async_io` and the mark of a free slot for `reactor.c:326`: another
  registration takes its slot over.
* A root that returns `Pending` between two awaits may be put to sleep on the registration of
  the first one, which is still there (`lower.rs:2095`, `reactor.c:802`).
* `AsyncReadLineFuture` returns `Pending` without leaving a waker (`async_read_line_future.rx:31`), so a
  spawned task that reads lines is polled once.
* `TaskJoinFuture` leaves no waker, so a *task* that joins another is not polled again when
  that one completes (`task_join_future.rx:51`); the root is, since it is polled in every
  iteration.
* `block_on` returns without calling `ruxen_executor_drain_remaining`
  (`lower.rs:2999`; B10 of `docs/specs/stdlib/task_spawn.spec.md` promises it).

In the build cache:

* A dependent that fails to compile ends the build after the cascade has replaced objects under
  keys that did not change (`driver.rs:475`). If the edit is then taken back, those keys hit
  again, with objects made for the signature that was taken back. A crash at the same place
  does the same. (`lost` has "replaced"; `hash.rs:51` says two compilations with one
  `CacheKey` must give the same bytes, while what a file imports is not in the key, contrary to
  `docs/requirements/tier3_06_incremental_compile.md:47`.)
* Entries of files outside a build are kept without what they import (`driver.rs:550`). Build the
  project, build a test alone, edit a file of the project, build the project: its dependents hit
  with stale objects. ("imports"; `driver.rs:526` says that such entries "self-heal".) A forced
  build of one file forgets the other entries altogether, which costs compilations only.
* The manifest is saved before the link (`driver.rs:565`, `compile.rs:310`). If the link fails, the
  next build finds nothing changed and reports the old program, if it is still there, "Up to
  date". ("unlinked".)

In drop elaboration (each leaves the sublanguages of `drops`; TLC finds all but the last when the
permission is added, and `NothingLeaks` makes the exception for the last):

* `if c { v.push(x) }; x = A.new` frees the object that was pushed: `inited` follows the text, not
  the path. `a = b; b = a` frees what both hold and stores it, since the source of an assignment is not
  taken out. `obj.f = x` is no move for the checker, and frees it at the next assignment of `x`.
* LLVM's allocas are not cleared, so a return before a `let`, or a branch not taken,
  makes the end of the function free what the stack held (`llvm/emit/mod.rs:203`). Cranelift's are.
* The move checker looks at a loop's body once: a local of outside that is moved in the body is
  moved again the next time round, and one that is set in the body counts as set after the loop.
* What a callee keeps of a by-value argument, or a field of it, is freed on the edge back to
  the loop's head. Locals of a loop that `return` leaves, and locals set again after a move, are never freed.

In the package commands:

* `--locked` compares the names of direct dependencies (`build.rs:88`, `lock.rs:98`). A rev that was
  edited in `Ruxen.toml` rewrites the lock under `--locked`, and a project whose pieces have pieces is
  always refused. `docs/tutorial/27-manifest-and-deps.md:143`: "fail if Ruxen.lock would change".
* `ruxen update` takes a clone of HEAD that is already there as it is, and moves nothing on a
  machine that resolved without a lock before; `update http` resolves everything anew
  (27-manifest-and-deps.md:140, :141).
* The lock is asked only where the manifest that names a piece gives neither `rev` nor `tag`
  (`resolve_deps.rs:399`), and this goes for the manifests of pieces too (`:275-286`). Let the project need
  1 and 2 at HEAD and piece 1 need `2 = { rev = 1 }`; after `update --precise 2=2` the lock says 2, and
  the build compiles revision 1 of piece 2 and writes that back. A tag is resolved anew by each machine:
  when upstream has moved it, a fresh checkout builds the new revision whatever the lock says.
  `docs/tutorial/27-manifest-and-deps.md:134` says that with the lock "every machine ... builds with the exact
  same dependency set", and `:124` that it records the exact versions of transitive dependencies too.
  `LockReproduces` is about locks for which neither is the case.
* A rev that the project asks for loses to a piece with an earlier name that needs the same piece
  at HEAD (`resolve_deps.rs:190`), and the lock is looked up by name even if the URL has changed.
* A killed clone leaves a directory that is taken for a piece without dependencies; the lock gets an
  empty revision and later builds fail (`resolve_deps.rs:51`) until `update` and `clean`. A second process
  takes a clone in progress the same way.
* `verify_checksums` looks in `target/deps/<name>` while clones are in `<name>-<hash>`, and a build
  verifies the lock it has just made (`lock.rs:119`, `build.rs:126`).

The passing runs are restricted to programs outside these cases: loop-shaped tasks, one
open stream per sleeping task's program, joins from the root (`MCAsyncRuntime`); the
sublanguages of `MCDrops`; locks that no manifest contradicts (`Pinned` in `Packages`). What fails
outside them is shown by the four violation runs where there is one, and only described here otherwise.

## 7. Plan

1. Done: `Scheduler`, `Reactor`, `AsyncRuntime`, `Channel`, `Threads`, `BuildCache`, `Drops`,
   `Packages`, with the proofs above.
2. `BuildCache`: two processes on one directory.
3. `Drops`: `match`, fields that own objects, by-value parameters of the function itself, `String`.
4. `AsyncRuntime` over `ReactorProofs`: the reactor's invariants carried over to the composition, as
   the scheduler's are, and from them `WaitersAreWatched` for every program whose tasks do not join,
   do not share a stream and, when linear, await once.
5. `AsyncNet`: connect, accept and write futures, stream close during a read; two readers of
   one stream; standard input; a second `block_on` over what the first left in the queue.
6. `Packages`: two commands that edit the manifest at the same moment, workspaces, branches that part.
