----------------------------- MODULE AsyncRuntime -----------------------------
(***************************************************************************)
(* One call of block_on: the loop that async_lowering/lower.rs emits       *)
(* around the root future, composed with the task scheduler, the reactor,  *)
(* the state machines that async defs are lowered to, the futures of the   *)
(* standard library they await, and other threads that use a waker.        *)
(*                                                                         *)
(* A program gives every future a body, a sequence of steps: awaits of     *)
(* library futures, and Task.spawn.  A future is polled step by step, so   *)
(* that a thread can come in between.  A poll ends when ret is set.        *)
(***************************************************************************)
EXTENDS Integers, Sequences, FiniteSets, FiniteSetsExt

CONSTANTS
  Platform,  \* "linux" or "macos"
  Fds, Timers, Tasks,
  Root,      \* the future given to block_on; its waker has no task
  MaxSlots,
  Programs   \* the programs to run, see MCAsyncRuntime

VARIABLES
  \* scheduler.c
  queue, entry, ready, handle, done, result, refcount, caller, wakeAll, pc,
  pos, walkAll, completions, owed,
  \* reactor.c and the kernel
  r, io, batch,
  \* the program, and where block_on and every future are
  prog,     \* the program that runs
  bpc,      \* block_on: "pump1", "root", "pump2", "decide", "park", "done";
            \* "open" before it is called
  pumped,   \* __block_on_pumped
  st,       \* per future: __state, the step it is at
  sub,      \* per future: progress of the library future it awaits
  ret,      \* what the running poll returns: "none" while it runs
  thread,   \* per future: the thread that will complete its "ext" await
  uaf       \* history: what was used after it was freed

Sch == INSTANCE Scheduler WITH Values <- {1}

Streams == prog.streams

\* The registrations that AsyncTcpStreams hold: read and, where the kernel
\* took it, write.
Held == {[handle |-> -i, fd |-> r.slots[i].fd, mode |-> r.slots[i].mode] :
           i \in {j \in 1..Len(r.slots) : r.slots[j].fd > 0}}

Rct == INSTANCE Reactor
         WITH platform <- Platform, Platforms <- {Platform},
              NoTask <- Root, held <- Held,
              fdUse <- [f \in Fds |-> IF f \in Streams THEN "stream" ELSE "closed"]

schedVars == <<queue, entry, ready, handle, done, result, refcount, caller,
               wakeAll, pc, pos, walkAll, completions, owed>>
kernelVars == <<r, io, batch>>
futureVars == <<st, sub, ret>>
vars == <<schedVars, kernelVars, prog, bpc, pumped, futureVars, thread, uaf>>

Futures == Tasks \union {Root}

ASSUME RuntimeAssumption ==
  /\ Platform \in {"linux", "macos"}
  /\ Fds \subseteq Nat /\ Timers \subseteq Nat \ {0}
  /\ Root \notin Tasks /\ MaxSlots \in Nat \ {0}
  /\ \A p \in Programs :
       /\ p.streams \subseteq Fds
       /\ \A f \in Futures : Len(p.body[f]) \in Nat
       /\ \A f \in Futures : \A i \in 1..Len(p.body[f]) :
            LET step == p.body[f][i]
            IN  /\ step.kind \in {"spawn", "join"} => step.task \in Tasks
                /\ step.kind \in {"sleep", "readTimeout"} => step.timer \in Timers

Body(f) == prog.body[f]

TypeOK ==
  /\ Sch!TypeOK
  /\ Rct!TypeOK
  /\ prog \in Programs
  /\ bpc \in {"open", "pump1", "root", "pump2", "decide", "park", "done"}
  /\ pumped \in Nat
  /\ st \in [Futures -> Nat] /\ \A f \in Futures : st[f] \in 1..(Len(Body(f)) + 1)
  /\ sub \in [Futures -> {0, 1}]
  /\ ret \in {"none", "pending", "ready"}
  /\ thread \in [Futures -> {"none", "stashed", "taken", "woke", "done"}]
  /\ uaf \subseteq {"entry", "cell"}

Init ==
  /\ Sch!Init
  /\ prog \in Programs
  /\ r = Rct!Reactor0
  /\ io = {}
  /\ batch = {}
  /\ bpc = IF Streams = {} THEN "pump1" ELSE "open"
  /\ pumped = 0
  /\ st = [f \in Futures |-> 1]
  /\ sub = [f \in Futures |-> 0]
  /\ ret = "none"
  /\ thread = [f \in Futures |-> "none"]
  /\ uaf = {}

-----------------------------------------------------------------------------
(* Wakers                                                                  *)

\* The Context that holds f's waker cell: freed with the task's entry, or
\* when block_on returns.
CtxFreed(f) == IF f = Root THEN bpc = "done" ELSE entry[f] = "freed"

\* ruxen_executor_wake_task on what a waker or a slot says: nothing for
\* NULL; a write into freed memory if the entry is gone.
WakeEntry(t) ==
  IF t \in Tasks
    THEN IF entry[t] = "live"
           THEN Sch!WakeTask(t) /\ UNCHANGED uaf
           ELSE uaf' = uaf \union {"entry"} /\ UNCHANGED schedVars
    ELSE UNCHANGED <<schedVars, uaf>>

\* Everything set_waker wakes is the caller, at most once.
WakeCaller(f, wakes) ==
  IF wakes = {} THEN UNCHANGED <<schedVars, uaf>> ELSE WakeEntry(f)

-----------------------------------------------------------------------------
(* Polls.  build_linear_state_dispatch and build_loop_poll_body_cfg, around *)
(* the poll of the awaited future.                                         *)

InPoll(f) ==
  /\ ret = "none"
  /\ IF f = Root THEN bpc = "root"
                 ELSE pc = "poll" /\ queue[pos] = f

\* f is being polled and its current step is of this kind.
At(f, kind) ==
  /\ InPoll(f)
  /\ st[f] <= Len(Body(f))
  /\ Body(f)[st[f]].kind = kind

Arg(f) == Body(f)[st[f]]

\* The awaited future is Ready.  After the last step the state machine is
\* Ready too.  Before it, a linear state machine stores the value, bumps
\* __state and returns Pending; a loop one goes on.
Advance(f) ==
  /\ st' = [st EXCEPT ![f] = @ + 1]
  /\ sub' = [sub EXCEPT ![f] = 0]
  /\ ret' = IF st[f] = Len(Body(f)) THEN "ready"
            ELSE IF prog.lowering[f] = "linear" THEN "pending" ELSE "none"

\* The awaited future is Pending.
Suspend(f) ==
  /\ sub' = [sub EXCEPT ![f] = 1]
  /\ ret' = "pending"
  /\ UNCHANGED st

\* A step without an await: Task.spawn.
PollSpawn(f) ==
  /\ At(f, "spawn")
  /\ Sch!Spawn(Arg(f).task)
  /\ st' = [st EXCEPT ![f] = @ + 1]
  /\ ret' = IF st[f] = Len(Body(f)) THEN "ready" ELSE "none"
  /\ UNCHANGED <<kernelVars, prog, bpc, pumped, sub, thread, uaf>>

\* TaskYieldFuture: wake itself, Pending once.
PollYield(f) ==
  /\ At(f, "yield")
  /\ IF sub[f] = 0
       THEN /\ Suspend(f)
            /\ WakeEntry(f)
            /\ r' = [r EXCEPT !.wakeFd = 1]
       ELSE Advance(f) /\ UNCHANGED <<schedVars, uaf, r>>
  /\ UNCHANGED <<io, batch, prog, bpc, pumped, thread>>

\* TaskJoinFuture: asks the handle, leaves no waker.
PollJoin(f) ==
  /\ At(f, "join")
  /\ IF done[Arg(f).task] THEN Advance(f) ELSE Suspend(f)
  /\ UNCHANGED <<schedVars, kernelVars, prog, bpc, pumped, thread, uaf>>

\* TimeSleepFuture: the deadline may have passed before the first poll.
PollSleep(f) ==
  LET k == Arg(f).timer
  IN
  /\ At(f, "sleep")
  /\ \/ /\ sub[f] = 0
        /\ Advance(f)
        /\ UNCHANGED <<schedVars, uaf, r>>
     \/ /\ sub[f] = 0
        /\ LET g == Rct!SetWaker(Rct!RegisterTimer(r, k), k, f)
           IN  r' = g.r /\ WakeCaller(f, g.wakes)
        /\ Suspend(f)
     \/ /\ sub[f] = 1
        /\ IF Rct!Fired(r, k) THEN Advance(f) ELSE Suspend(f)
        /\ r' = Rct!AfterCheckFired(r, k)
        /\ UNCHANGED <<schedVars, uaf>>
  /\ UNCHANGED <<io, batch, prog, bpc, pumped, thread>>

\* The handle of a stream's read registration; 0 if it has none.
ReadHandle(fd) ==
  LET mine == {i \in 1..Len(r.slots) : r.slots[i].fd = fd /\ r.slots[i].mode = Rct!Read}
  IN  IF mine = {} THEN 0 ELSE -Rct!Min(mine)

\* AsyncReadFuture (and, on a listener, AsyncAcceptFuture): try first, leave
\* the waker on the stream's registration on EAGAIN.
PollRead(f) ==
  LET x == <<Arg(f).fd, Rct!Read>>
      g == Rct!SetWaker(r, ReadHandle(Arg(f).fd), f)
  IN
  /\ At(f, "read")
  /\ IF x \in io
       THEN /\ Advance(f)
            /\ io' = io \ {x}
            /\ UNCHANGED <<schedVars, uaf, r>>
       ELSE /\ Suspend(f)
            /\ r' = g.r /\ WakeCaller(f, g.wakes)
            /\ UNCHANGED io
  /\ UNCHANGED <<batch, prog, bpc, pumped, thread>>

\* AsyncReadWithTimeoutFuture: arm the timer, try, ask the timer, and only
\* then leave the waker on the stream.
PollReadTimeout(f) ==
  LET k == Arg(f).timer
      x == <<Arg(f).fd, Rct!Read>>
      a == IF sub[f] = 0 THEN Rct!RegisterTimer(r, k) ELSE r
      b == Rct!SetWaker(a, k, f)
      c == Rct!AfterCheckFired(b.r, k)
      d == Rct!SetWaker(c, ReadHandle(Arg(f).fd), f)
  IN
  /\ At(f, "readTimeout")
  /\ \/ /\ x \in io
        /\ io' = io \ {x}
        /\ r' = Rct!Deregister(b.r, k)
        /\ WakeCaller(f, b.wakes)
        /\ Advance(f)
     \/ /\ x \notin io /\ Rct!Fired(b.r, k)
        /\ r' = Rct!Deregister(c, k)
        /\ WakeCaller(f, b.wakes)
        /\ Advance(f)
        /\ UNCHANGED io
     \/ /\ x \notin io /\ ~Rct!Fired(b.r, k)
        /\ r' = d.r
        /\ WakeCaller(f, b.wakes \union d.wakes)
        /\ Suspend(f)
        /\ UNCHANGED io
  /\ UNCHANGED <<batch, prog, bpc, pumped, thread>>

\* A future of the program that another thread completes: under a lock it
\* looks whether that has happened, and stores its waker if not.
PollExt(f) ==
  /\ At(f, "ext")
  /\ IF thread[f] \in {"taken", "woke", "done"}
       THEN Advance(f) /\ UNCHANGED thread
       ELSE Suspend(f) /\ thread' = [thread EXCEPT ![f] = "stashed"]
  /\ UNCHANGED <<schedVars, kernelVars, prog, bpc, pumped, uaf>>

PollStep(f) ==
  \/ PollSpawn(f) \/ PollYield(f) \/ PollJoin(f) \/ PollSleep(f)
  \/ PollRead(f) \/ PollReadTimeout(f) \/ PollExt(f)

-----------------------------------------------------------------------------
(* build_block_on_loop                                                     *)

\* Before block_on the program opens its streams, one after another, each
\* registered by ruxen_async_tcp_stream_from_fd; their sockets can be
\* written to.
OpenStream(fd) ==
  /\ bpc = "open"
  /\ fd \in Streams /\ <<fd, Rct!Write>> \notin io
  /\ r' = Rct!RegisterFd(Rct!RegisterFd(r, fd, Rct!Read).r, fd, Rct!Write).r
  /\ io' = io \union {<<fd, Rct!Write>>}
  /\ bpc' = IF Streams \X {Rct!Write} \subseteq io' THEN "pump1" ELSE "open"
  /\ UNCHANGED <<schedVars, batch, prog, pumped, futureVars, thread, uaf>>

AfterPump == IF bpc = "pump1" THEN "root" ELSE "decide"

\* ruxen_executor_pump_tasks on an empty queue.
PumpNothing ==
  /\ bpc \in {"pump1", "pump2"} /\ pc = "idle"
  /\ queue = << >>
  /\ bpc' = AfterPump
  /\ pumped' = 0
  /\ UNCHANGED <<schedVars, kernelVars, prog, futureVars, thread, uaf>>

PumpWalk ==
  /\ bpc \in {"pump1", "pump2"}
  /\ Sch!PumpEnter \/ Sch!PumpSkip \/ Sch!PumpPoll
  /\ UNCHANGED <<kernelVars, prog, bpc, pumped, futureVars, thread, uaf>>

PumpReturns ==
  /\ Sch!PumpExit
  /\ bpc' = AfterPump
  /\ pumped' = completions
  /\ UNCHANGED <<kernelVars, prog, futureVars, thread, uaf>>

\* Future_dynamic_poll is back.  The scheduler frees the entry of a task
\* that is Ready, never its future.
TaskReturns ==
  /\ pc = "poll"
  /\ \/ ret = "pending" /\ Sch!PollPending
     \/ ret = "ready" /\ Sch!PollReady(1)
  /\ ret' = "none"
  /\ UNCHANGED <<kernelVars, prog, bpc, pumped, st, sub, thread, uaf>>

\* The timers that the root's sub-futures registered and still own.
RootTimers ==
  {k \in Timers : /\ r.timers[k].live = 1
                  /\ \E i \in 1..Len(Body(Root)) :
                       /\ Body(Root)[i].kind \in {"sleep", "readTimeout"}
                       /\ Body(Root)[i].timer = k}

\* Poll.Pending goes on to the second pump.  Poll.Ready leaves the loop; the
\* root future and its Context are dropped, the queue is left as it is.
RootReturns ==
  /\ bpc = "root"
  /\ ret # "none"
  /\ ret' = "none"
  /\ IF ret = "pending"
       THEN bpc' = "pump2" /\ UNCHANGED r
       ELSE /\ bpc' = "done"
            /\ r' = FoldSet(LAMBDA k, q : Rct!Deregister(q, k), r, RootTimers)
  /\ UNCHANGED <<schedVars, io, batch, prog, pumped, st, sub, thread, uaf>>

\* Park only if the pump completed nothing and nothing is ready.
Decide ==
  /\ bpc = "decide"
  /\ bpc' = IF pumped = 0 /\ ~Sch!ReadyNonempty THEN "park" ELSE "pump1"
  /\ UNCHANGED <<schedVars, kernelVars, prog, pumped, futureVars, thread, uaf>>

\* ruxen_thread_yield, ruxen_reactor_park_current: sched_yield when nothing
\* is registered, else sleep until there is an event.
ParkYield ==
  /\ bpc = "park" /\ batch = {}
  /\ r.count <= 0
  /\ bpc' = "pump1"
  /\ UNCHANGED <<schedVars, kernelVars, prog, pumped, futureVars, thread, uaf>>

ParkWait ==
  /\ bpc = "park" /\ batch = {}
  /\ r.count > 0
  /\ Rct!Available(r) # {}
  /\ batch' = Rct!Available(r)
  /\ r' = Rct!AfterWait(r)
  /\ UNCHANGED <<schedVars, io, prog, bpc, pumped, futureVars, thread, uaf>>

\* Handle one event; after the last one, back to the top of the loop.
ParkEvent(e) ==
  /\ e \in batch
  /\ batch' = batch \ {e}
  /\ r' = Rct!AfterEvent(r, e)
  /\ WakeEntry(Rct!EventTask(r, e))
  /\ bpc' = IF batch' = {} THEN "pump1" ELSE "park"
  /\ UNCHANGED <<io, prog, pumped, futureVars, thread>>

BlockOn ==
  \/ \E fd \in Fds : OpenStream(fd)
  \/ PumpNothing \/ PumpWalk \/ PumpReturns \/ TaskReturns \/ RootReturns
  \/ Decide \/ ParkYield \/ ParkWait
  \/ \E e \in batch : ParkEvent(e)
  \/ \E f \in Futures : PollStep(f)

-----------------------------------------------------------------------------
(* Other threads, and the kernel                                           *)

\* The other thread has its result: it publishes it and takes the waker, if
\* there is one, out of the lock.
ThreadFinishes(f) ==
  /\ \E i \in 1..Len(Body(f)) : Body(f)[i].kind = "ext"
  /\ thread[f] \in {"none", "stashed"}
  /\ thread' = [thread EXCEPT ![f] = IF @ = "none" THEN "done" ELSE "taken"]
  /\ UNCHANGED <<schedVars, kernelVars, prog, bpc, pumped, futureVars, uaf>>

\* Mutant: the wake fd first, the ready mark second.
ThreadWakesReactorFirst(f) ==
  /\ \/ /\ thread[f] = "taken"
        /\ thread' = [thread EXCEPT ![f] = "woke"]
        /\ uaf' = IF CtxFreed(f) THEN uaf \union {"cell"} ELSE uaf
        /\ r' = IF CtxFreed(f) THEN r ELSE [r EXCEPT !.wakeFd = 1]
        /\ UNCHANGED schedVars
     \/ /\ thread[f] = "woke"
        /\ thread' = [thread EXCEPT ![f] = "done"]
        /\ IF CtxFreed(f) THEN uaf' = uaf \union {"cell"} /\ UNCHANGED schedVars
                          ELSE WakeEntry(f)
        /\ UNCHANGED r
  /\ UNCHANGED <<io, batch, prog, bpc, pumped, futureVars>>

\* Mutant: only the wake fd.
ThreadWakesReactorOnly(f) ==
  /\ thread[f] = "taken"
  /\ thread' = [thread EXCEPT ![f] = "done"]
  /\ uaf' = IF CtxFreed(f) THEN uaf \union {"cell"} ELSE uaf
  /\ r' = IF CtxFreed(f) THEN r ELSE [r EXCEPT !.wakeFd = 1]
  /\ UNCHANGED <<schedVars, io, batch, prog, bpc, pumped, futureVars>>

\* ruxen_waker_wake: read cell->task and mark it ready; then read
\* cell->reactor and trigger its wake fd.
ThreadWakes(f) ==
  /\ \/ /\ thread[f] = "taken"
        /\ thread' = [thread EXCEPT ![f] = "woke"]
        /\ IF CtxFreed(f) THEN uaf' = uaf \union {"cell"} /\ UNCHANGED schedVars
                          ELSE WakeEntry(f)
        /\ UNCHANGED r
     \/ /\ thread[f] = "woke"
        /\ thread' = [thread EXCEPT ![f] = "done"]
        /\ uaf' = IF CtxFreed(f) THEN uaf \union {"cell"} ELSE uaf
        /\ r' = IF CtxFreed(f) THEN r ELSE [r EXCEPT !.wakeFd = 1]
        /\ UNCHANGED schedVars
  /\ UNCHANGED <<io, batch, prog, bpc, pumped, futureVars>>

TimerExpires(k) ==
  /\ r.timers[k].armed = 1
  /\ r' = Rct!Expire(r, k)
  /\ UNCHANGED <<schedVars, io, batch, prog, bpc, pumped, futureVars, thread, uaf>>

\* The peer sends on a stream.
PeerSends(fd) ==
  /\ fd \in Streams
  /\ io' = io \union {<<fd, Rct!Read>>}
  /\ UNCHANGED <<schedVars, r, batch, prog, bpc, pumped, futureVars, thread, uaf>>

Next ==
  \/ BlockOn
  \/ \E f \in Futures : ThreadFinishes(f) \/ ThreadWakes(f)
  \/ \E k \in Timers : TimerExpires(k)
  \/ \E fd \in Fds : PeerSends(fd)

\* The executor thread and every other thread run, timers expire, and every
\* peer sends in the end.
Spec ==
  /\ Init /\ [][Next]_vars
  /\ WF_vars(BlockOn)
  /\ \A f \in Futures : WF_vars(ThreadFinishes(f)) /\ WF_vars(ThreadWakes(f))
  /\ \A k \in Timers : WF_vars(TimerExpires(k))
  /\ \A fd \in Fds : WF_vars(PeerSends(fd))

-----------------------------------------------------------------------------
(* Properties                                                              *)

\* The executor thread sleeps in epoll_wait or kevent.
Asleep ==
  /\ bpc = "park"
  /\ batch = {}
  /\ r.count > 0
  /\ Rct!Available(r) = {}

WakeInFlight == \E f \in Futures : thread[f] \in {"taken", "woke"}

\* A poll of the root would get somewhere now.
RootCanProgress ==
  LET step == Body(Root)[st[Root]]
  IN  /\ st[Root] <= Len(Body(Root))
      /\ \/ sub[Root] = 0
         \/ step.kind = "join" /\ done[step.task]
         \/ step.kind = "ext" /\ thread[Root] = "done"

\* No lost wake-up: when the executor sleeps in the kernel and no wake is
\* under way, no queued task is ready and the root has nothing to do.  The
\* pump before the decision, its result, ruxen_executor_ready_nonempty and
\* the order of the two halves of ruxen_waker_wake all serve this.
NeverSleepsOnProgress ==
  Asleep /\ ~WakeInFlight => ~Sch!ReadyNonempty /\ ~RootCanProgress

\* Nothing reads or writes a task entry after the scheduler has freed it: not
\* the slots, whose events come late, and not the wakers.
NoUseAfterFree == "entry" \notin uaf

\* What a waiting task's step has armed: the timer will expire, has, or is in
\* the batch that a drain handles, with t in its slot; the kernel watches the
\* stream for the slot that has t; the other thread holds the waker.  A join
\* has armed nothing.
TimerArmed(k, t) ==
  /\ r.timers[k].task = t
  /\ \/ r.timers[k].armed = 1
     \/ k \in r.expired
     \/ Rct!TimerEvent(k) \in batch

StreamArmed(fd, t) ==
  \E i \in 1..Len(r.slots) :
    r.slots[i].task = t /\ [fd |-> fd, mode |-> Rct!Read, slot |-> i] \in r.interest

Armed(t) ==
  LET step == Body(t)[st[t]]
  IN  \/ step.kind = "sleep" /\ TimerArmed(step.timer, t)
      \/ step.kind = "read" /\ StreamArmed(step.fd, t)
      \/ /\ step.kind = "readTimeout"
         /\ StreamArmed(step.fd, t) /\ TimerArmed(step.timer, t)
      \/ step.kind = "ext" /\ thread[t] \in {"stashed", "taken"}

\* No task is stranded: one that neither runs nor is marked ready is in the
\* middle of an await whose every way to end has the task's waker.  The pump
\* never looks at such a task again by itself, so a waker that is dropped in
\* any corner, between two awaits, on an event that came before its waker,
\* or by one of two awaited things, would leave it in the queue for ever.
WaitersAreWatched ==
  \A t \in Tasks :
    entry[t] = "live" /\ ~ready[t] /\ ~(pc = "poll" /\ queue[pos] = t) =>
      st[t] <= Len(Body(t)) /\ sub[t] = 1 /\ Armed(t)

\* block_on returns: what its root and the tasks the root joins wait for
\* happens, and each of them is polled again after it has.
Completes == <>(bpc = "done")

=============================================================================
