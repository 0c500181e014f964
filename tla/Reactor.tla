------------------------------- MODULE Reactor -------------------------------
(***************************************************************************)
(* The per-thread event reactor of library/std/future/runtime/reactor.c:   *)
(* the table of fd slots, the table of timers, registered_count, and the   *)
(* wait of ruxen_reactor_park_current, over a model of what epoll and      *)
(* kqueue keep for it.                                                     *)
(*                                                                         *)
(* The functions of reactor.c are operators on the record r, so that a     *)
(* poll can call several of them in one step; the actions below are the    *)
(* calls its clients make: one-shot futures (register, set_waker,          *)
(* check_fired, deregister), AsyncTcpStream and AsyncTcpListener of        *)
(* async_net.c, and block_on, which parks.  Everything here runs on one    *)
(* thread, except Wake and the kernel.                                     *)
(*                                                                         *)
(* A handle is -i for the i-th fd slot, k for timer k, and 0 for none.     *)
(***************************************************************************)
EXTENDS Integers, Sequences, FiniteSets, FiniteSetsExt

CONSTANTS
  Platforms, \* the platforms to look at, see platform
  Fds,       \* file descriptor numbers of the program
  Timers,    \* timer handles
  Tasks,     \* scheduler tasks, the non-NULL values of slot->task
  NoTask,    \* slot->task == NULL
  MaxSlots   \* bound: fd slots ever allocated

ASSUME ReactorAssumption ==
  /\ Platforms \subseteq {"linux", "macos"}
  /\ Fds \subseteq Nat
  /\ Timers \subseteq Nat \ {0}
  /\ NoTask \notin Tasks
  /\ MaxSlots \in Nat \ {0}

VARIABLES
  platform,  \* "linux" (epoll, timerfd, eventfd) or "macos" (kqueue): fixed
  r,      \* the RuxenReactor and the kernel's side of it, see Reactor0
  ready,  \* RuxenTaskEntry.ready, written through ruxen_executor_wake_task
  fdUse,  \* what each fd number is: "closed", "file" or "stream"
  io,     \* kernel: the <<fd, mode>> that would not block now
  held,   \* the fd registrations clients hold, as [handle, fd, mode]
  batch   \* the events of the running park that it has not looked at yet

reactorVars == <<platform, r, ready, fdUse, io, held, batch>>

Read == 0
Write == 1
Modes == {Read, Write}

WakeEvent == [kind |-> "wake", at |-> 0]
FdEvent(i) == [kind |-> "fd", at |-> i]
TimerEvent(k) == [kind |-> "timer", at |-> k]

FreeSlot == [fd |-> 0, mode |-> Read, fired |-> 0, task |-> NoTask]
FreeTimer == [live |-> 0, armed |-> 0, fired |-> 0, task |-> NoTask]

\* ruxen_reactor_alloc_struct.
Reactor0 ==
  [slots    |-> << >>,                         \* fd_slots, fd_slots_len
   timers   |-> [k \in Timers |-> FreeTimer],  \* slots; armed is kernel state
   count    |-> 0,                             \* registered_count
   interest |-> {},                            \* kernel: [fd, mode, slot]
   expired  |-> {},                            \* kernel: timers to report
   wakeFd   |-> 0]                             \* kernel: wake fd triggered

-----------------------------------------------------------------------------
(* Functions of reactor.c, on a reactor q.                                 *)

\* A slot is live when its fd is > 0: fd 0 means free.
LiveSlots(q) == {i \in 1..Len(q.slots) : q.slots[i].fd > 0}

LiveTimers(q) == {k \in Timers : q.timers[k].live = 1}

FreeSlots(q) == {i \in 1..Len(q.slots) : q.slots[i].fd = 0}

\* Mutant: a slot nobody waits on is taken for free.
AllocFdSlotIdle(q) ==
  LET idle == {i \in 1..Len(q.slots) : q.slots[i].task = NoTask}
  IN  IF idle = {} THEN Len(q.slots) + 1 ELSE Min(idle)

\* ruxen_reactor_alloc_fd_slot: the first slot with fd 0, or a new one.
AllocFdSlot(q) ==
  IF FreeSlots(q) = {} THEN Len(q.slots) + 1 ELSE Min(FreeSlots(q))

PutSlot(slots, i, s) ==
  IF i > Len(slots) THEN Append(slots, s) ELSE [slots EXCEPT ![i] = s]

\* EPOLL_CTL_ADD refuses an fd that is already in the set, whatever the
\* mode; EV_ADD keeps one filter per fd and mode and replaces its udata.
KernelRefuses(q, fd) == platform = "linux" /\ \E x \in q.interest : x.fd = fd

\* Mutant: registered_count is bumped before the kernel has agreed.
RegisterFdCountsFirst(q, fd, mode) ==
  LET i == AllocFdSlot(q)
      s == [fd |-> fd, mode |-> mode, fired |-> 0, task |-> NoTask]
  IN  IF KernelRefuses(q, fd)
        THEN [r |-> [q EXCEPT !.slots = PutSlot(@, i, [s EXCEPT !.fd = 0]),
                              !.count = @ + 1],
              handle |-> 0]
        ELSE [r |-> [q EXCEPT
                       !.slots = PutSlot(@, i, s),
                       !.count = @ + 1,
                       !.interest = {x \in @ : <<x.fd, x.mode>> # <<fd, mode>>}
                                    \union {[fd |-> fd, mode |-> mode, slot |-> i]}],
              handle |-> -i]

\* Mutant: the registration is not counted.
RegisterFdUncounted(q, fd, mode) ==
  LET i == AllocFdSlot(q)
      s == [fd |-> fd, mode |-> mode, fired |-> 0, task |-> NoTask]
  IN  IF KernelRefuses(q, fd)
        THEN [r |-> [q EXCEPT !.slots = PutSlot(@, i, [s EXCEPT !.fd = 0])],
              handle |-> 0]
        ELSE [r |-> [q EXCEPT
                       !.slots = PutSlot(@, i, s),
                       !.interest = {x \in @ : <<x.fd, x.mode>> # <<fd, mode>>}
                                    \union {[fd |-> fd, mode |-> mode, slot |-> i]}],
              handle |-> -i]

\* ruxen_reactor_register_fd_internal and ..._fd_persistent_internal.
RegisterFd(q, fd, mode) ==
  LET i == AllocFdSlot(q)
      s == [fd |-> fd, mode |-> mode, fired |-> 0, task |-> NoTask]
  IN  IF KernelRefuses(q, fd)
        THEN [r |-> [q EXCEPT !.slots = PutSlot(@, i, [s EXCEPT !.fd = 0])],
              handle |-> 0]
        ELSE [r |-> [q EXCEPT
                       !.slots = PutSlot(@, i, s),
                       !.count = @ + 1,
                       !.interest = {x \in @ : <<x.fd, x.mode>> # <<fd, mode>>}
                                    \union {[fd |-> fd, mode |-> mode, slot |-> i]}],
              handle |-> -i]

\* ruxen_reactor_register_timer.
RegisterTimer(q, k) ==
  [q EXCEPT !.timers[k] = [live |-> 1, armed |-> 1, fired |-> 0, task |-> NoTask],
            !.count = @ + 1]

\* ruxen_reactor_find_fd_slot returns a slot.
HasFdSlot(q, h) == h < 0 /\ -h \in LiveSlots(q)

\* Mutant: the waker is stored without a look at the fired bit.
SetWakerBlindly(q, h, t) ==
  LET same == [r |-> q, wakes |-> {}]
  IN  IF h = 0 \/ t = NoTask THEN same ELSE
      CASE h < 0 /\ ~HasFdSlot(q, h) -> same
        [] h < 0 /\ HasFdSlot(q, h) ->
             [r |-> [q EXCEPT !.slots[-h].task = t], wakes |-> {}]
        [] h > 0 /\ q.timers[h].live = 0 -> same
        [] OTHER -> [r |-> [q EXCEPT !.timers[h].task = t], wakes |-> {}]

\* Mutant: an event that is already there is taken back, and the task not
\* woken.
SetWakerSwallows(q, h, t) ==
  LET same == [r |-> q, wakes |-> {}]
  IN  IF h = 0 \/ t = NoTask THEN same ELSE
      CASE h < 0 /\ ~HasFdSlot(q, h) -> same
        [] h < 0 /\ HasFdSlot(q, h) ->
             [r |-> IF q.slots[-h].fired = 1
                      THEN [q EXCEPT !.slots[-h].fired = 0]
                      ELSE [q EXCEPT !.slots[-h].task = t],
              wakes |-> {}]
        [] h > 0 /\ q.timers[h].live = 0 -> same
        [] OTHER -> [r |-> [q EXCEPT !.timers[h].task = t], wakes |-> {}]

\* ruxen_reactor_set_waker: store the task, unless the event is already
\* there, in which case the task is woken at once.  The root's waker has no
\* task, and sets nothing.
SetWaker(q, h, t) ==
  LET same == [r |-> q, wakes |-> {}]
  IN  IF h = 0 \/ t = NoTask THEN same ELSE
      CASE h < 0 /\ ~HasFdSlot(q, h) -> same
        [] h < 0 /\ HasFdSlot(q, h) ->
             IF q.slots[-h].fired = 1
               THEN [r |-> [q EXCEPT !.slots[-h].fired = 0,
                                     !.slots[-h].task = NoTask],
                     wakes |-> {t}]
               ELSE [r |-> [q EXCEPT !.slots[-h].task = t], wakes |-> {}]
        [] h > 0 /\ q.timers[h].live = 0 -> same
        [] OTHER ->
             IF q.timers[h].fired = 1
               THEN [r |-> [q EXCEPT !.timers[h].task = NoTask], wakes |-> {t}]
               ELSE [r |-> [q EXCEPT !.timers[h].task = t], wakes |-> {}]

\* ruxen_reactor_check_fired: the answer, and what asking changes.  On Linux
\* a timer is asked by reading the timerfd, which drains it.
Fired(q, h) ==
  CASE h = 0 -> FALSE
    [] h < 0 -> HasFdSlot(q, h) /\ q.slots[-h].fired = 1
    [] OTHER -> IF platform = "linux" THEN h \in q.expired
                                      ELSE q.timers[h].fired = 1

AfterCheckFired(q, h) ==
  CASE h < 0 /\ HasFdSlot(q, h) -> [q EXCEPT !.slots[-h].fired = 0]
    [] h > 0 /\ platform = "linux" -> [q EXCEPT !.expired = @ \ {h}]
    [] OTHER -> q

Dec(n) == IF n > 0 THEN n - 1 ELSE n

\* Mutant: no EPOLL_CTL_DEL or EV_DELETE for an fd.
DeregisterKeepsInterest(q, h) ==
  CASE h = 0 \/ (h < 0 /\ ~HasFdSlot(q, h)) -> q
    [] h < 0 /\ HasFdSlot(q, h) ->
         [q EXCEPT !.slots[-h] = FreeSlot, !.count = Dec(@)]
    [] OTHER -> [q EXCEPT !.timers[h] = FreeTimer,
                          !.count = Dec(@),
                          !.expired = @ \ {h}]

\* ruxen_reactor_deregister, with the thread's reactor: for fd slot i ...
DeregisterFd(q, i) ==
  LET s == q.slots[i]
      gone(x) == x.fd = s.fd /\ (platform = "linux" \/ x.mode = s.mode)
  IN  [q EXCEPT !.slots[i] = FreeSlot,
                !.count = Dec(@),
                !.interest = {x \in @ : ~gone(x)}]

\* ... and for timer k.
DeregisterTimer(q, k) ==
  [q EXCEPT !.timers[k] = FreeTimer, !.count = Dec(@), !.expired = @ \ {k}]

Deregister(q, h) ==
  CASE h = 0 \/ (h < 0 /\ ~HasFdSlot(q, h)) -> q
    [] h < 0 /\ HasFdSlot(q, h) -> DeregisterFd(q, -h)
    [] h > 0 /\ q.timers[h].live = 0 /\ platform = "macos" -> q
    [] OTHER -> DeregisterTimer(q, h)

\* close(2) takes the fd out of the kernel's set.
KernelClose(q, fd) == [q EXCEPT !.interest = {x \in @ : x.fd # fd}]

\* The kernel finds timer k due.
Expire(q, k) ==
  [q EXCEPT !.timers[k].armed = 0, !.expired = @ \union {k}]

\* What epoll_wait or kevent would return now.
Available(q) ==
  {FdEvent(x.slot) : x \in {y \in q.interest : <<y.fd, y.mode>> \in io}}
  \union {TimerEvent(k) : k \in q.expired}
  \union (IF q.wakeFd = 1 THEN {WakeEvent} ELSE {})

\* kevent reports a one-shot timer, and the EV_CLEAR wake filter, once;
\* epoll reports both until they are read.
AfterWait(q) ==
  IF platform = "linux" THEN q ELSE [q EXCEPT !.expired = {}, !.wakeFd = 0]

\* One iteration of the loop over the events in ruxen_reactor_park_current.
\* On Linux an event that is not the wake fd is dropped while no fd slot was
\* ever allocated (fd_slots == NULL); on macOS a timer also gives back its
\* registration.
EventTask(q, e) ==
  CASE e.kind = "fd" -> q.slots[e.at].task
    [] e.kind = "timer" /\ (platform = "macos" \/ Len(q.slots) > 0) ->
         q.timers[e.at].task
    [] OTHER -> NoTask

\* Mutant: the woken task stays in the slot.
AfterEventKeepsTask(q, e) ==
  CASE e.kind = "wake" /\ platform = "linux" -> [q EXCEPT !.wakeFd = 0]
    [] e.kind = "fd" -> [q EXCEPT !.slots[e.at].fired = 1]
    [] e.kind = "timer" /\ platform = "linux" /\ Len(q.slots) > 0 ->
         [q EXCEPT !.timers[e.at].fired = 1]
    [] e.kind = "timer" /\ platform = "macos" ->
         [q EXCEPT !.timers[e.at].fired = 1, !.count = Dec(@)]
    [] OTHER -> q

\* Mutant: a timer that woke its task is not marked as fired.
AfterEventForgets(q, e) ==
  CASE e.kind = "wake" /\ platform = "linux" -> [q EXCEPT !.wakeFd = 0]
    [] e.kind = "fd" -> [q EXCEPT !.slots[e.at].fired = 1,
                                  !.slots[e.at].task = NoTask]
    [] e.kind = "timer" ->
         [q EXCEPT !.timers[e.at].fired = IF q.timers[e.at].task = NoTask THEN 1 ELSE 0,
                   !.timers[e.at].task = NoTask, !.count = Dec(@)]
    [] OTHER -> q

AfterEvent(q, e) ==
  CASE e.kind = "wake" /\ platform = "linux" -> [q EXCEPT !.wakeFd = 0]
    [] e.kind = "fd" -> [q EXCEPT !.slots[e.at].fired = 1,
                                  !.slots[e.at].task = NoTask]
    [] e.kind = "timer" /\ platform = "linux" /\ Len(q.slots) > 0 ->
         [q EXCEPT !.timers[e.at].fired = 1, !.timers[e.at].task = NoTask]
    [] e.kind = "timer" /\ platform = "macos" ->
         [q EXCEPT !.timers[e.at].fired = 1, !.timers[e.at].task = NoTask,
                   !.count = Dec(@)]
    [] OTHER -> q

-----------------------------------------------------------------------------
TypeOK ==
  /\ platform \in Platforms
  /\ r.slots \in Seq([fd : Fds \union {0}, mode : Modes, fired : {0, 1},
                      task : Tasks \union {NoTask}])
  /\ r.timers \in [Timers -> [live : {0, 1}, armed : {0, 1}, fired : {0, 1},
                              task : Tasks \union {NoTask}]]
  /\ r.count \in Nat
  /\ r.interest \subseteq [fd : Fds, mode : Modes, slot : 1..Len(r.slots)]
  /\ r.expired \subseteq LiveTimers(r)
  /\ r.wakeFd \in {0, 1}
  /\ ready \in [Tasks -> BOOLEAN]
  /\ fdUse \in [Fds -> {"closed", "file", "stream"}]
  /\ io \subseteq Fds \X Modes
  /\ held \subseteq [handle : -MaxSlots..-1, fd : Fds, mode : Modes]
  /\ \A e \in batch : \/ e = WakeEvent
                      \/ e.kind = "fd" /\ e.at \in 1..Len(r.slots)
                      \/ e.kind = "timer" /\ e.at \in LiveTimers(r)

\* Standard input is open from the start.
Init ==
  /\ platform \in Platforms
  /\ r = Reactor0
  /\ ready = [t \in Tasks |-> FALSE]
  /\ fdUse = [f \in Fds |-> IF f = 0 THEN "file" ELSE "closed"]
  /\ io = {}
  /\ held = {}
  /\ batch = {}

Outside == batch = {}     \* not inside ruxen_reactor_park_current

RoomForSlots(n) == Len(r.slots) + n - Cardinality(FreeSlots(r)) <= MaxSlots

Woken(S) == [t \in Tasks |-> ready[t] \/ t \in S]

\* The registration of a client that got handle h, none if it got 0.
Holding(h, fd, mode) ==
  IF h = 0 THEN {} ELSE {[handle |-> h, fd |-> fd, mode |-> mode]}

-----------------------------------------------------------------------------
(* One-shot futures: files, standard input, connecting sockets, sleeps.    *)

OpenFile(fd) ==
  /\ Outside
  /\ fdUse[fd] = "closed"
  /\ fdUse' = [fdUse EXCEPT ![fd] = "file"]
  /\ UNCHANGED <<r, ready, io, held, batch>>

\* ruxen_reactor_register_fd_read / _write, from a poll that saw EAGAIN.
FutureRegister(fd, mode) ==
  /\ Outside
  /\ fdUse[fd] = "file"
  /\ RoomForSlots(1)
  /\ LET g == RegisterFd(r, fd, mode)
     IN  /\ r' = g.r
         /\ held' = held \union Holding(g.handle, fd, mode)
  /\ UNCHANGED <<ready, fdUse, io, batch>>

\* A future that is done, or dropped, gives its own registration back.
FutureDeregister(x) ==
  /\ Outside
  /\ x \in held
  /\ fdUse[x.fd] = "file"
  /\ r' = Deregister(r, x.handle)
  /\ held' = held \ {x}
  /\ UNCHANGED <<ready, fdUse, io, batch>>

\* The owner closes the fd after its futures are gone.
CloseFile(fd) ==
  /\ Outside
  /\ fdUse[fd] = "file"
  /\ fd # 0
  /\ \A x \in held : x.fd # fd
  /\ fdUse' = [fdUse EXCEPT ![fd] = "closed"]
  /\ r' = KernelClose(r, fd)
  /\ io' = {p \in io : p[1] # fd}
  /\ UNCHANGED <<ready, held, batch>>

\* First poll of a sleep: register, then leave the waker.
SleepRegister(k, t) ==
  /\ Outside
  /\ r.timers[k].live = 0
  /\ LET g == SetWaker(RegisterTimer(r, k), k, t)
     IN  /\ r' = g.r
         /\ ready' = Woken(g.wakes)
  /\ UNCHANGED <<fdUse, io, held, batch>>

\* Any later poll asks the timer.
SleepCheck(k) ==
  /\ Outside
  /\ r.timers[k].live = 1
  /\ r' = AfterCheckFired(r, k)
  /\ UNCHANGED <<ready, fdUse, io, held, batch>>

SleepDrop(k) ==
  /\ Outside
  /\ r.timers[k].live = 1
  /\ r' = Deregister(r, k)
  /\ UNCHANGED <<ready, fdUse, io, held, batch>>

\* A poll that saw EAGAIN leaves its waker on the registration it uses.
AwaitIo(x, t) ==
  /\ Outside
  /\ x \in held
  /\ LET g == SetWaker(r, x.handle, t)
     IN  /\ r' = g.r
         /\ ready' = Woken(g.wakes)
  /\ UNCHANGED <<fdUse, io, held, batch>>

\* The scheduler polls a task it finds ready.
TaskPolled(t) ==
  /\ Outside
  /\ ready[t]
  /\ ready' = [ready EXCEPT ![t] = FALSE]
  /\ UNCHANGED <<r, fdUse, io, held, batch>>

-----------------------------------------------------------------------------
(* async_net.c                                                             *)

\* ruxen_async_tcp_stream_from_fd: a socket fresh from accept, or one whose
\* connect future has finished, is registered for both modes.
StreamFromFd(fd) ==
  /\ Outside
  /\ fd # 0
  /\ fdUse[fd] # "stream"
  /\ \A x \in held : x.fd # fd
  /\ RoomForSlots(2)
  /\ fdUse' = [fdUse EXCEPT ![fd] = "stream"]
  /\ LET a == RegisterFd(r, fd, Read)
         b == RegisterFd(a.r, fd, Write)
     IN  /\ r' = b.r
         /\ held' = held \union Holding(a.handle, fd, Read)
                         \union Holding(b.handle, fd, Write)
  /\ UNCHANGED <<ready, io, batch>>

\* ruxen_async_tcp_stream_drop and _shutdown: unregister, then close.  The
\* former passes reactor 0, for which ruxen_reactor_deregister returns at
\* once: the slots stay as they are.
StreamDrop(fd) ==
  /\ Outside
  /\ fdUse[fd] = "stream"
  /\ fdUse' = [fdUse EXCEPT ![fd] = "closed"]
  /\ r' = KernelClose(r, fd)
  /\ held' = {x \in held : x.fd # fd}
  /\ io' = {p \in io : p[1] # fd}
  /\ UNCHANGED <<ready, batch>>

-----------------------------------------------------------------------------
(* Parking, waking, and the kernel                                         *)

\* ruxen_reactor_wake, from any thread, at any time.
Wake ==
  /\ r' = [r EXCEPT !.wakeFd = 1]
  /\ UNCHANGED <<ready, fdUse, io, held, batch>>

\* ruxen_reactor_park_current with registered_count <= 0 is a sched_yield
\* and changes nothing.  Otherwise the thread sleeps until there is an
\* event, and takes all there are (the array of 16 holds them).
ParkWait ==
  /\ Outside
  /\ r.count > 0
  /\ Available(r) # {}
  /\ batch' = Available(r)
  /\ r' = AfterWait(r)
  /\ UNCHANGED <<ready, fdUse, io, held>>

ParkEvent(e) ==
  /\ e \in batch
  /\ batch' = batch \ {e}
  /\ r' = AfterEvent(r, e)
  /\ ready' = Woken({EventTask(r, e)})
  /\ UNCHANGED <<fdUse, io, held>>

ParkStep == ParkWait \/ \E e \in batch : ParkEvent(e)

\* What the kernel sees during the loop over the events concerns the next
\* wait only, so these two steps are left outside it.
TimerExpires(k) ==
  /\ Outside
  /\ r.timers[k].armed = 1
  /\ r' = Expire(r, k)
  /\ UNCHANGED <<ready, fdUse, io, held, batch>>

\* Readiness matters from the moment the kernel watches the fd.
IoChanges(fd, mode) ==
  /\ Outside
  /\ <<fd, mode>> \in io \/ \E x \in r.interest : x.fd = fd /\ x.mode = mode
  /\ io' = IF <<fd, mode>> \in io THEN io \ {<<fd, mode>>}
                                  ELSE io \union {<<fd, mode>>}
  /\ UNCHANGED <<r, ready, fdUse, held, batch>>

Step ==
  \/ \E fd \in Fds : OpenFile(fd) \/ CloseFile(fd) \/ StreamFromFd(fd)
                     \/ StreamDrop(fd)
  \/ \E fd \in Fds, mode \in Modes : FutureRegister(fd, mode) \/ IoChanges(fd, mode)
  \/ \E x \in held : FutureDeregister(x) \/ \E t \in Tasks : AwaitIo(x, t)
  \/ \E k \in Timers : \/ \E t \in Tasks : SleepRegister(k, t)
                       \/ SleepCheck(k) \/ SleepDrop(k) \/ TimerExpires(k)
  \/ \E t \in Tasks : TaskPolled(t)
  \/ Wake
  \/ ParkStep

Next == Step /\ UNCHANGED platform

Spec == Init /\ [][Next]_reactorVars

-----------------------------------------------------------------------------
(* Properties                                                              *)

\* registered_count, by which park_current decides whether to sleep in the
\* kernel, is the number of live table entries.  On macOS a timer that has
\* fired gives its count back twice, when it fires and when it is
\* deregistered: there the count may only be too low.
CountMatchesTable ==
  LET live == Cardinality(LiveSlots(r)) + Cardinality(LiveTimers(r))
  IN  IF platform = "linux" THEN r.count = live ELSE r.count <= live

\* Every registration the kernel holds is one a client holds, and reports to
\* the slot that records it: park_current, which follows the pointer the
\* kernel gives back, never marks or wakes on behalf of another fd.
EventRouting ==
  \A x \in r.interest :
    /\ r.slots[x.slot].fd = x.fd /\ r.slots[x.slot].mode = x.mode
    /\ [handle |-> -x.slot, fd |-> x.fd, mode |-> x.mode] \in held

\* No two clients share a slot, and the slot behind a handle is the one its
\* holder registered, however slots are freed and reused in between: so
\* deregister removes "the right filter".
RegistrationsDisjoint ==
  \A x, y \in held :
    /\ x.handle = y.handle => x = y
    /\ r.slots[-x.handle].fd = x.fd /\ r.slots[-x.handle].mode = x.mode

\* An event and a waker never sit side by side: whichever of park_current
\* and set_waker comes second sees the other and wakes the task.
NoMissedEvent ==
  /\ \A i \in 1..Len(r.slots) : r.slots[i].fired = 1 => r.slots[i].task = NoTask
  /\ \A k \in Timers : r.timers[k].fired = 1 => r.timers[k].task = NoTask

\* A task parked on a registration its future still holds can be reached:
\* the kernel watches that fd for that slot, and park_current will ask.  Not
\* so on macOS, where a second EV_ADD for the same fd and mode takes the
\* filter away from the first slot, and the count may be too low.
ParkedIsWatched ==
  platform = "linux" =>
    \A x \in held :
      r.slots[-x.handle].task # NoTask =>
        /\ [fd |-> x.fd, mode |-> x.mode, slot |-> -x.handle] \in r.interest
        /\ r.count > 0

\* kqueue reports a one-shot timer once.  Until it is deregistered, a timer
\* is armed, or about to be reported, or remembered as fired.
OneShotNotLost ==
  platform = "macos" =>
    \A k \in LiveTimers(r) :
      \/ r.timers[k].armed = 1
      \/ k \in r.expired
      \/ TimerEvent(k) \in batch
      \/ r.timers[k].fired = 1

=============================================================================
