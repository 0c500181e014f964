---------------------------- MODULE ReactorProofs ----------------------------
(***************************************************************************)
(* Proofs, for any number of fds, timers and tasks and on both platforms,  *)
(* of who is told of an event: the slot tables, the kernel's set and the   *)
(* handles of the clients agree, and neither an event nor the one report   *)
(* of a one-shot timer is lost.  Where fd numbers matter, standard input   *)
(* (fd 0, which also marks a free slot) is taken out.                      *)
(***************************************************************************)
EXTENDS Reactor, FiniteSetTheorems, WellFoundedInduction, TLAPS

Slot == [fd : Fds \union {0}, mode : Modes, fired : {0, 1},
         task : Tasks \union {NoTask}]

Timer == [live : {0, 1}, armed : {0, 1}, fired : {0, 1},
          task : Tasks \union {NoTask}]

Registration == [handle : Int, fd : Fds, mode : Modes]

\* The shape of a reactor.
Shape == [slots : Seq(Slot), timers : [Timers -> Timer], count : Nat,
          interest : SUBSET [fd : Fds, mode : Modes, slot : Nat],
          expired : SUBSET Timers, wakeFd : {0, 1}]

\* Slot i of q records this fd and mode.
Records(q, i, fd, mode) ==
  /\ i \in 1..Len(q.slots)
  /\ q.slots[i].fd = fd /\ q.slots[i].mode = mode

\* RegistrationsDisjoint and EventRouting, of a reactor q and clients that
\* hold H: what a poll keeps between two calls of reactor.c.
Disjoint(q, H) ==
  \A x \in H : /\ Records(q, -x.handle, x.fd, x.mode)
               /\ \A y \in H : x.handle = y.handle => x = y

Routed(q, H) ==
  \A x \in q.interest :
    /\ Records(q, x.slot, x.fd, x.mode)
    /\ [handle |-> -x.slot, fd |-> x.fd, mode |-> x.mode] \in H

Sound(q, H) == H \subseteq Registration /\ Disjoint(q, H) /\ Routed(q, H)

Silent(q) ==
  /\ \A i \in 1..Len(q.slots) : q.slots[i].fired = 1 => q.slots[i].task = NoTask
  /\ \A k \in Timers : q.timers[k].fired = 1 => q.timers[k].task = NoTask

-----------------------------------------------------------------------------
(* Slots *)

\* A set of naturals that is not empty has a least element, which Min picks.
LEMMA LeastElement ==
  ASSUME NEW S \in SUBSET Nat, S # {}
  PROVE  Min(S) \in S
<1> DEFINE Less == {ss \in Nat \X Nat : ss[1] < ss[2]}
<1>1. IsWellFoundedOn(Less, Nat)
  BY NatLessThanWellFounded DEF OpToRel
<1>2. PICK x \in S : \A y \in S : ~(<<y, x>> \in Less)
  <2> HIDE DEF Less
  <2> QED
    BY <1>1, WFMin
<1>3. ASSUME NEW y \in S PROVE x =< y
  <2>1. <<y, x>> \notin Less
    BY <1>2
  <2>2. x \in Nat /\ y \in Nat
    OBVIOUS
  <2>3. ~(y < x)
    BY <2>1, <2>2
  <2> QED
    BY <2>2, <2>3
<1> QED
  BY <1>3 DEF Min

\* The slot a registration gets is free, or new.
LEMMA AllocatedSlot ==
  ASSUME NEW q \in Shape
  PROVE  \/ AllocFdSlot(q) \in 1..Len(q.slots) /\ q.slots[AllocFdSlot(q)].fd = 0
         \/ AllocFdSlot(q) = Len(q.slots) + 1
<1>1. FreeSlots(q) \in SUBSET Nat
  BY DEF FreeSlots
<1>2. FreeSlots(q) # {} => Min(FreeSlots(q)) \in FreeSlots(q)
  BY <1>1, LeastElement
<1> QED
  BY <1>2 DEF AllocFdSlot, FreeSlots

\* What putting a slot into the table changes.
LEMMA PutSlotFacts ==
  ASSUME NEW slots \in Seq(Slot), NEW s \in Slot, NEW i \in 1..(Len(slots) + 1)
  PROVE  LET new == PutSlot(slots, i, s)
         IN  /\ new \in Seq(Slot)
             /\ Len(slots) <= Len(new)
             /\ i \in 1..Len(new) /\ new[i] = s
             /\ \A j \in 1..Len(new) : j # i => j \in 1..Len(slots) /\ new[j] = slots[j]
             /\ \A j \in 1..Len(slots) : j \in 1..Len(new)
<1>1. CASE i > Len(slots)
  BY <1>1 DEF PutSlot
<1>2. CASE ~(i > Len(slots))
  BY <1>2 DEF PutSlot
<1> QED
  BY <1>1, <1>2

\* Slots may come, and those of H keep what they record: nothing is lost.
LEMMA SlotPut ==
  ASSUME 0 \notin Fds,
         NEW q \in Shape, NEW H, Sound(q, H),
         NEW s \in Slot
  PROVE  LET i == AllocFdSlot(q)
             new == PutSlot(q.slots, i, s)
         IN  /\ i \in Nat \ {0}
             /\ new \in Seq(Slot) /\ Len(q.slots) <= Len(new)
             /\ i \in 1..Len(new) /\ new[i] = s
             /\ \A x \in H : -x.handle # i
             /\ \A x \in q.interest : x.slot # i
             /\ \A j \in 1..Len(q.slots) :
                  j \in 1..Len(new) /\ (j # i => new[j] = q.slots[j])
             /\ \A j \in 1..Len(new) :
                  j # i => j \in 1..Len(q.slots) /\ new[j] = q.slots[j]
<1> DEFINE i == AllocFdSlot(q)
           new == PutSlot(q.slots, i, s)
<1>1. q.slots \in Seq(Slot)
  BY DEF Shape
<1>2. /\ i \in 1..(Len(q.slots) + 1)
      /\ i \in 1..Len(q.slots) => q.slots[i].fd = 0
  BY <1>1, AllocatedSlot
<1>3. \A x \in H : -x.handle # i
  BY <1>2 DEF Sound, Disjoint, Records, Registration
<1>4. \A x \in q.interest : x.slot # i
  BY <1>2 DEF Sound, Routed, Records, Shape
<1> HIDE DEF i
<1>5. /\ new \in Seq(Slot)
      /\ Len(q.slots) <= Len(new)
      /\ i \in 1..Len(new) /\ new[i] = s
      /\ \A j \in 1..Len(new) : j # i => j \in 1..Len(q.slots) /\ new[j] = q.slots[j]
      /\ \A j \in 1..Len(q.slots) : j \in 1..Len(new)
  BY <1>1, <1>2, PutSlotFacts
<1> HIDE DEF new
<1>6. i \in Nat \ {0} /\ Len(q.slots) \in Nat
  BY <1>1, <1>2
<1> QED
  BY <1>3, <1>4, <1>5, <1>6 DEF i, new

\* register_fd: the client that gets a handle has a slot of its own, which
\* the kernel reports to; one that gets none leaves all as it was.
LEMMA RegisterKeeps ==
  ASSUME 0 \notin Fds,
         NEW q \in Shape, NEW H, Sound(q, H),
         NEW fd \in Fds, NEW mode \in Modes
  PROVE  LET g == RegisterFd(q, fd, mode)
         IN  /\ g.r \in Shape
             /\ Sound(g.r, H \union Holding(g.handle, fd, mode))
             /\ Len(q.slots) <= Len(g.r.slots)
<1> DEFINE i == AllocFdSlot(q)
           s == [fd |-> fd, mode |-> mode, fired |-> 0, task |-> NoTask]
           s0 == [s EXCEPT !.fd = 0]
           g == RegisterFd(q, fd, mode)
           K == H \union Holding(g.handle, fd, mode)
<1>1. s \in Slot /\ s0 \in Slot
  BY DEF Slot
<1>2. CASE KernelRefuses(q, fd)
  <2> DEFINE new == PutSlot(q.slots, i, s0)
  <2>1. g = [r |-> [q EXCEPT !.slots = new], handle |-> 0]
    BY <1>2 DEF RegisterFd
  <2>2. K = H
    BY <2>1 DEF Holding
  <2>3. /\ new \in Seq(Slot) /\ Len(q.slots) <= Len(new)
        /\ \A x \in H : -x.handle # i
        /\ \A x \in q.interest : x.slot # i
        /\ \A j \in 1..Len(q.slots) :
             j \in 1..Len(new) /\ (j # i => new[j] = q.slots[j])
    BY <1>1, SlotPut
  <2> HIDE DEF new, i, s0
  <2>4. g.r \in Shape /\ g.r.slots = new /\ g.r.interest = q.interest
    <3>1. g.r = [q EXCEPT !.slots = new]
      BY <2>1
    <3> HIDE DEF g
    <3> QED
      BY <3>1, <2>3 DEF Shape
  <2>5. Disjoint(g.r, H)
    BY <2>3, <2>4 DEF Sound, Disjoint, Records
  <2>6. Routed(g.r, H)
    BY <2>3, <2>4 DEF Sound, Routed, Records
  <2> QED
    BY <2>2, <2>3, <2>4, <2>5, <2>6 DEF Sound
<1>3. CASE ~KernelRefuses(q, fd)
  <2> DEFINE new == PutSlot(q.slots, i, s)
             mine == [handle |-> -i, fd |-> fd, mode |-> mode]
             int == {x \in q.interest : <<x.fd, x.mode>> # <<fd, mode>>}
                      \union {[fd |-> fd, mode |-> mode, slot |-> i]}
  <2>1. /\ i \in Nat \ {0}
        /\ new \in Seq(Slot) /\ Len(q.slots) <= Len(new)
        /\ i \in 1..Len(new) /\ new[i] = s
        /\ \A x \in H : -x.handle # i
        /\ \A x \in q.interest : x.slot # i
        /\ \A j \in 1..Len(q.slots) :
             j \in 1..Len(new) /\ (j # i => new[j] = q.slots[j])
    BY <1>1, SlotPut
  <2>2. g = [r |-> [q EXCEPT !.slots = new, !.count = @ + 1, !.interest = int],
             handle |-> -i]
    BY <1>3 DEF RegisterFd
  <2>3. K = H \union {mine}
    BY <2>1, <2>2 DEF Holding
  <2>4. new[i].fd = fd /\ new[i].mode = mode
    BY <2>1
  <2> HIDE DEF new, i, s
  <2>5. int \in SUBSET [fd : Fds, mode : Modes, slot : Nat]
    BY <2>1 DEF Shape
  <2>6. g.r \in Shape /\ g.r.slots = new /\ g.r.interest = int
    <3> DEFINE n == q.count + 1
    <3>1. g.r = [q EXCEPT !.slots = new, !.count = n, !.interest = int]
      BY <2>2
    <3>2. n \in Nat
      BY DEF Shape
    <3> HIDE DEF g, int, n
    <3> QED
      BY <3>1, <3>2, <2>1, <2>5 DEF Shape
  <2>7. H \subseteq Registration /\ K \subseteq Registration
    BY <2>1, <2>3 DEF Sound, Registration
  <2>8. Records(g.r, i, fd, mode)
    BY <2>1, <2>4, <2>6 DEF Records
  <2>9. ASSUME NEW j, NEW f, NEW md, Records(q, j, f, md), j # i
        PROVE  Records(g.r, j, f, md)
    BY <2>1, <2>6, <2>9 DEF Records
  <2>10. Disjoint(g.r, K)
    <3>1. ASSUME NEW x \in K PROVE Records(g.r, -x.handle, x.fd, x.mode)
      <4>1. CASE x \in H
        BY <4>1, <2>1, <2>9 DEF Sound, Disjoint
      <4>2. CASE x = mine
        <5>1. -x.handle = i /\ x.fd = fd /\ x.mode = mode
          BY <4>2, <2>1
        <5> QED
          BY <5>1, <2>8
      <4> QED
        BY <3>1, <4>1, <4>2, <2>3
    <3>2. ASSUME NEW x \in K, NEW y \in K, x.handle = y.handle PROVE x = y
      <4>1. \A z \in H : z.handle # mine.handle
        BY <2>1, <2>7 DEF Registration
      <4> QED
        BY <4>1, <3>2, <2>3 DEF Sound, Disjoint
    <3> QED
      BY <3>1, <3>2 DEF Disjoint
  <2>11. Routed(g.r, K)
    <3>1. ASSUME NEW x \in q.interest
          PROVE  /\ Records(g.r, x.slot, x.fd, x.mode)
                 /\ [handle |-> -x.slot, fd |-> x.fd, mode |-> x.mode] \in K
      BY <2>1, <2>3, <2>9 DEF Sound, Routed
    <3>2. ASSUME NEW x, x = [fd |-> fd, mode |-> mode, slot |-> i]
          PROVE  /\ Records(g.r, x.slot, x.fd, x.mode)
                 /\ [handle |-> -x.slot, fd |-> x.fd, mode |-> x.mode] \in K
      BY <3>2, <2>3, <2>8
    <3> QED
      BY <3>1, <3>2, <2>6 DEF Routed
  <2> QED
    BY <2>1, <2>6, <2>7, <2>10, <2>11 DEF Sound
<1> QED
  BY <1>2, <1>3

LEMMA RegisterIsSilent ==
  ASSUME NEW q \in Shape, Silent(q), NEW fd \in Fds, NEW mode \in Modes
  PROVE  LET g == RegisterFd(q, fd, mode)
         IN  Silent(g.r) /\ g.r.timers = q.timers /\ g.r.expired = q.expired
<1> DEFINE i == AllocFdSlot(q)
           s == [fd |-> fd, mode |-> mode, fired |-> 0, task |-> NoTask]
           s0 == [s EXCEPT !.fd = 0]
           g == RegisterFd(q, fd, mode)
<1>1. s \in Slot /\ s0 \in Slot
  BY DEF Slot
<1>2. i \in 1..(Len(q.slots) + 1) /\ q.slots \in Seq(Slot)
  BY AllocatedSlot DEF Shape
<1>3. \/ g.r.slots = PutSlot(q.slots, i, s)
      \/ g.r.slots = PutSlot(q.slots, i, s0)
  BY DEF RegisterFd, Shape
<1>4. g.r.timers = q.timers /\ g.r.expired = q.expired
  BY DEF RegisterFd, Shape
<1>5. ASSUME NEW z \in Slot, z.fired = 0, NEW new, new = PutSlot(q.slots, i, z)
      PROVE  \A j \in 1..Len(new) : new[j].fired = 1 => new[j].task = NoTask
  BY <1>2, <1>5, PutSlotFacts DEF Silent
<1>6. s.fired = 0 /\ s0.fired = 0
  OBVIOUS
<1> HIDE DEF g, i, s, s0
<1>7. \A j \in 1..Len(g.r.slots) :
        g.r.slots[j].fired = 1 => g.r.slots[j].task = NoTask
  BY <1>1, <1>3, <1>5, <1>6
<1> QED
  BY <1>4, <1>7 DEF Silent, g

\* What the slots record decides who is served, not who waits.
LEMMA SameRecords ==
  ASSUME NEW q, NEW H, Sound(q, H), NEW p,
         Len(p.slots) = Len(q.slots),
         \A i \in 1..Len(q.slots) : /\ p.slots[i].fd = q.slots[i].fd
                                    /\ p.slots[i].mode = q.slots[i].mode,
         p.interest \subseteq q.interest
  PROVE  Sound(p, H)
<1>1. ASSUME NEW i, NEW fd, NEW mode, Records(q, i, fd, mode)
      PROVE  Records(p, i, fd, mode)
  BY <1>1 DEF Records
<1> QED
  BY <1>1 DEF Sound, Disjoint, Routed

\* Changing who waits on slot j, and whether it has fired.
Marked(q, j, fired, t) ==
  [q EXCEPT !.slots[j].fired = fired, !.slots[j].task = t]

LEMMA MarkedKeeps ==
  ASSUME NEW q \in Shape, NEW H, Sound(q, H), Silent(q),
         NEW j \in 1..Len(q.slots), NEW n \in {0, 1},
         NEW t \in Tasks \union {NoTask}, n = 1 => t = NoTask
  PROVE  LET p == Marked(q, j, n, t)
         IN  /\ p \in Shape /\ Sound(p, H) /\ Silent(p)
             /\ Len(p.slots) = Len(q.slots) /\ LiveSlots(p) = LiveSlots(q)
             /\ p.timers = q.timers /\ p.expired = q.expired /\ p.count = q.count
             /\ p.interest = q.interest
<1> DEFINE new == [q.slots EXCEPT ![j] = [q.slots[j] EXCEPT !.fired = n, !.task = t]]
           p == Marked(q, j, n, t)
<1>1. p = [q EXCEPT !.slots = new]
  BY DEF Marked, Shape
<1>2. q.slots \in Seq(Slot)
  BY DEF Shape
<1>3. [q.slots[j] EXCEPT !.fired = n, !.task = t] \in Slot
  <2> DEFINE old == q.slots[j]
  <2>1. old \in Slot
    BY <1>2
  <2> HIDE DEF old
  <2>2. [old EXCEPT !.fired = n, !.task = t] \in Slot
    BY <2>1 DEF Slot
  <2> QED
    BY <2>2 DEF old
<1>4. /\ new \in Seq(Slot) /\ Len(new) = Len(q.slots)
      /\ \A i \in 1..Len(q.slots) :
           /\ i # j => new[i] = q.slots[i]
           /\ new[i].fd = q.slots[i].fd /\ new[i].mode = q.slots[i].mode
      /\ new[j].fired = n /\ new[j].task = t
  BY <1>2, <1>3 DEF Slot
<1> HIDE DEF new, p
<1>5. /\ p \in Shape /\ p.slots = new /\ p.timers = q.timers /\ p.count = q.count
      /\ p.expired = q.expired /\ p.interest = q.interest
  BY <1>1, <1>4 DEF Shape
<1>6. Sound(p, H)
  BY <1>4, <1>5, SameRecords
<1>7. Silent(p) /\ LiveSlots(p) = LiveSlots(q)
  BY <1>4, <1>5 DEF Silent, LiveSlots
<1> QED
  BY <1>4, <1>5, <1>6, <1>7 DEF p

\* A change of the timers, the count, the kernel's timers or the wake fd.
LEMMA TimersKeep ==
  ASSUME NEW q \in Shape, NEW H, Sound(q, H),
         NEW p \in Shape, p.slots = q.slots, p.interest \subseteq q.interest
  PROVE  Sound(p, H)
BY SameRecords

-----------------------------------------------------------------------------
(* Calls *)

\* A timer that is live is armed, or will be reported, or has been.
Kept(q, b) ==
  \A k \in LiveTimers(q) :
    \/ q.timers[k].armed = 1
    \/ k \in q.expired
    \/ TimerEvent(k) \in b
    \/ q.timers[k].fired = 1

\* p has the timers of q, but for who waits on them.
SameTimers(q, p) ==
  /\ p.expired = q.expired
  /\ \A k \in Timers : /\ p.timers[k].live = q.timers[k].live
                       /\ p.timers[k].armed = q.timers[k].armed
                       /\ p.timers[k].fired = q.timers[k].fired

LEMMA SameTimersKept ==
  ASSUME NEW q, NEW p, SameTimers(q, p), NEW b, Kept(q, b)
  PROVE  Kept(p, b)
BY DEF SameTimers, Kept, LiveTimers

\* Putting v in the place of timer k.
WithTimer(q, k, v) == [q EXCEPT !.timers = [q.timers EXCEPT ![k] = v]]

LEMMA WithTimerKeeps ==
  ASSUME NEW q \in Shape, NEW H, Sound(q, H), Silent(q),
         NEW k \in Timers, NEW v \in Timer, v.fired = 1 => v.task = NoTask
  PROVE  LET p == WithTimer(q, k, v)
         IN  /\ p \in Shape /\ Sound(p, H) /\ Silent(p)
             /\ p.slots = q.slots /\ p.expired = q.expired /\ p.count = q.count
             /\ p.interest = q.interest
             /\ p.timers[k] = v
             /\ \A j \in Timers : j # k => p.timers[j] = q.timers[j]
<1> DEFINE new == [q.timers EXCEPT ![k] = v]
           p == WithTimer(q, k, v)
<1>1. q.timers \in [Timers -> Timer]
  BY DEF Shape
<1>2. /\ new \in [Timers -> Timer] /\ new[k] = v
      /\ \A j \in Timers : j # k => new[j] = q.timers[j]
  BY <1>1
<1>3. p = [q EXCEPT !.timers = new]
  BY DEF WithTimer
<1> HIDE DEF new, p
<1>4. /\ p \in Shape /\ p.slots = q.slots /\ p.timers = new
      /\ p.expired = q.expired /\ p.count = q.count /\ p.interest = q.interest
  BY <1>2, <1>3 DEF Shape
<1>5. Sound(p, H)
  BY <1>4, TimersKeep
<1>6. Silent(p)
  BY <1>2, <1>4 DEF Silent
<1> QED
  BY <1>2, <1>4, <1>5, <1>6 DEF p

\* set_waker stores the task or wakes it, and forgets no timer.
LEMMA SetWakerKeeps ==
  ASSUME NEW q \in Shape, NEW H, Sound(q, H), Silent(q),
         NEW h \in Int, h > 0 => h \in Timers, NEW t \in Tasks
  PROVE  LET p == SetWaker(q, h, t).r
         IN  /\ p \in Shape /\ Sound(p, H) /\ Silent(p)
             /\ Len(p.slots) = Len(q.slots) /\ SameTimers(q, p)
             /\ LiveSlots(p) = LiveSlots(q) /\ p.count = q.count
             /\ p.interest = q.interest
<1> DEFINE p == SetWaker(q, h, t).r
<1>0. q.slots \in Seq(Slot) /\ q.timers \in [Timers -> Timer] /\ t # NoTask
  BY ReactorAssumption DEF Shape
<1>1. CASE p = q
  BY <1>1 DEF SameTimers
<1>2. CASE h < 0 /\ HasFdSlot(q, h)
  <2>1. -h \in 1..Len(q.slots) /\ h # 0 /\ ~(h > 0)
    BY <1>2 DEF HasFdSlot, LiveSlots
  <2>2. q.slots[-h] \in Slot /\ q.slots[-h].fired \in {0, 1}
    <3>1. q.slots[-h] \in Slot
      BY <2>1, <1>0
    <3> QED
      BY <3>1 DEF Slot
  <2>3. CASE q.slots[-h].fired = 1
    <3>1. p = Marked(q, -h, 0, NoTask)
      BY <1>0, <1>2, <2>1, <2>3 DEF SetWaker, Marked
    <3> HIDE DEF p
    <3>2. /\ p \in Shape /\ Sound(p, H) /\ Silent(p)
          /\ Len(p.slots) = Len(q.slots) /\ LiveSlots(p) = LiveSlots(q)
          /\ p.timers = q.timers /\ p.expired = q.expired /\ p.count = q.count
          /\ p.interest = q.interest
      <4>1. /\ -h \in 1..Len(q.slots) /\ 0 \in {0, 1}
            /\ NoTask \in Tasks \union {NoTask} /\ (0 = 1 => NoTask = NoTask)
        BY <2>1
      <4> QED
        BY <3>1, <4>1, MarkedKeeps, ZenonT(30)
    <3> QED
      BY <3>2 DEF SameTimers, p
  <2>4. CASE q.slots[-h].fired = 0
    <3>1. p = [q EXCEPT !.slots[-h].task = t]
      BY <1>0, <1>2, <2>1, <2>4 DEF SetWaker
    <3>2. [q.slots[-h] EXCEPT !.fired = 0, !.task = t]
            = [q.slots[-h] EXCEPT !.task = t]
      BY <2>2, <2>4 DEF Slot
    <3>3. p = [q EXCEPT !.slots = [@ EXCEPT ![-h] = [q.slots[-h] EXCEPT !.task = t]]]
      BY <3>1
    <3>4. Marked(q, -h, 0, t)
            = [q EXCEPT !.slots = [@ EXCEPT ![-h] =
                 [q.slots[-h] EXCEPT !.fired = 0, !.task = t]]]
      BY <2>1, <1>0 DEF Marked, Shape
    <3>5. p = Marked(q, -h, 0, t)
      BY <3>2, <3>3, <3>4
    <3> HIDE DEF p
    <3>6. /\ p \in Shape /\ Sound(p, H) /\ Silent(p)
          /\ Len(p.slots) = Len(q.slots) /\ LiveSlots(p) = LiveSlots(q)
          /\ p.timers = q.timers /\ p.expired = q.expired /\ p.count = q.count
          /\ p.interest = q.interest
      <4>1. /\ -h \in 1..Len(q.slots) /\ 0 \in {0, 1}
            /\ t \in Tasks \union {NoTask} /\ (0 = 1 => t = NoTask)
        BY <2>1
      <4> QED
        BY <3>5, <4>1, MarkedKeeps, ZenonT(30)
    <3> QED
      BY <3>6 DEF SameTimers, p
  <2> QED
    BY <2>2, <2>3, <2>4
<1>3. CASE h > 0 /\ q.timers[h].live # 0
  <2>1. h \in Timers /\ h # 0 /\ ~(h < 0)
    BY <1>3
  <2>2. q.timers[h] \in Timer /\ q.timers[h].fired \in {0, 1}
    BY <2>1, <1>0 DEF Timer
  <2> DEFINE old == q.timers[h]
             w == IF old.fired = 1 THEN NoTask ELSE t
             v == [old EXCEPT !.task = w]
  <2>3. p = [q EXCEPT !.timers[h].task = w]
    BY <1>0, <1>3, <2>1 DEF SetWaker
  <2>4. p = WithTimer(q, h, v)
    BY <2>3, <2>1 DEF WithTimer, Shape
  <2>5. /\ v \in Timer
        /\ v.fired = 1 => v.task = NoTask
        /\ v.live = old.live /\ v.armed = old.armed /\ v.fired = old.fired
    <3>1. old \in Timer
      BY <2>2
    <3> HIDE DEF old
    <3> QED
      BY <3>1 DEF Timer
  <2> HIDE DEF v
  <2>6. /\ p \in Shape /\ Sound(p, H) /\ Silent(p)
        /\ p.slots = q.slots /\ p.expired = q.expired /\ p.count = q.count
        /\ p.interest = q.interest /\ p.timers[h] = v
        /\ \A j \in Timers : j # h => p.timers[j] = q.timers[j]
    BY <2>1, <2>4, <2>5, WithTimerKeeps
  <2> QED
    BY <2>5, <2>6 DEF SameTimers, LiveSlots
<1>4. \/ p = q
      \/ h < 0 /\ HasFdSlot(q, h)
      \/ h > 0 /\ q.timers[h].live # 0
  BY <1>0 DEF SetWaker
<1> QED
  BY <1>1, <1>2, <1>3, <1>4

\* deregister, for an fd: the slot and the kernel's registration go together,
\* and those of the other clients stay.
LEMMA DeregisterKeeps ==
  ASSUME 0 \notin Fds,
         NEW q \in Shape, NEW H, Sound(q, H), Silent(q), NEW x \in H
  PROVE  LET p == Deregister(q, x.handle)
         IN  /\ p \in Shape /\ Sound(p, H \ {x}) /\ Silent(p)
             /\ Len(p.slots) = Len(q.slots) /\ SameTimers(q, p)
             /\ -x.handle \in LiveSlots(q)
             /\ LiveSlots(p) = LiveSlots(q) \ {-x.handle}
             /\ p.count = Dec(q.count)
             /\ platform = "linux" =>
                  \A y : y \in p.interest <=> y \in q.interest /\ y.fd # x.fd
<1> DEFINE j == -x.handle
           gone(y) == y.fd = x.fd /\ (platform = "linux" \/ y.mode = x.mode)
           int == {y \in q.interest : ~gone(y)}
           new == [q.slots EXCEPT ![j] = FreeSlot]
           n == Dec(q.count)
           p == Deregister(q, x.handle)
<1>1. /\ x \in Registration
      /\ j \in 1..Len(q.slots) /\ q.slots[j].fd = x.fd /\ q.slots[j].mode = x.mode
  BY DEF Sound, Disjoint, Records
<1>2. x.handle < 0 /\ x.handle # 0 /\ HasFdSlot(q, x.handle)
  <2>1. x.handle \in Int /\ x.fd \in Nat /\ x.fd # 0
    BY <1>1, ReactorAssumption DEF Registration
  <2>2. x.handle < 0
    BY <2>1, <1>1
  <2>3. j \in LiveSlots(q)
    BY <2>1, <1>1 DEF LiveSlots
  <2> QED
    BY <2>1, <2>2, <2>3 DEF HasFdSlot
<1>3. p = [q EXCEPT !.slots = new, !.count = n, !.interest = int]
  <2>1. p = DeregisterFd(q, j)
    <3>1. \A h : h < 0 /\ ~(h > 0) /\ h # 0 /\ HasFdSlot(q, h)
                  => Deregister(q, h) = DeregisterFd(q, -h)
      BY ZenonT(30) DEF Deregister
    <3>2. x.handle \in Int /\ ~(x.handle > 0)
      BY <1>1, <1>2 DEF Registration
    <3> QED
      BY <1>2, <3>1, <3>2
  <2> QED
    BY <1>1, <2>1 DEF DeregisterFd
<1>4. q.slots \in Seq(Slot) /\ FreeSlot \in Slot /\ n \in Nat
  BY DEF Shape, Slot, FreeSlot, Dec, Modes, Read
<1>5. /\ new \in Seq(Slot) /\ Len(new) = Len(q.slots) /\ new[j] = FreeSlot
      /\ \A i \in 1..Len(q.slots) : i # j => new[i] = q.slots[i]
  BY <1>1, <1>4
<1>6. /\ int \in SUBSET [fd : Fds, mode : Modes, slot : Nat]
      /\ \A y \in int : y \in q.interest
      /\ \A y \in int : y.fd = x.fd => y.mode # x.mode
  BY DEF Shape
<1> HIDE DEF new, n, int, p
<1>7. /\ p \in Shape /\ p.slots = new /\ p.interest = int
      /\ p.timers = q.timers /\ p.expired = q.expired /\ p.count = n
  BY <1>3, <1>4, <1>5, <1>6 DEF Shape
<1>8. ASSUME NEW i, NEW fd, NEW mode, Records(q, i, fd, mode), i # j
      PROVE  Records(p, i, fd, mode)
  BY <1>5, <1>7, <1>8 DEF Records
<1>9. ASSUME NEW y \in H, y # x
      PROVE  y \in Registration /\ -y.handle # j /\ Records(q, -y.handle, y.fd, y.mode)
  <2>1. y \in Registration /\ y.handle # x.handle
    BY <1>9 DEF Sound, Disjoint
  <2> QED
    BY <2>1, <1>1 DEF Registration, Sound, Disjoint
<1>10. Disjoint(p, H \ {x})
  BY <1>8, <1>9 DEF Sound, Disjoint
<1>11. ASSUME NEW y \in int
       PROVE  /\ Records(p, y.slot, y.fd, y.mode)
              /\ [handle |-> -y.slot, fd |-> y.fd, mode |-> y.mode] \in H \ {x}
  <2>1. /\ Records(q, y.slot, y.fd, y.mode)
        /\ [handle |-> -y.slot, fd |-> y.fd, mode |-> y.mode] \in H
    BY <1>6 DEF Sound, Routed
  <2>2. y.slot # j
    BY <2>1, <1>1, <1>6 DEF Records
  <2>3. -y.slot # x.handle
    BY <2>1, <2>2, <1>1 DEF Records, Registration
  <2> QED
    BY <1>8, <2>1, <2>2, <2>3
<1>12. Routed(p, H \ {x})
  BY <1>7, <1>11 DEF Routed
<1>13. Silent(p)
  BY <1>5, <1>7 DEF Silent, FreeSlot
<1>14. j \in LiveSlots(q) /\ LiveSlots(p) = LiveSlots(q) \ {j}
  <2>1. x.fd \in Nat /\ x.fd # 0
    BY <1>1, ReactorAssumption DEF Registration
  <2> QED
    BY <2>1, <1>1, <1>5, <1>7 DEF LiveSlots, FreeSlot
<1> QED
  BY <1>5, <1>7, <1>10, <1>12, <1>13, <1>14 DEF Sound, SameTimers, p, n, int

\* Closing an fd: the kernel forgets it, and so does its owner.
LEMMA CloseKeeps ==
  ASSUME NEW q \in Shape, NEW H, Sound(q, H), Silent(q), NEW fd
  PROVE  LET p == KernelClose(q, fd)
         IN  /\ p \in Shape /\ Sound(p, {x \in H : x.fd # fd}) /\ Silent(p)
             /\ Len(p.slots) = Len(q.slots) /\ SameTimers(q, p)
             /\ LiveSlots(p) = LiveSlots(q) /\ p.count = q.count
<1> DEFINE int == {x \in q.interest : x.fd # fd}
           p == KernelClose(q, fd)
<1>1. p = [q EXCEPT !.interest = int]
  BY DEF KernelClose
<1>2. int \in SUBSET [fd : Fds, mode : Modes, slot : Nat]
  BY DEF Shape
<1>3. \A x \in int : x \in q.interest /\ x.fd # fd
  OBVIOUS
<1> HIDE DEF int, p
<1>4. /\ p \in Shape /\ p.slots = q.slots /\ p.interest = int
      /\ p.timers = q.timers /\ p.expired = q.expired /\ p.count = q.count
  BY <1>1, <1>2 DEF Shape
<1>5. Disjoint(p, {x \in H : x.fd # fd})
  BY <1>4 DEF Sound, Disjoint, Records
<1>6. Routed(p, {x \in H : x.fd # fd})
  BY <1>3, <1>4 DEF Sound, Routed, Records
<1> QED
  BY <1>4, <1>5, <1>6 DEF Sound, Silent, SameTimers, LiveSlots, p

\* A call that writes v over timer k, and sets the count and the timers the
\* kernel has to report.
TimerCall(q, k, v, n, due) ==
  [q EXCEPT !.timers = [q.timers EXCEPT ![k] = v], !.count = n, !.expired = due]

LEMMA TimerCallKeeps ==
  ASSUME NEW q \in Shape, NEW H, Sound(q, H), Silent(q),
         NEW k \in Timers, NEW v \in Timer, v.fired = 1 => v.task = NoTask,
         NEW n \in Nat, NEW due \in SUBSET Timers
  PROVE  LET p == TimerCall(q, k, v, n, due)
         IN  /\ p \in Shape /\ Sound(p, H) /\ Silent(p)
             /\ p.slots = q.slots /\ p.expired = due /\ p.count = n
             /\ p.interest = q.interest
             /\ p.timers[k] = v
             /\ \A j \in Timers : j # k => p.timers[j] = q.timers[j]
<1> DEFINE w == WithTimer(q, k, v)
           p == TimerCall(q, k, v, n, due)
<1>1. /\ w \in Shape /\ Sound(w, H) /\ Silent(w) /\ w.slots = q.slots
      /\ w.interest = q.interest
      /\ w.timers[k] = v
      /\ \A j \in Timers : j # k => w.timers[j] = q.timers[j]
  BY WithTimerKeeps
<1>2. p = [w EXCEPT !.count = n, !.expired = due]
  BY DEF TimerCall, WithTimer, Shape
<1> HIDE DEF w, p
<1>3. /\ p \in Shape /\ p.slots = w.slots /\ p.timers = w.timers
      /\ p.interest = w.interest /\ p.expired = due /\ p.count = n
  BY <1>1, <1>2 DEF Shape
<1>4. Sound(p, H)
  BY <1>1, <1>3, TimersKeep
<1>5. Silent(p)
  BY <1>1, <1>3 DEF Silent
<1> QED
  BY <1>1, <1>3, <1>4, <1>5 DEF p

\* ... and forgets no timer, if timer k is not forgotten.
LEMMA TimerCallKept ==
  ASSUME NEW q, NEW b, Kept(q, b), NEW p, NEW k \in Timers,
         q.expired \subseteq p.expired \union {k},
         \A j \in Timers : j # k => p.timers[j] = q.timers[j],
         \/ p.timers[k].live # 1
         \/ p.timers[k].armed = 1
         \/ k \in p.expired
         \/ p.timers[k].fired = 1
  PROVE  Kept(p, b) /\ Kept(p, b \ {TimerEvent(k)})
<1>1. ASSUME NEW j \in LiveTimers(p)
      PROVE  \/ p.timers[j].armed = 1
             \/ j \in p.expired
             \/ TimerEvent(j) \in b \ {TimerEvent(k)}
             \/ p.timers[j].fired = 1
  <2>1. CASE j = k
    BY <2>1 DEF LiveTimers
  <2>2. CASE j # k
    <3>1. TimerEvent(j) # TimerEvent(k)
      BY <2>2 DEF TimerEvent
    <3> QED
      BY <2>2, <3>1 DEF LiveTimers, Kept
  <2> QED
    BY <2>1, <2>2
<1> QED
  BY <1>1 DEF Kept

-----------------------------------------------------------------------------
(* The inductive invariant *)

Good(q, H) == q \in Shape /\ Sound(q, H) /\ Silent(q)

\* The events of a park are about slots and timers there are.
Known(q, e) ==
  \/ e = WakeEvent
  \/ \E i \in 1..Len(q.slots) : e = FdEvent(i)
  \/ \E k \in Timers : e = TimerEvent(k)

IInv ==
  /\ platform \in {"linux", "macos"}
  /\ Good(r, held)
  /\ \A e \in batch : Known(r, e)
  /\ platform = "macos" => Kept(r, batch)

\* A wait reports what it knows, and takes a one-shot timer from the kernel
\* only to hand it to the loop.
LEMMA WaitKeeps ==
  ASSUME NEW q \in Shape, NEW H, Sound(q, H), Silent(q),
         platform \in {"linux", "macos"}
  PROVE  LET p == AfterWait(q)
         IN  /\ Good(p, H)
             /\ \A e \in Available(q) : Known(p, e)
             /\ LiveSlots(p) = LiveSlots(q) /\ LiveTimers(p) = LiveTimers(q)
             /\ p.count = q.count /\ p.interest = q.interest
             /\ platform = "macos" /\ Kept(q, {}) => Kept(p, Available(q))
<1> DEFINE p == AfterWait(q)
<1>1. p = q \/ p = [q EXCEPT !.expired = {}, !.wakeFd = 0]
  BY DEF AfterWait
<1>2. platform = "macos" => p = [q EXCEPT !.expired = {}, !.wakeFd = 0]
  BY DEF AfterWait
<1> HIDE DEF p
<1>3. /\ p \in Shape /\ p.slots = q.slots /\ p.interest = q.interest
      /\ p.timers = q.timers /\ p.count = q.count
  BY <1>1 DEF Shape
<1>4. Good(p, H)
  <2>1. Sound(p, H)
    BY <1>3, TimersKeep
  <2>2. Silent(p)
    BY <1>3 DEF Silent
  <2> QED
    BY <1>3, <2>1, <2>2 DEF Good
<1>5. ASSUME NEW e \in Available(q) PROVE Known(p, e)
  <2>1. \/ \E x \in q.interest : e = FdEvent(x.slot)
        \/ \E k \in q.expired : e = TimerEvent(k)
        \/ e = WakeEvent
    BY <1>5 DEF Available
  <2>2. ASSUME NEW x \in q.interest PROVE x.slot \in 1..Len(p.slots)
    BY <1>3 DEF Sound, Routed, Records
  <2>3. q.expired \subseteq Timers
    BY DEF Shape
  <2> QED
    BY <2>1, <2>2, <2>3 DEF Known
<1>6. ASSUME platform = "macos", Kept(q, {}) PROVE Kept(p, Available(q))
  <2>1. \A k \in q.expired : TimerEvent(k) \in Available(q)
    BY DEF Available
  <2>2. LiveTimers(p) = LiveTimers(q)
    BY <1>3 DEF LiveTimers
  <2> QED
    BY <1>3, <1>6, <2>1, <2>2 DEF Kept
<1> QED
  BY <1>3, <1>4, <1>5, <1>6 DEF LiveSlots, LiveTimers, p

\* The loop over the events of a park marks the slot or timer of the event,
\* wakes who waits there, and leaves nobody behind.
LEMMA EventKeeps ==
  ASSUME NEW q \in Shape, NEW H, Sound(q, H), Silent(q),
         platform \in {"linux", "macos"}, NEW e, Known(q, e)
  PROVE  LET p == AfterEvent(q, e)
         IN  /\ Good(p, H) /\ Len(p.slots) = Len(q.slots)
             /\ LiveSlots(p) = LiveSlots(q) /\ LiveTimers(p) = LiveTimers(q)
             /\ \/ p.count = q.count
                \/ platform # "linux" /\ p.count = Dec(q.count)
             /\ p.interest = q.interest
             /\ \A b : platform = "macos" /\ Kept(q, b) => Kept(p, b \ {e})
<1> DEFINE p == AfterEvent(q, e)
<1>1. CASE e = WakeEvent
  <2>1. p = q \/ p = [q EXCEPT !.wakeFd = 0]
    <3>1. e.kind = "wake"
      BY <1>1 DEF WakeEvent
    <3> QED
      BY <3>1 DEF AfterEvent
  <2> HIDE DEF p
  <2>2. /\ p \in Shape /\ p.slots = q.slots /\ p.interest = q.interest
        /\ p.timers = q.timers /\ p.expired = q.expired /\ p.count = q.count
    BY <2>1 DEF Shape
  <2>3. Sound(p, H)
    BY <2>2, TimersKeep
  <2>4. Silent(p)
    BY <2>2 DEF Silent
  <2>5. \A k : TimerEvent(k) # e
    BY <1>1 DEF WakeEvent, TimerEvent
  <2>6. LiveTimers(p) = LiveTimers(q)
    BY <2>2 DEF LiveTimers
  <2>7. \A b : Kept(q, b) => Kept(p, b \ {e})
    BY <2>2, <2>5, <2>6 DEF Kept
  <2> QED
    BY <2>2, <2>3, <2>4, <2>6, <2>7 DEF Good, LiveSlots, p
<1>2. CASE \E i \in 1..Len(q.slots) : e = FdEvent(i)
  <2>1. PICK i \in 1..Len(q.slots) : e = FdEvent(i)
    BY <1>2
  <2>2. e.kind = "fd" /\ e.at = i
    BY <2>1 DEF FdEvent
  <2>3. p = Marked(q, i, 1, NoTask)
    BY <2>2 DEF AfterEvent, Marked
  <2> HIDE DEF p
  <2>4. /\ p \in Shape /\ Sound(p, H) /\ Silent(p)
        /\ Len(p.slots) = Len(q.slots) /\ LiveSlots(p) = LiveSlots(q)
        /\ p.timers = q.timers /\ p.expired = q.expired /\ p.count = q.count
        /\ p.interest = q.interest
    BY <2>3, MarkedKeeps
  <2>5. \A k : TimerEvent(k) # e
    BY <2>1 DEF FdEvent, TimerEvent
  <2>6. LiveTimers(p) = LiveTimers(q)
    BY <2>4 DEF LiveTimers
  <2>7. \A b : Kept(q, b) => Kept(p, b \ {e})
    BY <2>4, <2>5, <2>6 DEF Kept
  <2> QED
    BY <2>4, <2>6, <2>7 DEF Good, p
<1>3. CASE \E k \in Timers : e = TimerEvent(k)
  <2>1. PICK k \in Timers : e = TimerEvent(k)
    BY <1>3
  <2>2. e.kind = "timer" /\ e.at = k
    BY <2>1 DEF TimerEvent
  <2> DEFINE v == [q.timers[k] EXCEPT !.fired = 1, !.task = NoTask]
             n == Dec(q.count)
  <2>3. /\ v \in Timer /\ v.fired = 1 /\ v.task = NoTask
        /\ v.live = q.timers[k].live
    <3>1. q.timers[k] \in Timer
      BY DEF Shape
    <3> QED
      BY <3>1 DEF Timer
  <2>4. q.count \in Nat /\ n \in Nat /\ q.expired \in SUBSET Timers
    BY DEF Dec, Shape
  <2>5. \/ p = q /\ platform = "linux"
        \/ p = TimerCall(q, k, v, q.count, q.expired)
        \/ platform # "linux" /\ p = TimerCall(q, k, v, n, q.expired)
    <3>1. \/ p = q /\ platform = "linux"
          \/ p = [q EXCEPT !.timers[k].fired = 1, !.timers[k].task = NoTask]
          \/ /\ platform # "linux"
             /\ p = [q EXCEPT !.timers[k].fired = 1, !.timers[k].task = NoTask,
                              !.count = Dec(@)]
      BY <2>2 DEF AfterEvent
    <3>2. q.timers \in [Timers -> Timer]
      BY DEF Shape
    <3>3. [[q.timers EXCEPT ![k].fired = 1] EXCEPT ![k].task = NoTask]
            = [q.timers EXCEPT ![k] = v]
      BY <3>2
    <3> DEFINE new == [q.timers EXCEPT ![k] = v]
    <3>4. \/ p = q /\ platform = "linux"
          \/ p = [q EXCEPT !.timers = new]
          \/ platform # "linux" /\ p = [q EXCEPT !.timers = new, !.count = n]
      BY <3>1, <3>3
    <3> HIDE DEF p, v, n, new
    <3>5. [q EXCEPT !.timers = new]
            = [q EXCEPT !.timers = new, !.count = q.count, !.expired = q.expired]
      BY DEF Shape
    <3>6. [q EXCEPT !.timers = new, !.count = n]
            = [q EXCEPT !.timers = new, !.count = n, !.expired = q.expired]
      BY DEF Shape
    <3> QED
      BY <3>4, <3>5, <3>6 DEF TimerCall, new
  <2> HIDE DEF p, v, n
  <2>6. CASE p = q /\ platform = "linux"
    BY <2>6 DEF Good, p
  <2>7. CASE \E m \in Nat : /\ p = TimerCall(q, k, v, m, q.expired)
                            /\ \/ m = q.count
                               \/ platform # "linux" /\ m = n
    <3>1. /\ p \in Shape /\ Sound(p, H) /\ Silent(p)
          /\ p.slots = q.slots /\ p.expired = q.expired
          /\ p.interest = q.interest /\ p.timers[k] = v
          /\ \A j \in Timers : j # k => p.timers[j] = q.timers[j]
          /\ \/ p.count = q.count
             \/ platform # "linux" /\ p.count = n
      BY <2>3, <2>4, <2>7, TimerCallKeeps
    <3>2. \A b : Kept(q, b) => Kept(p, b \ {e})
      BY <2>1, <2>3, <3>1, TimerCallKept
    <3>3. LiveSlots(p) = LiveSlots(q) /\ LiveTimers(p) = LiveTimers(q)
      BY <2>3, <3>1 DEF LiveSlots, LiveTimers
    <3> QED
      BY <3>1, <3>2, <3>3 DEF Good, p, n
  <2> QED
    BY <2>4, <2>5, <2>6, <2>7
<1> QED
  BY <1>1, <1>2, <1>3 DEF Known

\* A call made outside the loop over the events, or that leaves it alone.
LEMMA CallKeepsIInv ==
  ASSUME IInv, UNCHANGED <<platform, batch>>,
         Good(r', held'), Len(r.slots) <= Len(r'.slots),
         platform = "macos" => Kept(r', batch)
  PROVE  IInv'
<1>1. r \in Shape /\ r' \in Shape
  BY DEF IInv, Good
<1>2. Len(r.slots) \in Nat /\ Len(r'.slots) \in Nat
  BY <1>1 DEF Shape
<1>3. ASSUME NEW e, Known(r, e) PROVE Known(r', e)
  BY <1>2, <1>3 DEF Known
<1>4. /\ platform' \in {"linux", "macos"}
      /\ \A e \in batch' : Known(r', e)
      /\ platform' = "macos" => Kept(r', batch')
  BY <1>3 DEF IInv
<1> QED
  BY <1>4 DEF IInv

LEMMA UnchangedReactor ==
  ASSUME IInv, UNCHANGED <<platform, r, held, batch>>
  PROVE  IInv'
BY DEF IInv, Good, Sound, Disjoint, Routed, Records, Silent, Known, Kept, LiveTimers

\* Registering an fd, for a client that is to hold it.
LEMMA RegisterGood ==
  ASSUME 0 \notin Fds,
         NEW q, NEW H, Good(q, H), NEW fd \in Fds, NEW mode \in Modes
  PROVE  LET g == RegisterFd(q, fd, mode)
         IN  /\ Good(g.r, H \union Holding(g.handle, fd, mode))
             /\ Len(q.slots) <= Len(g.r.slots)
             /\ SameTimers(q, g.r)
BY RegisterKeeps, RegisterIsSilent DEF Good, SameTimers

LEMMA FutureRegisterKeeps ==
  ASSUME 0 \notin Fds, IInv, UNCHANGED platform,
         NEW fd \in Fds, NEW mode \in Modes, FutureRegister(fd, mode)
  PROVE  IInv'
<1> DEFINE g == RegisterFd(r, fd, mode)
<1>1. r' = g.r /\ held' = held \union Holding(g.handle, fd, mode) /\ batch' = batch
  BY DEF FutureRegister
<1>2. Good(r', held') /\ Len(r.slots) <= Len(r'.slots) /\ SameTimers(r, r')
  BY <1>1, RegisterGood DEF IInv
<1>3. platform = "macos" => Kept(r', batch)
  BY <1>2, SameTimersKept DEF IInv
<1> QED
  BY <1>1, <1>2, <1>3, CallKeepsIInv

LEMMA StreamFromFdKeeps ==
  ASSUME 0 \notin Fds, IInv, UNCHANGED platform,
         NEW fd \in Fds, StreamFromFd(fd)
  PROVE  IInv'
<1> DEFINE a == RegisterFd(r, fd, Read)
           A == held \union Holding(a.handle, fd, Read)
           b == RegisterFd(a.r, fd, Write)
           B == A \union Holding(b.handle, fd, Write)
<1>1. r' = b.r /\ held' = B /\ batch' = batch
  BY DEF StreamFromFd
<1>2. Good(a.r, A) /\ Len(r.slots) <= Len(a.r.slots) /\ SameTimers(r, a.r)
  BY RegisterGood DEF IInv, Modes
<1>3. Good(b.r, B) /\ Len(a.r.slots) <= Len(b.r.slots) /\ SameTimers(a.r, b.r)
  <2> HIDE DEF a, A
  <2> QED
    BY <1>2, RegisterGood DEF Modes
<1>4. platform = "macos" => Kept(a.r, batch)
  BY <1>2, SameTimersKept DEF IInv
<1>5. platform = "macos" => Kept(b.r, batch)
  BY <1>3, <1>4, SameTimersKept
<1> HIDE DEF a, A, b, B
<1>6. Len(r.slots) <= Len(b.r.slots)
  <2>1. r \in Shape /\ a.r \in Shape /\ b.r \in Shape
    BY <1>2, <1>3 DEF IInv, Good
  <2>2. Len(r.slots) \in Nat /\ Len(a.r.slots) \in Nat /\ Len(b.r.slots) \in Nat
    BY <2>1 DEF Shape
  <2> QED
    BY <1>2, <1>3, <2>2
<1> QED
  BY <1>1, <1>3, <1>5, <1>6, CallKeepsIInv

LEMMA FutureDeregisterKeeps ==
  ASSUME 0 \notin Fds, IInv, UNCHANGED platform,
         NEW x \in held, FutureDeregister(x)
  PROVE  IInv'
<1>1. r' = Deregister(r, x.handle) /\ held' = held \ {x} /\ batch' = batch
  BY DEF FutureDeregister
<1>2. Good(r', held') /\ Len(r'.slots) = Len(r.slots) /\ SameTimers(r, r')
  BY <1>1, DeregisterKeeps DEF IInv, Good
<1>3. platform = "macos" => Kept(r', batch)
  BY <1>2, SameTimersKept DEF IInv
<1>4. Len(r.slots) \in Nat
  BY DEF IInv, Good, Shape
<1> QED
  BY <1>1, <1>2, <1>3, <1>4, CallKeepsIInv

\* CloseFile and StreamDrop.
LEMMA ClosingKeeps ==
  ASSUME IInv, UNCHANGED <<platform, batch>>, NEW fd,
         r' = KernelClose(r, fd), held' = {x \in held : x.fd # fd}
  PROVE  IInv'
<1>1. Good(r', held') /\ Len(r'.slots) = Len(r.slots) /\ SameTimers(r, r')
  BY CloseKeeps DEF IInv, Good
<1>2. platform = "macos" => Kept(r', batch)
  BY <1>1, SameTimersKept DEF IInv
<1>3. Len(r.slots) \in Nat
  BY DEF IInv, Good, Shape
<1> QED
  BY <1>1, <1>2, <1>3, CallKeepsIInv

LEMMA AwaitIoKeeps ==
  ASSUME IInv, UNCHANGED platform, NEW x \in held, NEW t \in Tasks, AwaitIo(x, t)
  PROVE  IInv'
<1>1. r' = SetWaker(r, x.handle, t).r /\ held' = held /\ batch' = batch
  BY DEF AwaitIo
<1>2. x.handle \in Int /\ ~(x.handle > 0)
  <2>1. x \in Registration /\ -x.handle \in 1..Len(r.slots)
    BY DEF IInv, Good, Sound, Disjoint, Records
  <2> QED
    BY <2>1 DEF Registration
<1>3. Good(r', held') /\ Len(r'.slots) = Len(r.slots) /\ SameTimers(r, r')
  BY <1>1, <1>2, SetWakerKeeps DEF IInv, Good
<1>4. platform = "macos" => Kept(r', batch)
  BY <1>3, SameTimersKept DEF IInv
<1>5. Len(r.slots) \in Nat
  BY DEF IInv, Good, Shape
<1> QED
  BY <1>1, <1>3, <1>4, <1>5, CallKeepsIInv

\* The calls that write over one timer.
LEMMA TimerKeepsIInv ==
  ASSUME IInv, UNCHANGED <<platform, batch, held>>,
         NEW k \in Timers, NEW v \in Timer, v.fired = 1 => v.task = NoTask,
         NEW n \in Nat, NEW due \in SUBSET Timers,
         r' = TimerCall(r, k, v, n, due),
         r.expired \subseteq due \union {k},
         platform = "macos" =>
           v.live # 1 \/ v.armed = 1 \/ k \in due \/ v.fired = 1
  PROVE  IInv'
<1>1. /\ Good(r', held) /\ r'.slots = r.slots /\ r'.expired = due
      /\ r'.timers[k] = v
      /\ \A j \in Timers : j # k => r'.timers[j] = r.timers[j]
  BY TimerCallKeeps DEF IInv, Good
<1>2. platform = "macos" => Kept(r', batch)
  BY <1>1, TimerCallKept DEF IInv
<1>3. Len(r.slots) \in Nat
  BY DEF IInv, Good, Shape
<1> QED
  BY <1>1, <1>2, <1>3, CallKeepsIInv

LEMMA SleepRegisterKeeps ==
  ASSUME IInv, UNCHANGED platform,
         NEW k \in Timers, NEW t \in Tasks, SleepRegister(k, t)
  PROVE  IInv'
<1> DEFINE v == [live |-> 1, armed |-> 1, fired |-> 0, task |-> NoTask]
           n == r.count + 1
           q == RegisterTimer(r, k)
<1>1. r' = SetWaker(q, k, t).r /\ held' = held /\ batch' = batch
  BY DEF SleepRegister
<1>2. r \in Shape /\ Sound(r, held) /\ Silent(r) /\ n \in Nat /\ r.expired \in SUBSET Timers
  BY DEF IInv, Good, Shape
<1>3. v \in Timer /\ v.fired # 1 /\ v.armed = 1
  BY DEF Timer
<1>4. q = TimerCall(r, k, v, n, r.expired)
  BY <1>2 DEF RegisterTimer, TimerCall, Shape
<1> HIDE DEF v, n, q
<1>5. /\ q \in Shape /\ Sound(q, held) /\ Silent(q)
      /\ q.slots = r.slots /\ q.expired = r.expired
      /\ q.timers[k] = v
      /\ \A j \in Timers : j # k => q.timers[j] = r.timers[j]
  BY <1>2, <1>3, <1>4, TimerCallKeeps
<1>6. platform = "macos" => Kept(q, batch)
  BY <1>3, <1>5, TimerCallKept DEF IInv
<1>7. k \in Int /\ k \in Timers
  BY ReactorAssumption
<1>8. /\ r' \in Shape /\ Sound(r', held') /\ Silent(r')
      /\ Len(r'.slots) = Len(q.slots) /\ SameTimers(q, r')
  BY <1>1, <1>5, <1>7, SetWakerKeeps
<1>9. platform = "macos" => Kept(r', batch)
  BY <1>6, <1>8, SameTimersKept
<1>10. Len(r.slots) \in Nat
  BY <1>2 DEF Shape
<1> QED
  BY <1>1, <1>5, <1>8, <1>9, <1>10, CallKeepsIInv DEF Good

LEMMA SleepCheckKeeps ==
  ASSUME IInv, UNCHANGED platform, NEW k \in Timers, SleepCheck(k)
  PROVE  IInv'
<1> DEFINE v == r.timers[k]
           due == r.expired \ {k}
<1>1. r' = AfterCheckFired(r, k) /\ UNCHANGED <<held, batch>>
  BY DEF SleepCheck
<1>2. r \in Shape /\ Silent(r)
  BY DEF IInv, Good
<1>3. k > 0 /\ ~(k < 0)
  BY ReactorAssumption
<1>4. \/ r' = r
      \/ platform = "linux" /\ r' = [r EXCEPT !.expired = due]
  BY <1>1, <1>3 DEF AfterCheckFired
<1>5. CASE r' = r
  BY <1>1, <1>5, UnchangedReactor
<1>6. CASE platform = "linux" /\ r' = [r EXCEPT !.expired = due]
  <2>1. /\ v \in Timer /\ (v.fired = 1 => v.task = NoTask)
        /\ r.count \in Nat /\ due \in SUBSET Timers
        /\ r.expired \subseteq due \union {k}
    BY <1>2 DEF Shape, Silent
  <2>2. [r.timers EXCEPT ![k] = v] = r.timers
    BY <1>2 DEF Shape
  <2> HIDE DEF v, due
  <2>3. r' = TimerCall(r, k, v, r.count, due)
    BY <1>2, <1>6, <2>2 DEF TimerCall, Shape
  <2> QED
    BY <1>1, <1>6, <2>1, <2>3, TimerKeepsIInv
<1> QED
  BY <1>4, <1>5, <1>6

LEMMA SleepDropKeeps ==
  ASSUME IInv, UNCHANGED platform, NEW k \in Timers, SleepDrop(k)
  PROVE  IInv'
<1> DEFINE n == Dec(r.count)
           due == r.expired \ {k}
<1>1. r' = Deregister(r, k) /\ r.timers[k].live = 1 /\ UNCHANGED <<held, batch>>
  BY DEF SleepDrop
<1>2. k > 0 /\ ~(k < 0) /\ k # 0
  BY ReactorAssumption
<1>3. r' = DeregisterTimer(r, k)
  BY <1>1, <1>2 DEF Deregister
<1>4. FreeTimer \in Timer /\ FreeTimer.fired # 1 /\ FreeTimer.live # 1
  BY DEF FreeTimer, Timer
<1>5. n \in Nat /\ due \in SUBSET Timers /\ r.expired \subseteq due \union {k}
  BY DEF IInv, Good, Shape, Dec
<1>6. r' = TimerCall(r, k, FreeTimer, n, due)
  BY <1>3 DEF DeregisterTimer, TimerCall, IInv, Good, Shape
<1> HIDE DEF n, due
<1> QED
  BY <1>1, <1>4, <1>5, <1>6, TimerKeepsIInv

LEMMA TimerExpiresKeeps ==
  ASSUME IInv, UNCHANGED platform, NEW k \in Timers, TimerExpires(k)
  PROVE  IInv'
<1> DEFINE v == [r.timers[k] EXCEPT !.armed = 0]
           due == r.expired \union {k}
<1>1. r' = Expire(r, k) /\ UNCHANGED <<held, batch>>
  BY DEF TimerExpires
<1>2. r \in Shape /\ Silent(r)
  BY DEF IInv, Good
<1>3. v \in Timer /\ (v.fired = 1 => v.task = NoTask)
  <2>1. r.timers[k] \in Timer /\ (r.timers[k].fired = 1 => r.timers[k].task = NoTask)
    BY <1>2 DEF Shape, Silent
  <2> QED
    BY <2>1 DEF Timer
<1>4. /\ r.count \in Nat /\ due \in SUBSET Timers
      /\ r.expired \subseteq due \union {k} /\ k \in due
  BY <1>2 DEF Shape
<1>5. r' = TimerCall(r, k, v, r.count, due)
  BY <1>1, <1>2 DEF Expire, TimerCall, Shape
<1> HIDE DEF v, due
<1> QED
  BY <1>1, <1>3, <1>4, <1>5, TimerKeepsIInv

LEMMA WakeKeeps ==
  ASSUME IInv, UNCHANGED platform, Wake
  PROVE  IInv'
<1>1. r' = [r EXCEPT !.wakeFd = 1] /\ UNCHANGED <<held, batch>>
  BY DEF Wake
<1>2. r \in Shape /\ Sound(r, held) /\ Silent(r)
  BY DEF IInv, Good
<1>3. /\ r' \in Shape /\ r'.slots = r.slots /\ r'.interest = r.interest
      /\ r'.timers = r.timers /\ r'.expired = r.expired
  BY <1>1, <1>2 DEF Shape
<1>4. Sound(r', held)
  BY <1>2, <1>3, TimersKeep
<1>5. Silent(r') /\ SameTimers(r, r')
  BY <1>2, <1>3 DEF Silent, SameTimers
<1>6. platform = "macos" => Kept(r', batch)
  BY <1>5, SameTimersKept DEF IInv
<1>7. Len(r.slots) \in Nat
  BY <1>2 DEF Shape
<1> QED
  BY <1>1, <1>3, <1>4, <1>5, <1>6, <1>7, CallKeepsIInv DEF Good

LEMMA ParkWaitKeeps ==
  ASSUME IInv, UNCHANGED platform, ParkWait
  PROVE  IInv'
<1>1. r' = AfterWait(r) /\ held' = held /\ batch = {} /\ batch' = Available(r)
  BY DEF ParkWait, Outside
<1>2. /\ Good(r', held') /\ \A e \in batch' : Known(r', e)
      /\ platform = "macos" => Kept(r', batch')
  BY <1>1, WaitKeeps DEF IInv, Good
<1> QED
  BY <1>2 DEF IInv

LEMMA ParkEventKeeps ==
  ASSUME IInv, UNCHANGED platform, NEW e \in batch, ParkEvent(e)
  PROVE  IInv'
<1>1. r' = AfterEvent(r, e) /\ held' = held /\ batch' = batch \ {e}
  BY DEF ParkEvent
<1>2. /\ Good(r', held') /\ Len(r'.slots) = Len(r.slots)
      /\ platform = "macos" => Kept(r', batch')
  BY <1>1, EventKeeps DEF IInv, Good
<1>3. \A f \in batch' : Known(r', f)
  BY <1>1, <1>2 DEF IInv, Known
<1> QED
  BY <1>2, <1>3 DEF IInv

LEMMA InitIInv ==
  ASSUME Init
  PROVE  IInv
<1>1. r \in Shape
  BY DEF Init, Reactor0, Shape, Timer, FreeTimer
<1>2. Sound(r, held)
  BY DEF Init, Reactor0, Sound, Disjoint, Routed
<1>3. Silent(r)
  BY DEF Init, Reactor0, Silent, FreeTimer
<1>4. Kept(r, batch)
  BY DEF Init, Reactor0, Kept, LiveTimers, FreeTimer
<1> QED
  BY <1>1, <1>2, <1>3, <1>4, ReactorAssumption DEF Init, IInv, Good

LEMMA NextIInv ==
  ASSUME 0 \notin Fds, IInv, [Next]_reactorVars
  PROVE  IInv'
<1>1. CASE UNCHANGED reactorVars
  BY <1>1, UnchangedReactor DEF reactorVars
<1>2. CASE Next
  <2>0. UNCHANGED platform
    BY <1>2 DEF Next
  <2>1. ASSUME NEW fd \in Fds, OpenFile(fd) PROVE IInv'
    BY <2>0, <2>1, UnchangedReactor DEF OpenFile
  <2>2. ASSUME NEW fd \in Fds, CloseFile(fd) PROVE IInv'
    BY <2>0, <2>2, ClosingKeeps DEF CloseFile
  <2>3. ASSUME NEW fd \in Fds, StreamFromFd(fd) PROVE IInv'
    BY <2>0, <2>3, StreamFromFdKeeps
  <2>4. ASSUME NEW fd \in Fds, StreamDrop(fd) PROVE IInv'
    BY <2>0, <2>4, ClosingKeeps DEF StreamDrop
  <2>5. ASSUME NEW fd \in Fds, NEW mode \in Modes, FutureRegister(fd, mode)
        PROVE  IInv'
    BY <2>0, <2>5, FutureRegisterKeeps
  <2>6. ASSUME NEW fd \in Fds, NEW mode \in Modes, IoChanges(fd, mode)
        PROVE  IInv'
    BY <2>0, <2>6, UnchangedReactor DEF IoChanges
  <2>7. ASSUME NEW x \in held, FutureDeregister(x) PROVE IInv'
    BY <2>0, <2>7, FutureDeregisterKeeps
  <2>8. ASSUME NEW x \in held, NEW t \in Tasks, AwaitIo(x, t) PROVE IInv'
    BY <2>0, <2>8, AwaitIoKeeps
  <2>9. ASSUME NEW k \in Timers, NEW t \in Tasks, SleepRegister(k, t) PROVE IInv'
    BY <2>0, <2>9, SleepRegisterKeeps
  <2>10. ASSUME NEW k \in Timers, SleepCheck(k) PROVE IInv'
    BY <2>0, <2>10, SleepCheckKeeps
  <2>11. ASSUME NEW k \in Timers, SleepDrop(k) PROVE IInv'
    BY <2>0, <2>11, SleepDropKeeps
  <2>12. ASSUME NEW k \in Timers, TimerExpires(k) PROVE IInv'
    BY <2>0, <2>12, TimerExpiresKeeps
  <2>13. ASSUME NEW t \in Tasks, TaskPolled(t) PROVE IInv'
    BY <2>0, <2>13, UnchangedReactor DEF TaskPolled
  <2>14. CASE Wake
    BY <2>0, <2>14, WakeKeeps
  <2>15. CASE ParkWait
    BY <2>0, <2>15, ParkWaitKeeps
  <2>16. ASSUME NEW e \in batch, ParkEvent(e) PROVE IInv'
    BY <2>0, <2>16, ParkEventKeeps
  <2> QED
    BY <1>2, <2>1, <2>2, <2>3, <2>4, <2>5, <2>6, <2>7, <2>8, <2>9, <2>10,
       <2>11, <2>12, <2>13, <2>14, <2>15, <2>16 DEF Next, Step, ParkStep
<1> QED
  BY <1>1, <1>2

\* The invariant of every program that registers no fd 0.
THEOREM ReactorInvariant ==
  ASSUME 0 \notin Fds PROVE Spec => []IInv
<1>1. IInv /\ [Next]_reactorVars => IInv'
  BY NextIInv
<1>2. Init => IInv
  BY InitIInv
<1> QED
  BY <1>1, <1>2, PTL DEF Spec

-----------------------------------------------------------------------------
(* What it gives *)

\* Handles are not shared, and each is of a slot that still records what its
\* holder registered: deregister and set_waker act on no one else's slot.
THEOREM ReactorRegistrationsDisjoint ==
  ASSUME 0 \notin Fds PROVE Spec => []RegistrationsDisjoint
<1>1. IInv => RegistrationsDisjoint
  BY DEF IInv, Good, Sound, Disjoint, Records, RegistrationsDisjoint
<1> QED
  BY <1>1, ReactorInvariant, PTL

\* What the kernel reports reaches the slot of the fd and mode it is about,
\* and only for registrations that a client holds.
THEOREM ReactorEventRouting ==
  ASSUME 0 \notin Fds PROVE Spec => []EventRouting
<1>1. IInv => EventRouting
  BY DEF IInv, Good, Sound, Routed, Records, EventRouting
<1> QED
  BY <1>1, ReactorInvariant, PTL

\* An event that has come and a waker that waits for it never sit side by
\* side: park_current and set_waker, in either order, wake the task.
THEOREM ReactorNoMissedEvent ==
  ASSUME 0 \notin Fds PROVE Spec => []NoMissedEvent
<1>1. IInv => NoMissedEvent
  BY DEF IInv, Good, Silent, NoMissedEvent
<1> QED
  BY <1>1, ReactorInvariant, PTL

\* On macOS, where a timer is reported once, no live timer is forgotten.
THEOREM ReactorOneShotNotLost ==
  ASSUME 0 \notin Fds PROVE Spec => []OneShotNotLost
<1>1. IInv => OneShotNotLost
  BY DEF IInv, Kept, OneShotNotLost
<1> QED
  BY <1>1, ReactorInvariant, PTL

-----------------------------------------------------------------------------
(* registered_count *)

CountFits(c, n) ==
  /\ c \in Nat /\ n \in Nat
  /\ IF platform = "linux" THEN c = n ELSE c <= n

Counted(q) ==
  /\ IsFiniteSet(LiveSlots(q)) /\ IsFiniteSet(LiveTimers(q))
  /\ CountFits(q.count, Cardinality(LiveSlots(q)) + Cardinality(LiveTimers(q)))

\* Neither the tables nor the count change, or a one-shot timer of macOS
\* gives its count back although its entry stays.
LEMMA CountStays ==
  ASSUME NEW q, Counted(q), NEW p,
         LiveSlots(p) = LiveSlots(q), LiveTimers(p) = LiveTimers(q),
         \/ p.count = q.count
         \/ platform # "linux" /\ p.count = Dec(q.count)
  PROVE  Counted(p)
BY DEF Counted, CountFits, Dec

\* An entry comes, and is counted.
LEMMA CountUp ==
  ASSUME NEW q, Counted(q), NEW p, NEW x,
         \/ /\ x \notin LiveSlots(q) /\ LiveSlots(p) = LiveSlots(q) \union {x}
            /\ LiveTimers(p) = LiveTimers(q)
         \/ /\ x \notin LiveTimers(q) /\ LiveTimers(p) = LiveTimers(q) \union {x}
            /\ LiveSlots(p) = LiveSlots(q),
         p.count = q.count + 1
  PROVE  Counted(p)
<1> DEFINE S == LiveSlots(q)
           T == LiveTimers(q)
<1>1. /\ IsFiniteSet(S) /\ Cardinality(S) \in Nat
      /\ IsFiniteSet(T) /\ Cardinality(T) \in Nat
  BY FS_CardinalityType DEF Counted
<1>2. /\ IsFiniteSet(S \union {x})
      /\ x \notin S => Cardinality(S \union {x}) = Cardinality(S) + 1
  BY <1>1, FS_AddElement
<1>3. /\ IsFiniteSet(T \union {x})
      /\ x \notin T => Cardinality(T \union {x}) = Cardinality(T) + 1
  BY <1>1, FS_AddElement
<1> QED
  BY <1>1, <1>2, <1>3 DEF Counted, CountFits

\* An entry goes, and is counted down, unless the count is 0 already.
LEMMA CountDown ==
  ASSUME NEW q, Counted(q), NEW p, NEW x,
         \/ /\ x \in LiveSlots(q) /\ LiveSlots(p) = LiveSlots(q) \ {x}
            /\ LiveTimers(p) = LiveTimers(q)
         \/ /\ x \in LiveTimers(q) /\ LiveTimers(p) = LiveTimers(q) \ {x}
            /\ LiveSlots(p) = LiveSlots(q),
         p.count = Dec(q.count)
  PROVE  Counted(p)
<1> DEFINE S == LiveSlots(q)
           T == LiveTimers(q)
<1>1. /\ IsFiniteSet(S) /\ Cardinality(S) \in Nat
      /\ IsFiniteSet(T) /\ Cardinality(T) \in Nat
  BY FS_CardinalityType DEF Counted
<1>2. /\ IsFiniteSet(S \ {x}) /\ Cardinality(S \ {x}) \in Nat
      /\ x \in S => Cardinality(S \ {x}) = Cardinality(S) - 1
  BY <1>1, FS_RemoveElement, FS_CardinalityType
<1>3. /\ IsFiniteSet(T \ {x}) /\ Cardinality(T \ {x}) \in Nat
      /\ x \in T => Cardinality(T \ {x}) = Cardinality(T) - 1
  BY <1>1, FS_RemoveElement, FS_CardinalityType
<1> QED
  BY <1>1, <1>2, <1>3 DEF Counted, CountFits, Dec

\* register_fd counts what it registers, and a refusal not.
LEMMA RegisterCounted ==
  ASSUME 0 \notin Fds,
         NEW q, NEW H, Good(q, H), Counted(q), NEW fd \in Fds, NEW mode \in Modes
  PROVE  Counted(RegisterFd(q, fd, mode).r)
<1> DEFINE i == AllocFdSlot(q)
           s == [fd |-> fd, mode |-> mode, fired |-> 0, task |-> NoTask]
           s0 == [s EXCEPT !.fd = 0]
           p == RegisterFd(q, fd, mode).r
<1>1. s \in Slot /\ s0 \in Slot /\ fd \in Nat /\ fd # 0
  BY ReactorAssumption DEF Slot
<1>2. q \in Shape /\ Sound(q, H)
  BY DEF Good
<1>3. i \notin LiveSlots(q)
  BY <1>2, AllocatedSlot DEF LiveSlots
<1>4. p.timers = q.timers
  BY <1>2 DEF RegisterFd, Shape
<1>5. LiveTimers(p) = LiveTimers(q)
  BY <1>4 DEF LiveTimers
<1>6. ASSUME NEW z \in Slot, p.slots = PutSlot(q.slots, i, z)
      PROVE  LiveSlots(p) = IF z.fd > 0 THEN LiveSlots(q) \union {i}
                                        ELSE LiveSlots(q)
  <2> DEFINE new == PutSlot(q.slots, i, z)
  <2>1. /\ i \in 1..Len(new) /\ new[i] = z
        /\ \A j \in 1..Len(q.slots) :
             j \in 1..Len(new) /\ (j # i => new[j] = q.slots[j])
        /\ \A j \in 1..Len(new) :
             j # i => j \in 1..Len(q.slots) /\ new[j] = q.slots[j]
    BY <1>2, SlotPut
  <2> HIDE DEF new, i, p
  <2>2. LiveSlots(p) = {j \in 1..Len(new) : new[j].fd > 0}
    BY <1>6 DEF LiveSlots, new
  <2>3. ASSUME NEW j, j # i PROVE j \in LiveSlots(p) <=> j \in LiveSlots(q)
    BY <2>1, <2>2, <2>3 DEF LiveSlots
  <2>4. i \in LiveSlots(p) <=> z.fd > 0
    BY <2>1, <2>2
  <2> QED
    BY <1>3, <2>3, <2>4
<1>7. CASE KernelRefuses(q, fd)
  <2>1. p.slots = PutSlot(q.slots, i, s0) /\ p.count = q.count
    BY <1>2, <1>7 DEF RegisterFd, Shape
  <2>2. ~(s0.fd > 0)
    OBVIOUS
  <2> HIDE DEF p, i, s, s0
  <2>3. LiveSlots(p) = LiveSlots(q)
    BY <1>1, <1>6, <2>1, <2>2
  <2> QED
    BY <1>5, <2>1, <2>3, CountStays DEF p
<1>8. CASE ~KernelRefuses(q, fd)
  <2>1. p.slots = PutSlot(q.slots, i, s) /\ p.count = q.count + 1
    BY <1>2, <1>8 DEF RegisterFd, Shape
  <2>2. s.fd > 0
    BY <1>1
  <2> HIDE DEF p, i, s, s0
  <2>3. LiveSlots(p) = LiveSlots(q) \union {i}
    BY <1>1, <1>6, <2>1, <2>2
  <2> QED
    BY <1>3, <1>5, <2>1, <2>3, CountUp DEF p
<1> QED
  BY <1>7, <1>8

LEMMA SameTimersLive ==
  ASSUME NEW q, NEW p, SameTimers(q, p)
  PROVE  LiveTimers(p) = LiveTimers(q)
BY DEF SameTimers, LiveTimers

\* A first poll of a sleep counts its timer, which was not live.
LEMMA SleepRegisterCounted ==
  ASSUME IInv, Counted(r), NEW k \in Timers, NEW t \in Tasks, SleepRegister(k, t)
  PROVE  Counted(r')
<1> DEFINE v == [live |-> 1, armed |-> 1, fired |-> 0, task |-> NoTask]
           n == r.count + 1
           q == RegisterTimer(r, k)
<1>1. r' = SetWaker(q, k, t).r /\ r.timers[k].live = 0
  BY DEF SleepRegister
<1>2. r \in Shape /\ Sound(r, held) /\ Silent(r) /\ n \in Nat /\ r.expired \in SUBSET Timers
  BY DEF IInv, Good, Shape
<1>3. v \in Timer /\ v.fired # 1 /\ v.live = 1
  BY DEF Timer
<1>4. q = TimerCall(r, k, v, n, r.expired)
  BY <1>2 DEF RegisterTimer, TimerCall, Shape
<1> HIDE DEF v, q
<1>5. /\ q \in Shape /\ Sound(q, held) /\ Silent(q)
      /\ q.slots = r.slots /\ q.count = n
      /\ q.timers[k] = v
      /\ \A j \in Timers : j # k => q.timers[j] = r.timers[j]
  BY <1>2, <1>3, <1>4, TimerCallKeeps
<1>6. /\ LiveSlots(q) = LiveSlots(r)
      /\ k \notin LiveTimers(r) /\ LiveTimers(q) = LiveTimers(r) \union {k}
  BY <1>1, <1>3, <1>5 DEF LiveSlots, LiveTimers
<1>7. Counted(q)
  BY <1>5, <1>6, CountUp
<1>8. k \in Int /\ k \in Timers
  BY ReactorAssumption
<1>9. SameTimers(q, r') /\ LiveSlots(r') = LiveSlots(q) /\ r'.count = q.count
  BY <1>1, <1>5, <1>8, SetWakerKeeps
<1>10. LiveTimers(r') = LiveTimers(q)
  BY <1>9, SameTimersLive
<1> QED
  BY <1>7, <1>9, <1>10, CountStays

LEMMA SleepDropCounted ==
  ASSUME IInv, Counted(r), NEW k \in Timers, SleepDrop(k)
  PROVE  Counted(r')
<1>1. r' = Deregister(r, k) /\ r.timers[k].live = 1
  BY DEF SleepDrop
<1>2. k > 0 /\ ~(k < 0) /\ k # 0
  BY ReactorAssumption
<1>3. r' = DeregisterTimer(r, k)
  BY <1>1, <1>2 DEF Deregister
<1>4. r \in Shape
  BY DEF IInv, Good
<1>5. /\ r'.slots = r.slots /\ r'.count = Dec(r.count)
      /\ r'.timers = [r.timers EXCEPT ![k] = FreeTimer]
  BY <1>3, <1>4 DEF DeregisterTimer, Shape
<1>6. r.timers \in [Timers -> Timer]
  BY <1>4 DEF Shape
<1>7. LiveSlots(r') = LiveSlots(r)
  BY <1>5 DEF LiveSlots
<1>8. k \in LiveTimers(r) /\ LiveTimers(r') = LiveTimers(r) \ {k}
  BY <1>1, <1>5, <1>6 DEF LiveTimers, FreeTimer
<1> QED
  BY <1>5, <1>7, <1>8, CountDown

\* What the kernel finds, and what asking a timer takes from it, is not
\* counted.
LEMMA KernelTimersCounted ==
  ASSUME IInv, Counted(r), NEW k \in Timers, SleepCheck(k) \/ TimerExpires(k)
  PROVE  Counted(r')
<1>1. r \in Shape /\ r.timers \in [Timers -> Timer]
  BY DEF IInv, Good, Shape
<1>2. k > 0 /\ ~(k < 0)
  BY ReactorAssumption
<1>3. /\ r'.slots = r.slots /\ r'.count = r.count
      /\ \A j \in Timers : r'.timers[j].live = r.timers[j].live
  <2>1. CASE SleepCheck(k)
    <3>1. r' = r \/ r' = [r EXCEPT !.expired = @ \ {k}]
      BY <1>2, <2>1 DEF SleepCheck, AfterCheckFired
    <3>2. r'.slots = r.slots /\ r'.count = r.count /\ r'.timers = r.timers
      BY <1>1, <3>1 DEF Shape
    <3> QED
      BY <3>2
  <2>2. CASE TimerExpires(k)
    <3>1. /\ r'.slots = r.slots /\ r'.count = r.count
          /\ r'.timers = [r.timers EXCEPT ![k].armed = 0]
      BY <1>1, <2>2 DEF TimerExpires, Expire, Shape
    <3> QED
      BY <1>1, <3>1 DEF Timer
  <2> QED
    BY <2>1, <2>2
<1>4. LiveSlots(r') = LiveSlots(r) /\ LiveTimers(r') = LiveTimers(r)
  BY <1>3 DEF LiveSlots, LiveTimers
<1> QED
  BY <1>3, <1>4, CountStays

LEMMA FdCallsCounted ==
  ASSUME 0 \notin Fds, IInv, Counted(r),
         \/ \E fd \in Fds : CloseFile(fd) \/ StreamFromFd(fd) \/ StreamDrop(fd)
         \/ \E fd \in Fds, mode \in Modes : FutureRegister(fd, mode)
         \/ \E x \in held : FutureDeregister(x) \/ \E t \in Tasks : AwaitIo(x, t)
  PROVE  Counted(r')
<1>0. Good(r, held) /\ r \in Shape /\ Sound(r, held) /\ Silent(r)
  BY DEF IInv, Good
<1>1. ASSUME NEW fd \in Fds, CloseFile(fd) \/ StreamDrop(fd) PROVE Counted(r')
  <2>1. r' = KernelClose(r, fd)
    BY <1>1 DEF CloseFile, StreamDrop
  <2>2. SameTimers(r, r') /\ LiveSlots(r') = LiveSlots(r) /\ r'.count = r.count
    BY <1>0, <2>1, CloseKeeps
  <2> QED
    BY <2>2, SameTimersLive, CountStays
<1>2. ASSUME NEW fd \in Fds, StreamFromFd(fd) PROVE Counted(r')
  <2> DEFINE a == RegisterFd(r, fd, Read)
             A == held \union Holding(a.handle, fd, Read)
  <2>1. r' = RegisterFd(a.r, fd, Write).r
    BY <1>2 DEF StreamFromFd
  <2>2. Good(a.r, A) /\ Counted(a.r)
    BY <1>0, RegisterGood, RegisterCounted DEF Modes
  <2> HIDE DEF a, A
  <2>3. Counted(RegisterFd(a.r, fd, Write).r)
    BY <2>2, RegisterCounted DEF Modes
  <2> QED
    BY <2>1, <2>3
<1>3. ASSUME NEW fd \in Fds, NEW mode \in Modes, FutureRegister(fd, mode)
      PROVE  Counted(r')
  <2>1. r' = RegisterFd(r, fd, mode).r
    BY <1>3 DEF FutureRegister
  <2> QED
    BY <1>0, <2>1, RegisterCounted
<1>4. ASSUME NEW x \in held, FutureDeregister(x) PROVE Counted(r')
  <2>1. r' = Deregister(r, x.handle)
    BY <1>4 DEF FutureDeregister
  <2>2. /\ SameTimers(r, r') /\ r'.count = Dec(r.count)
        /\ -x.handle \in LiveSlots(r)
        /\ LiveSlots(r') = LiveSlots(r) \ {-x.handle}
    BY <1>0, <2>1, DeregisterKeeps
  <2>3. LiveTimers(r') = LiveTimers(r)
    BY <2>2, SameTimersLive
  <2> QED
    BY <2>2, <2>3, CountDown
<1>5. ASSUME NEW x \in held, NEW t \in Tasks, AwaitIo(x, t) PROVE Counted(r')
  <2>1. r' = SetWaker(r, x.handle, t).r
    BY <1>5 DEF AwaitIo
  <2>2. x.handle \in Int /\ ~(x.handle > 0)
    <3>1. x \in Registration /\ -x.handle \in 1..Len(r.slots)
      BY <1>0 DEF Sound, Disjoint, Records
    <3> QED
      BY <3>1 DEF Registration
  <2>3. SameTimers(r, r') /\ LiveSlots(r') = LiveSlots(r) /\ r'.count = r.count
    BY <1>0, <2>1, <2>2, SetWakerKeeps
  <2> QED
    BY <2>3, SameTimersLive, CountStays
<1> QED
  BY <1>1, <1>2, <1>3, <1>4, <1>5

LEMMA ParkCounted ==
  ASSUME IInv, Counted(r), Wake \/ ParkStep
  PROVE  Counted(r')
<1>0. /\ r \in Shape /\ Sound(r, held) /\ Silent(r)
      /\ platform \in {"linux", "macos"} /\ \A e \in batch : Known(r, e)
  BY DEF IInv, Good
<1>1. CASE Wake
  <2>1. r'.slots = r.slots /\ r'.timers = r.timers /\ r'.count = r.count
    BY <1>0, <1>1 DEF Wake, Shape
  <2> QED
    BY <2>1, CountStays DEF LiveSlots, LiveTimers
<1>2. CASE ParkWait
  <2>1. r' = AfterWait(r)
    BY <1>2 DEF ParkWait
  <2>2. /\ LiveSlots(r') = LiveSlots(r) /\ LiveTimers(r') = LiveTimers(r)
        /\ r'.count = r.count
    BY <1>0, <2>1, WaitKeeps
  <2> QED
    BY <2>2, CountStays
<1>3. ASSUME NEW e \in batch, ParkEvent(e) PROVE Counted(r')
  <2>1. r' = AfterEvent(r, e)
    BY <1>3 DEF ParkEvent
  <2>2. /\ LiveSlots(r') = LiveSlots(r) /\ LiveTimers(r') = LiveTimers(r)
        /\ \/ r'.count = r.count
           \/ platform # "linux" /\ r'.count = Dec(r.count)
    BY <1>0, <1>3, <2>1, EventKeeps
  <2> QED
    BY <2>2, CountStays
<1> QED
  BY <1>1, <1>2, <1>3 DEF ParkStep

LEMMA NextCounted ==
  ASSUME 0 \notin Fds, IInv, Counted(r), [Next]_reactorVars
  PROVE  Counted(r)'
<1>1. CASE UNCHANGED <<platform, r>>
  BY <1>1 DEF Counted, CountFits, LiveSlots, LiveTimers
<1>2. CASE Next
  <2>1. platform' = platform
    BY <1>2 DEF Next
  <2>2. Counted(r') \/ r' = r
    BY <1>2, SleepRegisterCounted, SleepDropCounted, KernelTimersCounted,
       FdCallsCounted, ParkCounted
       DEF Next, Step, OpenFile, IoChanges, TaskPolled
  <2> QED
    BY <2>1, <2>2 DEF Counted, CountFits
<1> QED
  BY <1>1, <1>2 DEF reactorVars

LEMMA ReactorCounted ==
  ASSUME 0 \notin Fds PROVE Spec => []Counted(r)
<1>1. Init => Counted(r)
  <2>1. ASSUME Init PROVE Counted(r)
    <3>1. r.slots = << >> /\ r.count = 0 /\ \A k \in Timers : r.timers[k].live = 0
      BY <2>1 DEF Init, Reactor0, FreeTimer
    <3>2. LiveSlots(r) = {} /\ LiveTimers(r) = {}
      BY <3>1 DEF LiveSlots, LiveTimers
    <3> QED
      BY <3>1, <3>2, FS_EmptySet DEF Counted, CountFits
  <2> QED
    BY <2>1
<1>2. IInv /\ Counted(r) /\ [Next]_reactorVars => Counted(r)'
  BY NextCounted
<1> QED
  BY <1>1, <1>2, ReactorInvariant, PTL DEF Spec

\* registered_count, by which park_current decides whether to sleep in the
\* kernel, is the number of live table entries; on macOS at most that.
THEOREM ReactorCountMatchesTable ==
  ASSUME 0 \notin Fds PROVE Spec => []CountMatchesTable
<1>1. Counted(r) => CountMatchesTable
  BY DEF Counted, CountFits, CountMatchesTable
<1> QED
  BY <1>1, ReactorCounted, PTL

-----------------------------------------------------------------------------
(* epoll *)

\* On Linux the kernel watches the fd of every handle that is held, and an fd
\* for one slot only.
Watched(q, H) ==
  /\ \A x \in H : [fd |-> x.fd, mode |-> x.mode, slot |-> -x.handle] \in q.interest
  /\ \A a, b \in q.interest : a.fd = b.fd => a = b

LEMMA RegisterWatched ==
  ASSUME platform = "linux",
         NEW q \in Shape, NEW H, Watched(q, H), NEW fd \in Fds, NEW mode \in Modes
  PROVE  LET g == RegisterFd(q, fd, mode)
         IN  Watched(g.r, H \union Holding(g.handle, fd, mode))
<1> DEFINE i == AllocFdSlot(q)
           g == RegisterFd(q, fd, mode)
           mine == [handle |-> -i, fd |-> fd, mode |-> mode]
           reg == [fd |-> fd, mode |-> mode, slot |-> i]
<1>1. i \in Int
  BY AllocatedSlot DEF Shape
<1>2. CASE KernelRefuses(q, fd)
  <2>1. g.r.interest = q.interest /\ g.handle = 0
    BY <1>2 DEF RegisterFd, Shape
  <2> QED
    BY <2>1 DEF Watched, Holding
<1>3. CASE ~KernelRefuses(q, fd)
  <2>1. \A x \in q.interest : x.fd # fd
    BY <1>3 DEF KernelRefuses
  <2>2. g.r.interest = {x \in q.interest : <<x.fd, x.mode>> # <<fd, mode>>}
                         \union {reg}
    BY <1>3 DEF RegisterFd, Shape
  <2>3. g.handle = -i
    BY <1>3 DEF RegisterFd
  <2>4. g.r.interest = q.interest \union {reg}
    BY <2>1, <2>2
  <2>5. H \union Holding(g.handle, fd, mode) \subseteq H \union {mine}
    BY <2>3 DEF Holding
  <2> HIDE DEF g, i
  <2>6. [fd |-> mine.fd, mode |-> mine.mode, slot |-> -mine.handle] = reg
    BY <1>1
  <2>7. \A x \in H \union {mine} :
          [fd |-> x.fd, mode |-> x.mode, slot |-> -x.handle] \in g.r.interest
    BY <2>4, <2>6 DEF Watched
  <2>8. \A a, b \in g.r.interest : a.fd = b.fd => a = b
    BY <2>1, <2>4 DEF Watched
  <2> QED
    BY <2>5, <2>7, <2>8 DEF Watched, g
<1> QED
  BY <1>2, <1>3

\* epoll's DEL, which knows no mode, takes only what the handle stands for.
LEMMA DeregisterWatched ==
  ASSUME NEW q, NEW H, Sound(q, H), Watched(q, H), NEW x \in H, NEW p,
         \A y : y \in p.interest <=> y \in q.interest /\ y.fd # x.fd
  PROVE  Watched(p, H \ {x})
<1>1. ASSUME NEW y \in H, y # x
      PROVE  [fd |-> y.fd, mode |-> y.mode, slot |-> -y.handle] \in p.interest
  <2> DEFINE reg(z) == [fd |-> z.fd, mode |-> z.mode, slot |-> -z.handle]
  <2>1. reg(x) \in q.interest /\ reg(y) \in q.interest
    BY DEF Watched
  <2>2. x.handle \in Int /\ y.handle \in Int /\ x.handle # y.handle
    BY <1>1 DEF Sound, Disjoint, Registration
  <2>3. reg(x) # reg(y)
    BY <2>2
  <2>4. reg(x).fd # reg(y).fd
    BY <2>1, <2>3 DEF Watched
  <2> QED
    BY <2>1, <2>4
<1>2. \A a, b \in p.interest : a.fd = b.fd => a = b
  BY DEF Watched
<1> QED
  BY <1>1, <1>2 DEF Watched

LEMMA CloseWatched ==
  ASSUME NEW q \in Shape, NEW H, Watched(q, H), NEW fd
  PROVE  Watched(KernelClose(q, fd), {x \in H : x.fd # fd})
<1> DEFINE p == KernelClose(q, fd)
<1>1. p.interest = {x \in q.interest : x.fd # fd}
  BY DEF KernelClose, Shape
<1> HIDE DEF p
<1>2. Watched(p, {x \in H : x.fd # fd})
  BY <1>1 DEF Watched
<1> QED
  BY <1>2 DEF p

\* The calls that concern no fd leave the kernel's set alone.
LEMMA InterestStays ==
  ASSUME IInv,
         \/ \E fd \in Fds : OpenFile(fd)
         \/ \E fd \in Fds, mode \in Modes : IoChanges(fd, mode)
         \/ \E x \in held, t \in Tasks : AwaitIo(x, t)
         \/ \E k \in Timers : \/ \E t \in Tasks : SleepRegister(k, t)
                              \/ SleepCheck(k) \/ SleepDrop(k) \/ TimerExpires(k)
         \/ \E t \in Tasks : TaskPolled(t)
         \/ Wake \/ ParkStep
  PROVE  r'.interest = r.interest /\ held' = held
<1>0. /\ r \in Shape /\ Sound(r, held) /\ Silent(r)
      /\ platform \in {"linux", "macos"} /\ \A e \in batch : Known(r, e)
  BY DEF IInv, Good
<1>1. ASSUME NEW x \in held, NEW t \in Tasks, AwaitIo(x, t)
      PROVE  r'.interest = r.interest /\ held' = held
  <2>1. r' = SetWaker(r, x.handle, t).r /\ held' = held
    BY <1>1 DEF AwaitIo
  <2>2. x.handle \in Int /\ ~(x.handle > 0)
    <3>1. x \in Registration /\ -x.handle \in 1..Len(r.slots)
      BY <1>0 DEF Sound, Disjoint, Records
    <3> QED
      BY <3>1 DEF Registration
  <2> QED
    BY <1>0, <2>1, <2>2, SetWakerKeeps
<1>2. ASSUME NEW k \in Timers, NEW t \in Tasks, SleepRegister(k, t)
      PROVE  r'.interest = r.interest /\ held' = held
  <2> DEFINE v == [live |-> 1, armed |-> 1, fired |-> 0, task |-> NoTask]
             n == r.count + 1
             q == RegisterTimer(r, k)
  <2>1. r' = SetWaker(q, k, t).r /\ held' = held
    BY <1>2 DEF SleepRegister
  <2>2. v \in Timer /\ v.fired # 1 /\ n \in Nat /\ r.expired \in SUBSET Timers
    BY <1>0 DEF Timer, Shape
  <2>3. q = TimerCall(r, k, v, n, r.expired)
    BY <1>0 DEF RegisterTimer, TimerCall, Shape
  <2>4. k \in Int /\ k \in Timers
    BY ReactorAssumption
  <2> HIDE DEF v, n, q
  <2>5. q \in Shape /\ Sound(q, held) /\ Silent(q) /\ q.interest = r.interest
    BY <1>0, <2>2, <2>3, TimerCallKeeps
  <2> QED
    BY <2>1, <2>4, <2>5, SetWakerKeeps
<1>3. ASSUME NEW k \in Timers, SleepCheck(k) \/ SleepDrop(k) \/ TimerExpires(k)
      PROVE  r'.interest = r.interest /\ held' = held
  <2>1. k > 0 /\ ~(k < 0) /\ k # 0
    BY ReactorAssumption
  <2>2. CASE SleepCheck(k)
    BY <1>0, <2>1, <2>2 DEF SleepCheck, AfterCheckFired, Shape
  <2>3. CASE SleepDrop(k)
    <3>1. r' = DeregisterTimer(r, k) /\ held' = held
      BY <2>1, <2>3 DEF SleepDrop, Deregister
    <3> QED
      BY <1>0, <3>1 DEF DeregisterTimer, Shape
  <2>4. CASE TimerExpires(k)
    BY <1>0, <2>4 DEF TimerExpires, Expire, Shape
  <2> QED
    BY <1>3, <2>2, <2>3, <2>4
<1>4. CASE Wake
  BY <1>0, <1>4 DEF Wake, Shape
<1>5. CASE ParkWait
  BY <1>0, <1>5, WaitKeeps DEF ParkWait
<1>6. ASSUME NEW e \in batch, ParkEvent(e)
      PROVE  r'.interest = r.interest /\ held' = held
  BY <1>0, <1>6, EventKeeps DEF ParkEvent
<1> QED
  BY <1>1, <1>2, <1>3, <1>4, <1>5, <1>6
     DEF ParkStep, OpenFile, IoChanges, TaskPolled

LEMMA NextWatched ==
  ASSUME 0 \notin Fds, platform = "linux", IInv, Watched(r, held),
         [Next]_reactorVars
  PROVE  Watched(r', held')
<1>0. Good(r, held) /\ r \in Shape /\ Sound(r, held) /\ Silent(r)
  BY DEF IInv, Good
<1>1. CASE r'.interest = r.interest /\ held' = held
  BY <1>1 DEF Watched
<1>2. ASSUME NEW fd \in Fds, CloseFile(fd) \/ StreamDrop(fd)
      PROVE  Watched(r', held')
  <2>1. r' = KernelClose(r, fd) /\ held' = {x \in held : x.fd # fd}
    BY <1>2 DEF CloseFile, StreamDrop
  <2> QED
    BY <1>0, <2>1, CloseWatched
<1>3. ASSUME NEW fd \in Fds, StreamFromFd(fd) PROVE Watched(r', held')
  <2> DEFINE a == RegisterFd(r, fd, Read)
             A == held \union Holding(a.handle, fd, Read)
             b == RegisterFd(a.r, fd, Write)
             B == A \union Holding(b.handle, fd, Write)
  <2>1. r' = b.r /\ held' = B
    BY <1>3 DEF StreamFromFd
  <2>2. Watched(a.r, A) /\ a.r \in Shape
    BY <1>0, RegisterWatched, RegisterGood DEF Modes, Good
  <2> HIDE DEF a, A
  <2>3. Watched(b.r, B)
    BY <2>2, RegisterWatched DEF Modes
  <2> QED
    BY <2>1, <2>3
<1>4. ASSUME NEW fd \in Fds, NEW mode \in Modes, FutureRegister(fd, mode)
      PROVE  Watched(r', held')
  BY <1>0, <1>4, RegisterWatched DEF FutureRegister
<1>5. ASSUME NEW x \in held, FutureDeregister(x) PROVE Watched(r', held')
  <2>1. r' = Deregister(r, x.handle) /\ held' = held \ {x}
    BY <1>5 DEF FutureDeregister
  <2>2. \A y : y \in r'.interest <=> y \in r.interest /\ y.fd # x.fd
    BY <1>0, <2>1, DeregisterKeeps
  <2> QED
    BY <1>0, <2>1, <2>2, DeregisterWatched
<1>6. CASE UNCHANGED reactorVars
  BY <1>1, <1>6 DEF reactorVars
<1>7. CASE Next
  BY <1>1, <1>2, <1>3, <1>4, <1>5, <1>7, InterestStays DEF Next, Step
<1> QED
  BY <1>6, <1>7

\* On Linux a task parked on a registration its future still holds can be
\* reached: the kernel watches that fd for that slot, and park_current asks.
THEOREM ReactorParkedIsWatched ==
  ASSUME 0 \notin Fds PROVE Spec => []ParkedIsWatched
<1> DEFINE Linux == platform = "linux" => Watched(r, held)
<1>1. Init => Linux
  BY DEF Init, Reactor0, Watched
<1>2. IInv /\ Linux /\ [Next]_reactorVars => Linux'
  <2>1. ASSUME [Next]_reactorVars PROVE platform' = platform
    BY <2>1 DEF Next, reactorVars
  <2> QED
    BY <2>1, NextWatched
<1>3. IInv /\ Linux /\ Counted(r) => ParkedIsWatched
  <2> SUFFICES ASSUME IInv, Linux, Counted(r), platform = "linux", NEW x \in held
               PROVE  /\ [fd |-> x.fd, mode |-> x.mode, slot |-> -x.handle] \in r.interest
                      /\ r.count > 0
    BY DEF ParkedIsWatched
  <2>1. -x.handle \in LiveSlots(r)
    <3>1. x.fd \in Fds /\ Records(r, -x.handle, x.fd, x.mode)
      BY DEF IInv, Good, Sound, Disjoint, Registration
    <3>2. x.fd \in Nat /\ x.fd # 0
      BY <3>1, ReactorAssumption
    <3>3. x.fd > 0
      BY <3>2
    <3> QED
      BY <3>1, <3>3 DEF Records, LiveSlots
  <2>2. r.count > 0
    BY <2>1, FS_EmptySet, FS_CardinalityType DEF Counted, CountFits
  <2> QED
    BY <2>2 DEF Watched
<1> QED
  BY <1>1, <1>2, <1>3, ReactorInvariant, ReactorCounted, PTL DEF Spec
=============================================================================
