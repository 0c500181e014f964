-------------------------- MODULE AsyncRuntimeProofs --------------------------
(***************************************************************************)
(* Theorems about AsyncRuntime, for any number of tasks, fds and timers    *)
(* and any programs, on both platforms: the scheduler's entries are not    *)
(* used after they are freed, and the executor does not go to sleep on     *)
(* something it could do.                                                  *)
(***************************************************************************)
EXTENDS AsyncRuntime, FiniteSetTheorems, TLAPS

SP == INSTANCE SchedulerProofs
        WITH Values <- {1}, passed <- [t \in Tasks |-> {}]
RP == INSTANCE ReactorProofs
        WITH platform <- Platform, Platforms <- {Platform},
             NoTask <- Root, held <- Held,
             fdUse <- [f \in Fds |-> IF f \in Streams THEN "stream" ELSE "closed"]

-----------------------------------------------------------------------------
(* The scheduler in the runtime.                                           *)

\* What a poll needs to know to spawn the task its program names.
AtAStep == prog \in Programs /\ st \in [Futures -> Nat \ {0}]

\* A wake through a waker or a slot is one WakeTask, or touches nothing of
\* the scheduler.
LEMMA WakeEntryRefines ==
  ASSUME NEW t, WakeEntry(t)
  PROVE  [Sch!Next]_schedVars
<1>1. CASE t \in Tasks /\ entry[t] = "live"
  <2>1. Sch!WakeTask(t)
    BY <1>1 DEF WakeEntry
  <2> QED
    BY <1>1, <2>1 DEF Sch!Next
<1>2. CASE ~(t \in Tasks /\ entry[t] = "live")
  BY <1>2 DEF WakeEntry
<1> QED
  BY <1>1, <1>2

LEMMA WakeCallerRefines ==
  ASSUME NEW f, NEW S, WakeCaller(f, S)
  PROVE  [Sch!Next]_schedVars
BY WakeEntryRefines DEF WakeCaller

\* The step a program is at is one of its body.
LEMMA SpawnsTask ==
  ASSUME AtAStep, NEW f \in Futures, At(f, "spawn")
  PROVE  Arg(f).task \in Tasks
<1>1. st[f] \in Nat \ {0} /\ st[f] <= Len(Body(f))
  BY DEF AtAStep, At
<1>2. Body(f)[st[f]].kind = "spawn"
  BY DEF At
<1> QED
  BY <1>1, <1>2, RuntimeAssumption DEF AtAStep, Body, Arg

LEMMA PollRefines ==
  ASSUME AtAStep, NEW f \in Futures, PollStep(f)
  PROVE  [Sch!Next]_schedVars
<1>1. CASE PollSpawn(f)
  <2>1. Sch!Spawn(Arg(f).task) /\ Arg(f).task \in Tasks
    BY <1>1, SpawnsTask DEF PollSpawn
  <2> QED
    BY <2>1 DEF Sch!Next
<1>2. CASE PollYield(f)
  BY <1>2, WakeEntryRefines DEF PollYield
<1>3. CASE PollJoin(f)
  BY <1>3 DEF PollJoin
<1>4. CASE PollSleep(f)
  BY <1>4, WakeCallerRefines DEF PollSleep
<1>5. CASE PollRead(f)
  BY <1>5, WakeCallerRefines DEF PollRead
<1>6. CASE PollReadTimeout(f)
  BY <1>6, WakeCallerRefines DEF PollReadTimeout
<1>7. CASE PollExt(f)
  BY <1>7 DEF PollExt
<1> QED
  BY <1>1, <1>2, <1>3, <1>4, <1>5, <1>6, <1>7 DEF PollStep

LEMMA BlockOnRefines ==
  ASSUME AtAStep, BlockOn
  PROVE  [Sch!Next]_schedVars
<1>0. ASSUME NEW fd \in Fds, OpenStream(fd)
      PROVE  [Sch!Next]_schedVars
  BY <1>0 DEF OpenStream
<1>1. CASE PumpNothing
  BY <1>1 DEF PumpNothing
<1>2. CASE PumpWalk
  BY <1>2 DEF PumpWalk, Sch!Next, Sch!PumpStep
<1>3. CASE PumpReturns
  BY <1>3 DEF PumpReturns, Sch!Next, Sch!PumpStep
<1>4. CASE TaskReturns
  BY <1>4 DEF TaskReturns, Sch!Next, Sch!PumpStep
<1>5. CASE RootReturns
  BY <1>5 DEF RootReturns
<1>6. CASE Decide
  BY <1>6 DEF Decide
<1>7. CASE ParkYield
  BY <1>7 DEF ParkYield
<1>8. CASE ParkWait
  BY <1>8 DEF ParkWait
<1>9. ASSUME NEW e \in batch, ParkEvent(e)
      PROVE  [Sch!Next]_schedVars
  BY <1>9, WakeEntryRefines DEF ParkEvent
<1>10. ASSUME NEW f \in Futures, PollStep(f)
       PROVE  [Sch!Next]_schedVars
  BY <1>10, PollRefines
<1> QED
  BY <1>0, <1>1, <1>2, <1>3, <1>4, <1>5, <1>6, <1>7, <1>8, <1>9, <1>10
     DEF BlockOn

LEMMA ThreadRefines ==
  ASSUME NEW f \in Futures, ThreadFinishes(f) \/ ThreadWakes(f)
  PROVE  [Sch!Next]_schedVars
<1>1. CASE ThreadFinishes(f)
  BY <1>1 DEF ThreadFinishes
<1>2. CASE ThreadWakes(f)
  BY <1>2, WakeEntryRefines DEF ThreadWakes
<1> QED
  BY <1>1, <1>2

LEMMA StepRefines ==
  ASSUME AtAStep, [Next]_vars
  PROVE  [Sch!Next]_schedVars
<1>1. CASE BlockOn
  BY <1>1, BlockOnRefines
<1>2. ASSUME NEW f \in Futures, ThreadFinishes(f) \/ ThreadWakes(f)
      PROVE  [Sch!Next]_schedVars
  BY <1>2, ThreadRefines
<1>3. ASSUME NEW k \in Timers, TimerExpires(k)
      PROVE  [Sch!Next]_schedVars
  BY <1>3 DEF TimerExpires
<1>4. ASSUME NEW fd \in Fds, PeerSends(fd)
      PROVE  [Sch!Next]_schedVars
  BY <1>4 DEF PeerSends
<1>5. CASE UNCHANGED vars
  BY <1>5 DEF vars
<1> QED
  BY <1>1, <1>2, <1>3, <1>4, <1>5 DEF Next

-----------------------------------------------------------------------------
\* The program never changes, and a future's step only goes up.
LEMMA PollKeepsStep ==
  ASSUME AtAStep, NEW f \in Futures, PollStep(f)
  PROVE  AtAStep'
<1> DEFINE Up == st' = [st EXCEPT ![f] = @ + 1]
<1>1. prog' = prog
  BY DEF PollStep, PollSpawn, PollYield, PollJoin, PollSleep, PollRead,
         PollReadTimeout, PollExt
<1>2. Up \/ st' = st
  BY DEF PollStep, PollSpawn, PollYield, PollJoin, PollSleep, PollRead,
         PollReadTimeout, PollExt, Advance, Suspend
<1> QED
  BY <1>1, <1>2 DEF AtAStep

LEMMA StepKept ==
  ASSUME AtAStep, [Next]_vars
  PROVE  AtAStep'
<1>1. CASE \E f \in Futures : PollStep(f)
  BY <1>1, PollKeepsStep
<1>2. CASE ~(\E f \in Futures : PollStep(f))
  <2>1. prog' = prog /\ st' = st
    BY <1>2 DEF Next, vars, futureVars, BlockOn, OpenStream, PumpNothing, PumpWalk,
         PumpReturns, TaskReturns, RootReturns, Decide, ParkYield, ParkWait,
         ParkEvent, ThreadFinishes, ThreadWakes, TimerExpires, PeerSends
  <2> QED
    BY <2>1 DEF AtAStep
<1> QED
  BY <1>1, <1>2

-----------------------------------------------------------------------------
(* The reactor: who is remembered where.                                   *)

\* The handles of the slots and timers that will wake t.
Waits(q, t) ==
  {-i : i \in {j \in 1..Len(q.slots) : q.slots[j].task = t}}
  \union {k \in Timers : q.timers[k].task = t}

\* The kernel's registrations lead to slots of the table, and so do its
\* events.
Linked(q) == \A x \in q.interest : x.slot \in 1..Len(q.slots)

KnownEvent(q, e) ==
  \/ e = Rct!WakeEvent
  \/ e.kind = "fd" /\ e.at \in 1..Len(q.slots)
  \/ e.kind = "timer" /\ e.at \in Timers

\* A reactor whose wake fd is left alone, whose table does not shrink, and
\* that is linked if it was.
Steady(q, p) ==
  /\ p \in RP!Shape
  /\ p.wakeFd = q.wakeFd
  /\ Len(p.slots) >= Len(q.slots)
  /\ Linked(q) => Linked(p)

\* Task t is remembered at no new place.
NoNewWaits(q, p, t) == Waits(p, t) \subseteq Waits(q, t)

LEMMA ReactorAssumed == RP!ReactorAssumption
BY RuntimeAssumption DEF RP!ReactorAssumption

LEMMA WaitsAt ==
  ASSUME NEW q \in RP!Shape, NEW t, NEW h
  PROVE  h \in Waits(q, t) <=>
           \/ h \in Int /\ -h \in 1..Len(q.slots) /\ q.slots[-h].task = t
           \/ h \in Timers /\ q.timers[h].task = t
<1>1. q.slots \in Seq(RP!Slot) /\ Len(q.slots) \in Nat
  BY DEF RP!Shape
<1>2. ASSUME NEW i \in 1..Len(q.slots), h = -i
      PROVE  h \in Int /\ -h = i
  BY <1>1, <1>2
<1>3. ASSUME h \in Int, -h \in 1..Len(q.slots)
      PROVE  h = -(-h)
  BY <1>3
<1> QED
  BY <1>2, <1>3 DEF Waits

\* A slot of the table changes.
LEMMA SlotChanges ==
  ASSUME NEW q \in RP!Shape, NEW j \in 1..Len(q.slots), NEW s \in RP!Slot
  PROVE  LET p == [q EXCEPT !.slots = [q.slots EXCEPT ![j] = s]]
         IN  /\ Steady(q, p)
             /\ Len(p.slots) = Len(q.slots)
             /\ \A t : \A h : h \in Waits(p, t) <=>
                  \/ h \in Waits(q, t) /\ h # -j
                  \/ h = -j /\ s.task = t
<1> DEFINE new == [q.slots EXCEPT ![j] = s]
           p == [q EXCEPT !.slots = new]
<1>1. q.slots \in Seq(RP!Slot) /\ Len(q.slots) \in Nat
  BY DEF RP!Shape
<1>2. /\ new \in Seq(RP!Slot) /\ Len(new) = Len(q.slots) /\ new[j] = s
      /\ \A i \in 1..Len(q.slots) : i # j => new[i] = q.slots[i]
  BY <1>1
<1> HIDE DEF new
<1>3. /\ p \in RP!Shape /\ p.slots = new /\ p.timers = q.timers
      /\ p.interest = q.interest /\ p.wakeFd = q.wakeFd
  BY <1>2 DEF RP!Shape
<1> HIDE DEF p
<1>4. -j \notin Timers /\ -j \in Int /\ -(-j) = j
  BY <1>1, RuntimeAssumption
<1>5. ASSUME NEW t, NEW h
      PROVE  h \in Waits(p, t) <=> \/ h \in Waits(q, t) /\ h # -j
                                   \/ h = -j /\ s.task = t
  <2>1. CASE h = -j
    BY <2>1, <1>2, <1>3, <1>4, WaitsAt
  <2>2. CASE h # -j
    <3>1. h \in Int => -h # j
      BY <2>2, <1>1
    <3> QED
      BY <2>2, <3>1, <1>2, <1>3, WaitsAt
  <2> QED
    BY <2>1, <2>2
<1>6. Steady(q, p)
  BY <1>2, <1>3 DEF Steady, Linked
<1> QED
  BY <1>2, <1>3, <1>5, <1>6 DEF p, new

\* A timer changes, and with it the count and what the kernel has to report.
LEMMA TimerChanges ==
  ASSUME NEW q \in RP!Shape, NEW k \in Timers, NEW v \in RP!Timer,
         NEW n \in Nat, NEW x \in SUBSET Timers,
         NEW p, p = RP!TimerCall(q, k, v, n, x)
  PROVE  /\ Steady(q, p)
         /\ Len(p.slots) = Len(q.slots)
         /\ p.timers[k] = v
         /\ \A t : \A h : h \in Waits(p, t) <=>
              \/ h \in Waits(q, t) /\ h # k
              \/ h = k /\ v.task = t
<1> DEFINE new == [q.timers EXCEPT ![k] = v]
<1>1. q.timers \in [Timers -> RP!Timer]
  BY DEF RP!Shape
<1>2. /\ new \in [Timers -> RP!Timer] /\ new[k] = v
      /\ \A i \in Timers : i # k => new[i] = q.timers[i]
  BY <1>1
<1> HIDE DEF new
<1>3. /\ p \in RP!Shape /\ p.slots = q.slots /\ p.timers = new
      /\ p.interest = q.interest /\ p.wakeFd = q.wakeFd
  BY <1>2 DEF RP!Shape, RP!TimerCall, new
<1>4. q.slots \in Seq(RP!Slot) /\ Len(q.slots) \in Nat
  BY DEF RP!Shape
<1>5. k \in Nat \ {0} /\ ~(-k \in 1..Len(q.slots))
  BY <1>4, RuntimeAssumption
<1>6. ASSUME NEW t, NEW h
      PROVE  h \in Waits(p, t) <=> \/ h \in Waits(q, t) /\ h # k
                                   \/ h = k /\ v.task = t
  <2>11. h \in Waits(p, t) <=>
          \/ h \in Int /\ -h \in 1..Len(p.slots) /\ p.slots[-h].task = t
          \/ h \in Timers /\ p.timers[h].task = t
    BY <1>3, WaitsAt
  <2>12. h \in Waits(q, t) <=>
          \/ h \in Int /\ -h \in 1..Len(q.slots) /\ q.slots[-h].task = t
          \/ h \in Timers /\ q.timers[h].task = t
    BY WaitsAt
  <2>13. p.slots = q.slots /\ p.timers = new
    BY <1>3
  <2>1. CASE h = k
    BY <2>11, <2>12, <2>13, <2>1, <1>2, <1>5
  <2>2. CASE h # k
    BY <2>11, <2>12, <2>13, <2>2, <1>2
  <2> QED
    BY <2>1, <2>2
<1>7. Steady(q, p)
  BY <1>3 DEF Steady, Linked
<1> QED
  BY <1>2, <1>3, <1>6, <1>7

\* set_waker leaves the waker in one place at most, and in none if it wakes.
LEMMA SetWakerWaits ==
  ASSUME NEW q \in RP!Shape, NEW h \in Int, h > 0 => h \in Timers,
         NEW t \in Futures, NEW g, g = Rct!SetWaker(q, h, t)
  PROVE  /\ Steady(q, g.r)
         /\ t = Root => g.r = q /\ g.wakes = {}
         /\ g.wakes \subseteq {t}
         /\ \A u \in Tasks : u # t => NoNewWaits(q, g.r, u)
         /\ g.wakes # {} => NoNewWaits(q, g.r, t)
         /\ Waits(q, t) = {} => \A x, y \in Waits(g.r, t) : x = y
<1> DEFINE same == [r |-> q, wakes |-> {}]
           old == q.slots[-h]
           tmr == q.timers[h]
<1>0. q.slots \in Seq(RP!Slot) /\ q.timers \in [Timers -> RP!Timer] /\ Root \notin Tasks
  BY RuntimeAssumption DEF RP!Shape
<1>1. CASE g = same
  <2>1. g.r = q /\ g.wakes = {}
    BY <1>1
  <2> QED
    BY <2>1 DEF Steady, NoNewWaits
<1>2. CASE h < 0 /\ Rct!HasFdSlot(q, h) /\ t # Root
  <2>1. -h \in 1..Len(q.slots) /\ h # 0 /\ ~(h > 0)
    BY <1>2 DEF Rct!HasFdSlot, Rct!LiveSlots
  <2>2. old \in RP!Slot
    BY <2>1, <1>0
  <2> DEFINE s0 == [old EXCEPT !.fired = 0, !.task = Root]
             s1 == [old EXCEPT !.task = t]
             p(s) == [q EXCEPT !.slots = [q.slots EXCEPT ![-h] = s]]
  <2>3. /\ s0 \in RP!Slot /\ s0.task = Root
        /\ s1 \in RP!Slot /\ s1.task = t
    <3> HIDE DEF old
    <3> QED BY <2>2 DEF RP!Slot, Futures
  <2>4. \/ g = [r |-> p(s0), wakes |-> {t}]
        \/ g = [r |-> p(s1), wakes |-> {}]
    <3>1. \/ g = [r |-> [q EXCEPT !.slots[-h].fired = 0, !.slots[-h].task = Root],
                  wakes |-> {t}]
          \/ g = [r |-> [q EXCEPT !.slots[-h].task = t], wakes |-> {}]
      BY <1>2, <2>1 DEF Rct!SetWaker
    <3>2. [q EXCEPT !.slots[-h].fired = 0, !.slots[-h].task = Root] = p(s0)
      BY <1>0, <2>1 DEF RP!Shape
    <3> QED
      BY <3>1, <3>2
  <2> HIDE DEF s0, s1, old
  <2>5. ASSUME NEW s \in RP!Slot
        PROVE  /\ Steady(q, p(s))
               /\ \A u : \A x : x \in Waits(p(s), u) <=>
                    \/ x \in Waits(q, u) /\ x # h
                    \/ x = h /\ s.task = u
    BY <2>1, SlotChanges
  <2> HIDE DEF p
  <2>6. CASE g = [r |-> p(s0), wakes |-> {t}]
    <3>1. g.r = p(s0) /\ g.wakes = {t}
      BY <2>6
    <3> QED
      BY <1>0, <2>3, <2>5, <3>1, <1>2 DEF NoNewWaits
  <2>7. CASE g = [r |-> p(s1), wakes |-> {}]
    <3>1. g.r = p(s1) /\ g.wakes = {}
      BY <2>7
    <3> QED
      BY <1>0, <2>3, <2>5, <3>1, <1>2 DEF NoNewWaits
  <2> QED
    BY <2>4, <2>6, <2>7
<1>3. CASE h > 0 /\ q.timers[h].live # 0 /\ t # Root
  <2>1. h \in Timers /\ h # 0 /\ ~(h < 0)
    BY <1>3
  <2>2. tmr \in RP!Timer
    BY <2>1, <1>0
  <2> DEFINE v0 == [tmr EXCEPT !.task = Root]
             v1 == [tmr EXCEPT !.task = t]
             p(v) == [q EXCEPT !.timers = [q.timers EXCEPT ![h] = v]]
  <2>3. /\ v0 \in RP!Timer /\ v0.task = Root
        /\ v1 \in RP!Timer /\ v1.task = t
    <3> HIDE DEF tmr
    <3> QED BY <2>2 DEF RP!Timer, Futures
  <2>4. \/ g = [r |-> p(v0), wakes |-> {t}]
        \/ g = [r |-> p(v1), wakes |-> {}]
    BY <1>3, <2>1 DEF Rct!SetWaker
  <2> HIDE DEF v0, v1, tmr
  <2>5. ASSUME NEW v \in RP!Timer
        PROVE  /\ Steady(q, p(v))
               /\ \A u : \A x : x \in Waits(p(v), u) <=>
                    \/ x \in Waits(q, u) /\ x # h
                    \/ x = h /\ v.task = u
    <3> DEFINE new == [q.timers EXCEPT ![h] = v]
    <3>1. [q EXCEPT !.timers = new]
            = [q EXCEPT !.timers = new, !.count = q.count, !.expired = q.expired]
      <4> HIDE DEF new
      <4> QED
        BY DEF RP!Shape
    <3>2. p(v) = RP!TimerCall(q, h, v, q.count, q.expired)
      BY <3>1 DEF RP!TimerCall
    <3>3. q.count \in Nat /\ q.expired \in SUBSET Timers
      BY DEF RP!Shape
    <3> HIDE DEF p
    <3> QED
      BY <2>1, <3>2, <3>3, TimerChanges
  <2> HIDE DEF p
  <2>6. CASE g = [r |-> p(v0), wakes |-> {t}]
    <3>1. g.r = p(v0) /\ g.wakes = {t}
      BY <2>6
    <3> QED
      BY <1>0, <2>3, <2>5, <3>1, <1>3 DEF NoNewWaits
  <2>7. CASE g = [r |-> p(v1), wakes |-> {}]
    <3>1. g.r = p(v1) /\ g.wakes = {}
      BY <2>7
    <3> QED
      BY <1>0, <2>3, <2>5, <3>1, <1>3 DEF NoNewWaits
  <2> QED
    BY <2>4, <2>6, <2>7
<1>4. \/ g = same
      \/ h < 0 /\ Rct!HasFdSlot(q, h) /\ t # Root
      \/ h > 0 /\ q.timers[h].live # 0 /\ t # Root
  BY <1>0 DEF Rct!SetWaker
<1> QED
  BY <1>1, <1>2, <1>3, <1>4, ZenonT(30)

\* No task is remembered at a new place.
Calm(q, p) == Steady(q, p) /\ \A t \in Tasks : NoNewWaits(q, p, t)

\* The calls on a timer put nobody's waker anywhere.
LEMMA TimerCallCalm ==
  ASSUME NEW q \in RP!Shape, NEW k \in Timers, NEW v \in RP!Timer,
         v.task \in {Root, q.timers[k].task},
         NEW n \in Nat, NEW x \in SUBSET Timers,
         NEW p, p = RP!TimerCall(q, k, v, n, x)
  PROVE  Calm(q, p)
<1>1. /\ Steady(q, p)
      /\ \A u : \A h : h \in Waits(p, u) <=>
           \/ h \in Waits(q, u) /\ h # k
           \/ h = k /\ v.task = u
  BY TimerChanges
<1>2. \A u : q.timers[k].task = u => k \in Waits(q, u)
  BY DEF Waits
<1>3. Root \notin Tasks
  BY RuntimeAssumption
<1> QED
  BY <1>1, <1>2, <1>3 DEF Calm, NoNewWaits

LEMMA TimerCallsCalm ==
  ASSUME NEW q \in RP!Shape, NEW k \in Timers, NEW p,
         \/ p = Rct!RegisterTimer(q, k)
         \/ p = Rct!AfterCheckFired(q, k)
         \/ p = Rct!Deregister(q, k)
         \/ p = Rct!Expire(q, k)
  PROVE  Calm(q, p)
<1> DEFINE old == q.timers[k]
           armed == [live |-> 1, armed |-> 1, fired |-> 0, task |-> Root]
           free == [live |-> 0, armed |-> 0, fired |-> 0, task |-> Root]
           due == [old EXCEPT !.armed = 0]
<1>1. /\ old \in RP!Timer /\ q.count \in Nat /\ q.expired \in SUBSET Timers
      /\ q.timers \in [Timers -> RP!Timer]
  BY DEF RP!Shape
<1>2. k # 0 /\ k > 0 /\ ~(k < 0)
  BY RuntimeAssumption
<1>3. /\ armed \in RP!Timer /\ armed.task = Root
      /\ free \in RP!Timer /\ free.task = Root
  BY DEF RP!Timer
<1>4. due \in RP!Timer /\ due.task = old.task
  <2> HIDE DEF old
  <2> QED
    BY <1>1 DEF RP!Timer
<1>5. ASSUME NEW v \in RP!Timer, v.task \in {Root, old.task},
             NEW n \in Nat, NEW x \in SUBSET Timers,
             p = RP!TimerCall(q, k, v, n, x)
      PROVE  Calm(q, p)
  BY <1>5, TimerCallCalm
<1>6. CASE p = q
  BY <1>6 DEF Calm, Steady, NoNewWaits
<1>7. CASE p = Rct!RegisterTimer(q, k)
  <2>1. p = [q EXCEPT !.timers = [q.timers EXCEPT ![k] = armed], !.count = q.count + 1]
    BY <1>7 DEF Rct!RegisterTimer
  <2> DEFINE new == [q.timers EXCEPT ![k] = armed]
             n == q.count + 1
  <2>2. [q EXCEPT !.timers = new, !.count = n]
          = [q EXCEPT !.timers = new, !.count = n, !.expired = q.expired]
    <3> HIDE DEF new, n
    <3> QED
      BY DEF RP!Shape
  <2>3. p = RP!TimerCall(q, k, armed, n, q.expired)
    BY <2>1, <2>2 DEF RP!TimerCall
  <2>4. n \in Nat
    BY <1>1
  <2> HIDE DEF n, armed
  <2> QED
    BY <1>1, <1>3, <1>5, <2>3, <2>4
<1>8. CASE p = Rct!AfterCheckFired(q, k)
  <2>1. p = q \/ p = [q EXCEPT !.expired = q.expired \ {k}]
    BY <1>2, <1>8 DEF Rct!AfterCheckFired
  <2>2. CASE p = [q EXCEPT !.expired = q.expired \ {k}]
    <3> DEFINE x == q.expired \ {k}
    <3>1. q.timers = [q.timers EXCEPT ![k] = old]
      BY <1>1
    <3>2. [q EXCEPT !.expired = x]
            = [q EXCEPT !.timers = q.timers, !.count = q.count, !.expired = x]
      <4> HIDE DEF x
      <4> QED
        BY DEF RP!Shape
    <3>3. p = RP!TimerCall(q, k, old, q.count, x)
      BY <2>2, <3>1, <3>2 DEF RP!TimerCall
    <3>4. x \in SUBSET Timers
      BY <1>1
    <3> HIDE DEF x, old
    <3> QED
      BY <1>1, <1>5, <3>3, <3>4
  <2> QED
    BY <1>6, <2>1, <2>2
<1>9. CASE p = Rct!Deregister(q, k)
  <2> DEFINE n == Rct!Dec(q.count)
             x == q.expired \ {k}
  <2>1. p = q \/ p = Rct!DeregisterTimer(q, k)
    BY <1>2, <1>9 DEF Rct!Deregister
  <2>2. Rct!DeregisterTimer(q, k) = RP!TimerCall(q, k, free, n, x)
    BY DEF Rct!DeregisterTimer, Rct!FreeTimer, RP!TimerCall
  <2>3. n \in Nat /\ x \in SUBSET Timers
    BY <1>1 DEF Rct!Dec
  <2> HIDE DEF n, x, free
  <2> QED
    BY <1>3, <1>5, <1>6, <2>1, <2>2, <2>3
<1>10. CASE p = Rct!Expire(q, k)
  <2> DEFINE x == q.expired \union {k}
             new == [q.timers EXCEPT ![k] = due]
  <2>1. p = [q EXCEPT !.timers = new, !.expired = x]
    BY <1>1, <1>10 DEF Rct!Expire
  <2>2. [q EXCEPT !.timers = new, !.expired = x]
          = [q EXCEPT !.timers = new, !.count = q.count, !.expired = x]
    <3> HIDE DEF new, x
    <3> QED
      BY DEF RP!Shape
  <2>3. p = RP!TimerCall(q, k, due, q.count, x)
    BY <2>1, <2>2 DEF RP!TimerCall
  <2>4. x \in SUBSET Timers
    BY <1>1
  <2> HIDE DEF x, due
  <2> QED
    BY <1>1, <1>4, <1>5, <2>3, <2>4
<1> QED
  BY <1>7, <1>8, <1>9, <1>10

\* register_fd: a new slot has no waker.
LEMMA RegisterFdCalm ==
  ASSUME NEW q \in RP!Shape, Linked(q), NEW fd \in Fds, NEW mode \in {0, 1},
         NEW p, p = Rct!RegisterFd(q, fd, mode).r
  PROVE  Calm(q, p)
<1> DEFINE i == Rct!AllocFdSlot(q)
           s == [fd |-> fd, mode |-> mode, fired |-> 0, task |-> Root]
           s0 == [s EXCEPT !.fd = 0]
           int == {x \in q.interest : <<x.fd, x.mode>> # <<fd, mode>>}
                    \union {[fd |-> fd, mode |-> mode, slot |-> i]}
           n == q.count + 1
<1>1. s \in RP!Slot /\ s0 \in RP!Slot /\ s.task = Root /\ s0.task = Root
  BY DEF RP!Slot, RP!Modes, RP!Read, RP!Write
<1>2. q.slots \in Seq(RP!Slot) /\ Len(q.slots) \in Nat /\ q.count \in Nat
  BY DEF RP!Shape
<1>3. i \in 1..(Len(q.slots) + 1)
  <2>1. RP!AllocFdSlot(q) = i
    BY DEF Rct!AllocFdSlot, RP!AllocFdSlot, RP!FreeSlots, Rct!FreeSlots,
           RP!Min, Rct!Min
  <2> QED
    BY <1>2, <2>1, ReactorAssumed, RP!AllocatedSlot
<1>4. \E t \in {s, s0} :
        \/ p = [q EXCEPT !.slots = Rct!PutSlot(q.slots, i, t)]
        \/ p = [q EXCEPT !.slots = Rct!PutSlot(q.slots, i, t), !.count = n,
                         !.interest = int]
  BY DEF Rct!RegisterFd
<1> HIDE DEF i
<1>5. ASSUME NEW t \in {s, s0}
      PROVE  LET new == Rct!PutSlot(q.slots, i, t)
             IN  /\ new \in Seq(RP!Slot)
                 /\ Len(q.slots) <= Len(new) /\ i \in 1..Len(new)
                 /\ \A j \in 1..Len(new) : new[j].task # Root =>
                      j \in 1..Len(q.slots) /\ new[j] = q.slots[j]
  <2> DEFINE new == Rct!PutSlot(q.slots, i, t)
  <2>1. t \in RP!Slot /\ t.task = Root
    BY <1>1
  <2>2. CASE i > Len(q.slots)
    <3>1. new = Append(q.slots, t)
      BY <2>2 DEF Rct!PutSlot
    <3> QED
      BY <1>2, <1>3, <2>1, <2>2, <3>1
  <2>3. CASE ~(i > Len(q.slots))
    <3>1. new = [q.slots EXCEPT ![i] = t]
      BY <2>3 DEF Rct!PutSlot
    <3> QED
      BY <1>2, <1>3, <2>1, <2>3, <3>1
  <2> QED
    BY <2>2, <2>3
<1>6. /\ int \in SUBSET [fd : Fds, mode : RP!Modes, slot : Nat]
      /\ \A x \in int : x.slot = i \/ x.slot \in 1..Len(q.slots)
  BY <1>3, <1>2 DEF Linked, RP!Shape, RP!Modes, RP!Read, RP!Write
<1>7. n \in Nat
  BY <1>2
<1> HIDE DEF s, s0, int, n
<1>8. PICK t \in {s, s0} :
        \/ p = [q EXCEPT !.slots = Rct!PutSlot(q.slots, i, t)]
        \/ p = [q EXCEPT !.slots = Rct!PutSlot(q.slots, i, t), !.count = n,
                         !.interest = int]
  BY <1>4
<1> DEFINE new == Rct!PutSlot(q.slots, i, t)
<1>9. /\ new \in Seq(RP!Slot)
      /\ Len(q.slots) <= Len(new) /\ i \in 1..Len(new)
      /\ \A j \in 1..Len(new) : new[j].task # Root =>
           j \in 1..Len(q.slots) /\ new[j] = q.slots[j]
  BY <1>5
<1> HIDE DEF new
<1>10. /\ p \in RP!Shape /\ p.slots = new /\ p.timers = q.timers
       /\ p.wakeFd = q.wakeFd
       /\ p.interest = q.interest \/ p.interest = int
  BY <1>6, <1>7, <1>8, <1>9 DEF RP!Shape, new
<1>11. Len(new) \in Nat
  BY <1>9
<1>12. Linked(p)
  BY <1>2, <1>6, <1>9, <1>10, <1>11 DEF Linked
<1>13. ASSUME NEW u \in Tasks PROVE NoNewWaits(q, p, u)
  <2>1. u # Root
    BY RuntimeAssumption
  <2> QED
    BY <2>1, <1>9, <1>10 DEF NoNewWaits, Waits
<1> QED
  BY <1>9, <1>10, <1>12, <1>13 DEF Calm, Steady

\* A wait takes what the kernel reports, and nobody's waker.
LEMMA WaitFacts ==
  ASSUME NEW q \in RP!Shape, Linked(q), NEW p, p = Rct!AfterWait(q)
  PROVE  /\ p \in RP!Shape /\ Linked(p)
         /\ \A t \in Tasks : NoNewWaits(q, p, t)
         /\ \A e \in Rct!Available(q) : KnownEvent(p, e)
<1>1. p = q \/ p = [q EXCEPT !.expired = {}, !.wakeFd = 0]
  BY DEF Rct!AfterWait
<1>2. /\ p \in RP!Shape /\ p.slots = q.slots /\ p.timers = q.timers
      /\ p.interest = q.interest
  BY <1>1 DEF RP!Shape
<1>3. Linked(p)
  BY <1>2 DEF Linked
<1>4. \A t \in Tasks : NoNewWaits(q, p, t)
  BY <1>2 DEF NoNewWaits, Waits
<1>5. ASSUME NEW e \in Rct!Available(q) PROVE KnownEvent(p, e)
  <2>1. \/ \E x \in q.interest : e = Rct!FdEvent(x.slot)
        \/ \E k \in q.expired : e = Rct!TimerEvent(k)
        \/ e = Rct!WakeEvent
    BY <1>5 DEF Rct!Available
  <2>2. q.expired \subseteq Timers
    BY DEF RP!Shape
  <2> QED
    BY <1>2, <2>1, <2>2 DEF Linked, KnownEvent, Rct!FdEvent, Rct!TimerEvent
<1> QED
  BY <1>2, <1>3, <1>4, <1>5

\* The event of a slot or timer takes its waker out.
LEMMA EventFacts ==
  ASSUME NEW q \in RP!Shape, Linked(q), NEW e, KnownEvent(q, e),
         NEW p, p = Rct!AfterEvent(q, e), NEW t, t = Rct!EventTask(q, e)
  PROVE  /\ p \in RP!Shape /\ Linked(p) /\ Len(p.slots) >= Len(q.slots)
         /\ \A u \in Tasks : NoNewWaits(q, p, u)
         /\ t \in Tasks => \E h \in Waits(q, t) : h \notin Waits(p, t)
<1>0. q.slots \in Seq(RP!Slot) /\ q.timers \in [Timers -> RP!Timer]
      /\ Root \notin Tasks
  BY RuntimeAssumption DEF RP!Shape
<1>1. CASE e = Rct!WakeEvent
  <2>1. (p = q \/ p = [q EXCEPT !.wakeFd = 0]) /\ t = Root
    BY <1>1 DEF Rct!WakeEvent, Rct!AfterEvent, Rct!EventTask
  <2>2. /\ p \in RP!Shape /\ p.slots = q.slots /\ p.timers = q.timers
        /\ p.interest = q.interest
    BY <2>1 DEF RP!Shape
  <2> QED
    BY <1>0, <2>1, <2>2 DEF Linked, NoNewWaits, Waits
<1>2. CASE e.kind = "fd" /\ e.at \in 1..Len(q.slots)
  <2>0. PICK i \in 1..Len(q.slots) : e.at = i
    BY <1>2
  <2> DEFINE s == [q.slots[i] EXCEPT !.fired = 1, !.task = Root]
  <2>1. t = q.slots[i].task
    BY <1>2, <2>0 DEF Rct!EventTask
  <2>2. p = [q EXCEPT !.slots[i].fired = 1, !.slots[i].task = Root]
    BY <1>2, <2>0 DEF Rct!AfterEvent
  <2>3. p = [q EXCEPT !.slots = [q.slots EXCEPT ![i] = s]]
    <3>1. [q EXCEPT !.slots[i].fired = 1, !.slots[i].task = Root]
            = [q EXCEPT !.slots = [q.slots EXCEPT ![i] = s]]
      BY <1>0 DEF RP!Shape
    <3> QED
      BY <2>2, <3>1
  <2>4. s \in RP!Slot /\ s.task = Root
    <3> DEFINE old == q.slots[i]
    <3>1. old \in RP!Slot
      BY <1>0
    <3> HIDE DEF old
    <3>2. [old EXCEPT !.fired = 1, !.task = Root] \in RP!Slot
      BY <3>1 DEF RP!Slot
    <3>3. [old EXCEPT !.fired = 1, !.task = Root].task = Root
      BY <3>1 DEF RP!Slot
    <3> QED
      BY <3>2, <3>3 DEF old
  <2> HIDE DEF s
  <2>5. /\ Steady(q, p) /\ Len(p.slots) = Len(q.slots)
        /\ \A u : \A h : h \in Waits(p, u) <=>
             \/ h \in Waits(q, u) /\ h # -i
             \/ h = -i /\ s.task = u
    <3> DEFINE pp == [q EXCEPT !.slots = [q.slots EXCEPT ![i] = s]]
    <3>1. /\ Steady(q, pp) /\ Len(pp.slots) = Len(q.slots)
          /\ \A u : \A h : h \in Waits(pp, u) <=>
               \/ h \in Waits(q, u) /\ h # -i
               \/ h = -i /\ s.task = u
      BY <2>4, SlotChanges
    <3>2. p = pp
      BY <2>3
    <3> QED
      BY <3>1, <3>2
  <2>6. -i \in Waits(q, t)
    BY <2>1 DEF Waits
  <2>7. Len(q.slots) \in Nat
    BY <1>0
  <2> QED
    BY <1>0, <2>7, <2>4, <2>5, <2>6 DEF Steady, NoNewWaits
<1>3. CASE e.kind = "timer" /\ e.at \in Timers
  <2> DEFINE k == e.at
             v == [q.timers[k] EXCEPT !.fired = 1, !.task = Root]
             n == Rct!Dec(q.count)
             fired == [q EXCEPT !.timers[k].fired = 1, !.timers[k].task = Root]
  <2>1. \/ p = q /\ t = Root
        \/ t = q.timers[k].task /\ p = fired
        \/ t = q.timers[k].task /\ p = [fired EXCEPT !.count = n]
    BY <1>3, RuntimeAssumption DEF Rct!EventTask, Rct!AfterEvent
  <2>2. v \in RP!Timer /\ v.task = Root
    <3> DEFINE old == q.timers[k]
    <3>1. old \in RP!Timer
      BY <1>0, <1>3
    <3> HIDE DEF old
    <3>2. [old EXCEPT !.fired = 1, !.task = Root] \in RP!Timer
      BY <3>1 DEF RP!Timer
    <3>3. [old EXCEPT !.fired = 1, !.task = Root].task = Root
      BY <3>1 DEF RP!Timer
    <3> QED
      BY <3>2, <3>3 DEF old
  <2>3. q.count \in Nat /\ n \in Nat /\ q.expired \in SUBSET Timers
    BY DEF RP!Shape, Rct!Dec
  <2>4. fired = [q EXCEPT !.timers = [q.timers EXCEPT ![k] = v]]
    BY <1>0, <1>3 DEF RP!Shape
  <2>5. /\ fired = RP!TimerCall(q, k, v, q.count, q.expired)
        /\ [fired EXCEPT !.count = n] = RP!TimerCall(q, k, v, n, q.expired)
    <3> DEFINE new == [q.timers EXCEPT ![k] = v]
    <3> HIDE DEF new, n
    <3>1. /\ [q EXCEPT !.timers = new]
               = [q EXCEPT !.timers = new, !.count = q.count, !.expired = q.expired]
          /\ [[q EXCEPT !.timers = new] EXCEPT !.count = n]
               = [q EXCEPT !.timers = new, !.count = n, !.expired = q.expired]
      BY DEF RP!Shape
    <3> HIDE DEF v, fired
    <3> QED
      BY <2>4, <3>1 DEF RP!TimerCall, new
  <2> HIDE DEF v, n, fired
  <2>6. ASSUME NEW m \in Nat, p = RP!TimerCall(q, k, v, m, q.expired),
               t = q.timers[k].task
        PROVE  /\ p \in RP!Shape /\ Linked(p) /\ Len(p.slots) >= Len(q.slots)
               /\ \A u \in Tasks : NoNewWaits(q, p, u)
               /\ t \in Tasks => \E h \in Waits(q, t) : h \notin Waits(p, t)
    <3>1. /\ Steady(q, p)
          /\ \A u : \A h : h \in Waits(p, u) <=>
               \/ h \in Waits(q, u) /\ h # k
               \/ h = k /\ v.task = u
      BY <1>3, <2>2, <2>3, <2>6, TimerChanges
    <3>2. k \in Waits(q, t)
      BY <1>3, <2>6 DEF Waits
    <3> QED
      BY <1>0, <2>2, <3>1, <3>2 DEF Steady, NoNewWaits
  <2>7. CASE p = q /\ t = Root
    <3>1. Len(q.slots) \in Nat
      BY <1>0
    <3> QED
      BY <1>0, <2>7, <3>1 DEF NoNewWaits
  <2> QED
    BY <2>1, <2>3, <2>5, <2>6, <2>7
<1> QED
  BY <1>1, <1>2, <1>3 DEF KnownEvent

-----------------------------------------------------------------------------
(* The invariants.                                                         *)

\* Where block_on and the pump are, taken together.
Phase ==
  /\ pc # "idle" => bpc \in {"pump1", "pump2"}
  /\ ret # "none" => (bpc = "root" \/ pc = "poll")
  /\ batch # {} => bpc = "park"
  /\ ~wakeAll /\ ~walkAll

FutureTypes ==
  /\ sub \in [Futures -> {0, 1}]
  /\ ret \in {"none", "pending", "ready"}
  /\ thread \in [Futures -> {"none", "stashed", "taken", "woke", "done"}]

\* Task t has been polled, is in the list, and waits to be woken.
Parked(t) ==
  /\ entry[t] = "live"
  /\ ~ready[t]
  /\ pc = "poll" /\ Sch!Cur = t => ret = "pending"

\* A task that somebody will wake is parked; only one of the slots, the
\* timers and the other thread will.
OneWaker(t) ==
  /\ thread[t] \in {"stashed", "taken"} => Parked(t)
  /\ bpc # "done" =>
       /\ Waits(r, t) # {} => Parked(t) /\ thread[t] \notin {"stashed", "taken"}
       /\ \A g, h \in Waits(r, t) : g = h

WakersParked == \A t \in Tasks : OneWaker(t)

\* Nobody wakes a task while it runs.
RunningIsClear == pc = "poll" /\ ret = "none" => ~ready[Sch!Cur]

SafeInv ==
  /\ AtAStep /\ FutureTypes
  /\ SP!IInv
  /\ Phase
  /\ bpc # "done" => /\ r \in RP!Shape /\ Linked(r)
                     /\ \A e \in batch : KnownEvent(r, e)

FreeInv == SafeInv /\ WakersParked /\ RunningIsClear /\ NoUseAfterFree

\* No task reads with a timeout: AsyncReadWithTimeoutFuture leaves its waker
\* in two places and takes back one, see TimedOutReader in MCAsyncRuntime.
NoTimedReaders ==
  \A f \in Tasks : \A i \in 1..Len(Body(f)) : Body(f)[i].kind # "readTimeout"

\* The root's state machine goes on by itself after an await, or has one only.
RootLoops == prog.lowering[Root] # "linear" \/ Len(Body(Root)) <= 1

\* The root has been polled, and the pump behind it is not back with news.
RootWaits ==
  \/ bpc = "root" /\ ret = "pending"
  \/ bpc \in {"pump2", "decide", "park"}

NothingCompleted ==
  \/ bpc \in {"root", "park"}
  \/ bpc = "pump2" /\ (pc = "idle" \/ completions = 0)
  \/ bpc = "decide" /\ pumped = 0

\* What the root waits for has not happened; if it has, somebody is about to
\* wake the reactor, or has.
RootWaitsForNews ==
  RootWaits /\ st[Root] <= Len(Body(Root)) =>
    LET step == Body(Root)[st[Root]]
    IN  /\ sub[Root] = 1
        /\ step.kind = "join" /\ NothingCompleted => ~done[step.task]
        /\ step.kind = "ext" /\ batch = {} =>
             /\ thread[Root] # "none"
             /\ thread[Root] = "done" => r.wakeFd = 1

\* While the thread is about to sleep only a wake from outside makes a task
\* ready, and it is the waker's next step to wake the reactor.
ReadyIsAnnounced ==
  bpc = "park" /\ batch = {} /\ Sch!ReadyNonempty =>
    \/ r.wakeFd = 1
    \/ \E f \in Futures : thread[f] = "woke" /\ ~CtxFreed(f)

SleepInv == SafeInv /\ RootWaitsForNews /\ ReadyIsAnnounced

-----------------------------------------------------------------------------
(* What a step does to the scheduler and to the reactor.                   *)

\* Scheduler is instantiated twice, by AsyncRuntime and with its proofs.
LEMMA SchedulerSteps ==
  ASSUME [Sch!Next]_schedVars
  PROVE  [SP!Next]_(SP!schedVars)
<1>1. ASSUME NEW t \in Tasks, Sch!Spawn(t) PROVE SP!Next
  BY <1>1 DEF SP!Next, SP!Spawn, Sch!Spawn
<1>2. ASSUME NEW t \in Tasks, Sch!WakeTask(t) PROVE SP!Next
  BY <1>2 DEF SP!Next, SP!WakeTask, Sch!WakeTask, SP!handleVars, Sch!handleVars
<1>3. ASSUME NEW t \in Tasks, Sch!HandleDrop(t) PROVE SP!Next
  BY <1>3 DEF SP!Next, SP!HandleDrop, Sch!HandleDrop, SP!Release, Sch!Release
<1>4. ASSUME Sch!WakeAllTasks PROVE SP!Next
  BY <1>4 DEF SP!Next, SP!WakeAllTasks, Sch!WakeAllTasks, SP!handleVars,
              Sch!handleVars
<1>5. ASSUME Sch!DrainRemaining PROVE SP!Next
  BY <1>5 DEF SP!Next, SP!DrainRemaining, Sch!DrainRemaining
<1>6. ASSUME Sch!PumpStep PROVE SP!Next
  <2>1. ASSUME Sch!PumpEnter PROVE SP!PumpStep
    BY <2>1 DEF SP!PumpStep, SP!PumpEnter, Sch!PumpEnter, SP!handleVars,
                Sch!handleVars
  <2>2. ASSUME Sch!PumpSkip PROVE SP!PumpStep
    BY <2>2 DEF SP!PumpStep, SP!PumpSkip, Sch!PumpSkip, SP!Cur, Sch!Cur,
                SP!handleVars, Sch!handleVars
  <2>3. ASSUME Sch!PumpPoll PROVE SP!PumpStep
    BY <2>3 DEF SP!PumpStep, SP!PumpPoll, Sch!PumpPoll, SP!Cur, Sch!Cur,
                SP!handleVars, Sch!handleVars
  <2>4. ASSUME Sch!PumpExit PROVE SP!PumpStep
    BY <2>4 DEF SP!PumpStep, SP!PumpExit, Sch!PumpExit, SP!handleVars,
                Sch!handleVars
  <2>5. ASSUME Sch!PollPending PROVE SP!PumpStep
    BY <2>5 DEF SP!PumpStep, SP!PollPending, Sch!PollPending, SP!handleVars,
                Sch!handleVars
  <2>6. ASSUME NEW v \in {1}, Sch!PollReady(v) PROVE SP!PumpStep
    BY <2>6 DEF SP!PumpStep, SP!PollReady, Sch!PollReady, SP!Cur, Sch!Cur,
                SP!Release, Sch!Release, SP!Unlink, Sch!Unlink
  <2> QED
    BY <1>6, <2>1, <2>2, <2>3, <2>4, <2>5, <2>6 DEF Sch!PumpStep, SP!Next
<1>7. CASE UNCHANGED schedVars
  BY <1>7 DEF schedVars, SP!schedVars, SP!handleVars
<1> QED
  BY <1>1, <1>2, <1>3, <1>4, <1>5, <1>6, <1>7 DEF Sch!Next

\* What the proofs of Scheduler give here.
LEMMA SchedulerFacts ==
  ASSUME SP!IInv
  PROVE  /\ queue \in Seq(Tasks) /\ Len(queue) \in Nat
         /\ ready \in [Tasks -> BOOLEAN] /\ done \in [Tasks -> BOOLEAN]
         /\ entry \in [Tasks -> {"none", "live", "freed"}]
         /\ completions \in Nat
         /\ pc \in {"idle", "walk", "poll"}
         /\ pc # "idle" /\ pos <= Len(queue) =>
              pos \in 1..Len(queue) /\ Sch!Cur \in Tasks /\ entry[Sch!Cur] = "live"
         /\ pc = "poll" => pos \in 1..Len(queue)
<1>1. SP!TypeOK /\ SP!QueueSound
  BY DEF SP!IInv
<1>2. pc # "idle" /\ pos <= Len(queue) =>
        pos \in 1..Len(queue) /\ SP!Cur \in Tasks /\ entry[SP!Cur] = "live"
  BY <1>1, SP!CurLive
<1>3. /\ queue \in Seq(Tasks) /\ Len(queue) \in Nat
      /\ ready \in [Tasks -> BOOLEAN] /\ done \in [Tasks -> BOOLEAN]
      /\ entry \in [Tasks -> {"none", "live", "freed"}]
      /\ completions \in Nat
      /\ pc \in {"idle", "walk", "poll"}
  BY <1>1 DEF SP!TypeOK, SP!Memory
<1>4. pc = "poll" => pos \in 1..Len(queue)
  BY <1>1, <1>2 DEF SP!QueueSound
<1> QED
  BY <1>2, <1>3, <1>4 DEF SP!Cur, Sch!Cur

\* A future that is polled has not been woken too late: block_on is running.
LEMMA PolledWhere ==
  ASSUME SafeInv, NEW f \in Futures, InPoll(f)
  PROVE  /\ bpc # "done" /\ bpc # "park" /\ batch = {} /\ ret = "none"
         /\ f = Root => bpc = "root" /\ pc = "idle"
         /\ f \in Tasks => pc = "poll" /\ f = Sch!Cur /\ entry[f] = "live"
<1>1. Root \notin Tasks
  BY RuntimeAssumption
<1>2. pc = "poll" => pos \in 1..Len(queue) /\ Len(queue) \in Nat /\ entry[Sch!Cur] = "live"
  BY SchedulerFacts DEF SafeInv
<1>3. pc \in {"idle", "walk", "poll"}
  BY SchedulerFacts DEF SafeInv
<1> QED
  BY <1>1, <1>2, <1>3 DEF InPoll, SafeInv, Phase, Sch!Cur

\* The step a future is at is one its program describes.
LEMMA AtStep ==
  ASSUME AtAStep, NEW f \in Futures, NEW kind, At(f, kind)
  PROVE  /\ InPoll(f)
         /\ st[f] \in 1..Len(Body(f)) /\ Arg(f).kind = kind
         /\ kind \in {"spawn", "join"} => Arg(f).task \in Tasks
         /\ kind \in {"sleep", "readTimeout"} => Arg(f).timer \in Timers
<1>1. st[f] \in Nat \ {0} /\ st[f] <= Len(Body(f)) /\ InPoll(f) /\ Arg(f).kind = kind
  BY DEF AtAStep, At, Arg
<1>2. prog \in Programs
  BY DEF AtAStep
<1>3. Len(Body(f)) \in Nat
  BY <1>2, RuntimeAssumption DEF Body
<1> QED
  BY <1>1, <1>2, <1>3, RuntimeAssumption DEF Body, Arg

\* What a poll does to the reactor: the wake fd may be triggered, and no
\* waker but the one of the future that is polled is left in it.
PollCalm(f) ==
  /\ r' \in RP!Shape /\ Linked(r')
  /\ r'.wakeFd \in {r.wakeFd, 1}
  /\ \A t \in Tasks : t # f => NoNewWaits(r, r', t)

\* Read handles are slots.
LEMMA ReadHandleType ==
  ASSUME NEW fd, Len(r.slots) \in Nat
  PROVE  ReadHandle(fd) \in Int /\ ~(ReadHandle(fd) > 0)
<1> DEFINE mine == {i \in 1..Len(r.slots) : r.slots[i].fd = fd /\ r.slots[i].mode = Rct!Read}
<1>1. mine \in SUBSET Nat
  OBVIOUS
<1>2. mine # {} => Rct!Min(mine) \in mine
  BY <1>1, ReactorAssumed, RP!LeastElement DEF Rct!Min, RP!Min
<1>3. mine # {} => Rct!Min(mine) \in 1..Len(r.slots)
  BY <1>2
<1> HIDE DEF mine
<1> QED
  BY <1>3 DEF ReadHandle, mine

LEMMA TimerNumbers == Timers \subseteq Int
BY RuntimeAssumption

LEMMA CalmIsPollCalm ==
  ASSUME r \in RP!Shape, Linked(r), Calm(r, r'), NEW f
  PROVE  PollCalm(f)
BY DEF Calm, Steady, PollCalm

LEMMA PollIsCalm ==
  ASSUME SafeInv, NEW f \in Futures, PollStep(f)
  PROVE  PollCalm(f)
<1>0. InPoll(f) /\ AtAStep
  BY DEF PollStep, PollSpawn, PollYield, PollJoin, PollSleep, PollRead,
         PollReadTimeout, PollExt, At, SafeInv
<1>1. r \in RP!Shape /\ Linked(r)
  BY <1>0, PolledWhere DEF SafeInv
<1>2. r.wakeFd \in {0, 1} /\ r.slots \in Seq(RP!Slot) /\ Len(r.slots) \in Nat
  BY <1>1 DEF RP!Shape
<1>3. CASE r' = r
  BY <1>1, <1>3 DEF PollCalm, NoNewWaits
<1>4. CASE PollSpawn(f) \/ PollJoin(f) \/ PollExt(f)
  BY <1>3, <1>4 DEF PollSpawn, PollJoin, PollExt, kernelVars
<1>5. CASE PollYield(f)
  <2>1. CASE r' = [r EXCEPT !.wakeFd = 1]
    <3>1. /\ r' \in RP!Shape /\ r'.slots = r.slots /\ r'.timers = r.timers
          /\ r'.interest = r.interest /\ r'.wakeFd = 1
      BY <1>1, <2>1 DEF RP!Shape
    <3> QED
      BY <1>1, <3>1 DEF PollCalm, NoNewWaits, Waits, Linked
  <2> QED
    BY <1>3, <1>5, <2>1 DEF PollYield
<1>6. CASE PollSleep(f)
  <2> DEFINE k == Arg(f).timer
  <2>1. k \in Timers
    BY <1>0, <1>6, AtStep DEF PollSleep
  <2>2. k \in Int
    BY <2>1, TimerNumbers
  <2>3. \/ r' = r
        \/ r' = Rct!SetWaker(Rct!RegisterTimer(r, k), k, f).r
        \/ r' = Rct!AfterCheckFired(r, k)
    BY <1>6 DEF PollSleep
  <2> HIDE DEF k
  <2>4. CASE r' = Rct!SetWaker(Rct!RegisterTimer(r, k), k, f).r
    <3> DEFINE a == Rct!RegisterTimer(r, k)
               b == Rct!SetWaker(a, k, f).r
    <3>1. Calm(r, a)
      BY <1>1, <2>1, TimerCallsCalm
    <3>2. a \in RP!Shape /\ Linked(a) /\ a.wakeFd = r.wakeFd
      BY <1>1, <3>1 DEF Calm, Steady
    <3> HIDE DEF a
    <3>3. Steady(a, b) /\ \A t \in Tasks : t # f => NoNewWaits(a, b, t)
      BY <2>1, <2>2, <3>2, SetWakerWaits
    <3> HIDE DEF b
    <3>4. r' = b
      BY <2>4 DEF a, b
    <3> QED
      BY <3>1, <3>2, <3>3, <3>4 DEF Calm, Steady, PollCalm, NoNewWaits
  <2>5. CASE r' = Rct!AfterCheckFired(r, k)
    BY <1>1, <2>1, <2>5, TimerCallsCalm, CalmIsPollCalm
  <2> QED
    BY <1>3, <2>3, <2>4, <2>5
<1>7. CASE PollRead(f)
  <2> DEFINE h == ReadHandle(Arg(f).fd)
             b == Rct!SetWaker(r, h, f).r
  <2>1. r' = r \/ r' = b
    BY <1>7 DEF PollRead
  <2>2. h \in Int /\ ~(h > 0)
    BY <1>2, ReadHandleType
  <2> HIDE DEF h
  <2>3. Steady(r, b) /\ \A t \in Tasks : t # f => NoNewWaits(r, b, t)
    BY <1>1, <2>2, SetWakerWaits
  <2> HIDE DEF b
  <2> QED
    BY <1>1, <1>3, <2>1, <2>3 DEF Steady, PollCalm
<1>8. CASE PollReadTimeout(f)
  <2> DEFINE k == Arg(f).timer
             h == ReadHandle(Arg(f).fd)
             a == IF sub[f] = 0 THEN Rct!RegisterTimer(r, k) ELSE r
             b == Rct!SetWaker(a, k, f)
             c == Rct!AfterCheckFired(b.r, k)
             d == Rct!SetWaker(c, h, f)
             Goes(q) == /\ q \in RP!Shape /\ Linked(q) /\ q.wakeFd = r.wakeFd
                        /\ \A t \in Tasks : t # f => NoNewWaits(r, q, t)
  <2>1. k \in Timers
    BY <1>0, <1>8, AtStep DEF PollReadTimeout
  <2>2. k \in Int
    BY <2>1, TimerNumbers
  <2>3. h \in Int /\ ~(h > 0)
    BY <1>2, ReadHandleType
  <2>4. \/ r' = Rct!Deregister(b.r, k)
        \/ r' = Rct!Deregister(c, k)
        \/ r' = d.r
    BY <1>8 DEF PollReadTimeout
  <2> HIDE DEF k, h
  <2>5. ASSUME NEW q, Goes(q), NEW p, Calm(q, p)
        PROVE  Goes(p)
    BY <2>5 DEF Calm, Steady, NoNewWaits
  <2>6. ASSUME NEW q, Goes(q), NEW i \in Int, i > 0 => i \in Timers,
               NEW p, p = Rct!SetWaker(q, i, f).r
        PROVE  Goes(p)
    <3>1. Steady(q, p) /\ \A t \in Tasks : t # f => NoNewWaits(q, p, t)
      BY <2>6, SetWakerWaits
    <3> QED
      BY <2>6, <3>1 DEF Steady, NoNewWaits
  <2>7. Goes(r)
    BY <1>1 DEF NoNewWaits
  <2> HIDE DEF Goes
  <2>8. Goes(a)
    <3>1. Goes(Rct!RegisterTimer(r, k))
      BY <1>1, <2>1, <2>5, <2>7, TimerCallsCalm
    <3> QED
      BY <2>7, <3>1
  <2> HIDE DEF a
  <2>9. Goes(b.r)
    BY <2>1, <2>2, <2>6, <2>8
  <2> HIDE DEF b
  <2>10. \A q : Goes(q) => q \in RP!Shape
    BY DEF Goes
  <2>11. Goes(c)
    BY <2>1, <2>5, <2>9, <2>10, TimerCallsCalm
  <2> HIDE DEF c
  <2>12. Goes(d.r)
    BY <2>3, <2>6, <2>11
  <2> HIDE DEF d
  <2>13. Goes(Rct!Deregister(b.r, k)) /\ Goes(Rct!Deregister(c, k))
    BY <2>1, <2>5, <2>9, <2>10, <2>11, TimerCallsCalm
  <2>14. Goes(r')
    BY <2>4, <2>12, <2>13
  <2> QED
    BY <2>14 DEF Goes, PollCalm
<1> QED
  BY <1>4, <1>5, <1>6, <1>7, <1>8 DEF PollStep

\* A wake changes the flag of one task and nothing else of the queue.
LEMMA WakeFrame ==
  ASSUME NEW t, WakeEntry(t), ready \in [Tasks -> BOOLEAN]
  PROVE  /\ UNCHANGED <<queue, entry, done, wakeAll, pc, pos, walkAll, completions>>
         /\ (ready' = ready \/ (t \in Tasks /\ ready' = [ready EXCEPT ![t] = TRUE]))
         /\ (t \in Tasks /\ entry[t] = "live" => ready'[t] /\ uaf' = uaf)
         /\ (t \notin Tasks => ready' = ready /\ uaf' = uaf)
         /\ \A u \in Tasks : u # t => ready'[u] = ready[u]
<1>1. CASE t \in Tasks /\ entry[t] = "live"
  BY <1>1 DEF WakeEntry, Sch!WakeTask, Sch!handleVars
<1>2. CASE ~(t \in Tasks /\ entry[t] = "live")
  BY <1>2 DEF WakeEntry, schedVars
<1> QED
  BY <1>1, <1>2

LEMMA WakeCallerFrame ==
  ASSUME NEW f, NEW wakes, WakeCaller(f, wakes), ready \in [Tasks -> BOOLEAN]
  PROVE  /\ UNCHANGED <<queue, entry, done, wakeAll, pc, pos, walkAll, completions>>
         /\ (ready' = ready \/ (f \in Tasks /\ ready' = [ready EXCEPT ![f] = TRUE]))
         /\ (wakes = {} => ready' = ready /\ uaf' = uaf)
         /\ (f \in Tasks /\ entry[f] = "live" => uaf' = uaf)
         /\ (f \notin Tasks => ready' = ready /\ uaf' = uaf)
         /\ \A u \in Tasks : u # f => ready'[u] = ready[u]
<1>1. CASE wakes = {}
  BY <1>1 DEF WakeCaller, schedVars
<1>2. CASE wakes # {}
  <2>1. WakeEntry(f)
    BY <1>2 DEF WakeCaller
  <2> QED
    BY <1>2, <2>1, WakeFrame
<1> QED
  BY <1>1, <1>2

\* What a poll leaves alone.
PollFrame(f) ==
  /\ UNCHANGED <<bpc, batch, prog, pumped, pc, pos, wakeAll, walkAll, completions, uaf>>
  /\ \A u \in Futures : u # f =>
       thread'[u] = thread[u] /\ st'[u] = st[u] /\ sub'[u] = sub[u]
  /\ \A u \in Tasks :
       /\ entry[u] # "none" => entry'[u] = entry[u]
       /\ u # f /\ entry[u] # "none" => ready'[u] = ready[u]
  /\ \A i \in 1..Len(queue) : queue'[i] = queue[i]

LEMMA PollFramed ==
  ASSUME SafeInv, NEW f \in Futures, PollStep(f)
  PROVE  PollFrame(f) /\ FutureTypes'
<1>0. InPoll(f) /\ AtAStep /\ SP!IInv /\ FutureTypes
  BY DEF PollStep, PollSpawn, PollYield, PollJoin, PollSleep, PollRead,
         PollReadTimeout, PollExt, At, SafeInv
<1>1. /\ queue \in Seq(Tasks) /\ ready \in [Tasks -> BOOLEAN]
      /\ entry \in [Tasks -> {"none", "live", "freed"}]
  BY <1>0, SchedulerFacts
<1>2. f \in Tasks => entry[f] = "live"
  BY <1>0, PolledWhere
<1>3. /\ st' \in [Futures -> Nat \ {0}] /\ sub' \in [Futures -> {0, 1}]
      /\ ret' \in {"none", "pending", "ready"}
      /\ \A u \in Futures : u # f => st'[u] = st[u] /\ sub'[u] = sub[u]
  <2>1. /\ st' = st \/ st' = [st EXCEPT ![f] = @ + 1]
        /\ sub' = sub \/ sub' = [sub EXCEPT ![f] = 0] \/ sub' = [sub EXCEPT ![f] = 1]
        /\ ret' = "none" \/ ret' = "pending" \/ ret' = "ready"
    BY DEF PollStep, PollSpawn, PollYield, PollJoin, PollSleep, PollRead,
           PollReadTimeout, PollExt, Advance, Suspend
  <2>2. st \in [Futures -> Nat \ {0}] /\ sub \in [Futures -> {0, 1}]
    BY <1>0 DEF AtAStep, FutureTypes
  <2> QED
    BY <2>1, <2>2
<1>4. /\ thread' \in [Futures -> {"none", "stashed", "taken", "woke", "done"}]
      /\ \A u \in Futures : u # f => thread'[u] = thread[u]
  BY <1>0 DEF FutureTypes, PollStep, PollSpawn, PollYield, PollJoin,
              PollSleep, PollRead, PollReadTimeout, PollExt
<1>5. UNCHANGED <<bpc, batch, prog, pumped>>
  BY DEF PollStep, PollSpawn, PollYield, PollJoin, PollSleep, PollRead,
         PollReadTimeout, PollExt, kernelVars
<1>6. CASE PollSpawn(f)
  <2> DEFINE t == Arg(f).task
  <2>1. t \in Tasks
    BY <1>0, <1>6, AtStep DEF PollSpawn
  <2>2. Sch!Spawn(t) /\ uaf' = uaf
    BY <1>6 DEF PollSpawn
  <2> HIDE DEF t
  <2>3. /\ UNCHANGED <<pc, pos, wakeAll, walkAll, completions>>
        /\ entry[t] = "none" /\ queue' = Append(queue, t)
        /\ entry' = [entry EXCEPT ![t] = "live"]
        /\ ready' = [ready EXCEPT ![t] = TRUE]
    BY <2>2 DEF Sch!Spawn
  <2>4. \A i \in 1..Len(queue) : queue'[i] = queue[i]
    BY <1>1, <2>1, <2>3
  <2> QED
    BY <1>1, <1>3, <1>4, <1>5, <2>1, <2>2, <2>3, <2>4 DEF PollFrame, FutureTypes
<1>7. CASE ~PollSpawn(f)
  <2>1. \/ UNCHANGED <<schedVars, uaf>>
        \/ WakeEntry(f)
        \/ \E w : WakeCaller(f, w)
    BY <1>7 DEF PollStep, PollYield, PollJoin, PollSleep, PollRead,
                PollReadTimeout, PollExt
  <2>2. /\ UNCHANGED <<queue, entry, wakeAll, pc, pos, walkAll, completions, uaf>>
        /\ \A u \in Tasks : u # f => ready'[u] = ready[u]
    <3>1. CASE UNCHANGED <<schedVars, uaf>>
      BY <3>1 DEF schedVars
    <3>2. CASE WakeEntry(f)
      BY <1>1, <1>2, <3>2, WakeFrame
    <3>3. ASSUME NEW w, WakeCaller(f, w)
          PROVE  /\ UNCHANGED <<queue, entry, wakeAll, pc, pos, walkAll,
                                completions, uaf>>
                 /\ \A u \in Tasks : u # f => ready'[u] = ready[u]
      BY <1>1, <1>2, <3>3, WakeCallerFrame
    <3> QED
      BY <2>1, <3>1, <3>2, <3>3
  <2> QED
    BY <1>3, <1>4, <1>5, <2>2 DEF PollFrame, FutureTypes
<1> QED
  BY <1>6, <1>7

-----------------------------------------------------------------------------
(* SafeInv.                                                                *)

LEMMA InitSafe == Init => SafeInv
<1> SUFFICES ASSUME Init PROVE SafeInv
  OBVIOUS
<1>1. AtAStep
  BY DEF Init, AtAStep
<1>2. FutureTypes
  BY DEF Init, FutureTypes
<1>3. SP!Init
  BY DEF Init, SP!Init, Sch!Init
<1>4. SP!IInv
  BY <1>3, SP!InitIInv
<1>5. Phase
  BY DEF Init, Phase, Sch!Init
<1>6. r \in RP!Shape /\ Linked(r) /\ batch = {}
  BY DEF Init, RP!Shape, Rct!Reactor0, Linked, Rct!FreeTimer, RP!Timer
<1> QED
  BY <1>1, <1>2, <1>4, <1>5, <1>6 DEF SafeInv

\* The reactor and what is known of it, while block_on has not returned.
ReactorSafe ==
  bpc # "done" => /\ r \in RP!Shape /\ Linked(r)
                  /\ \A e \in batch : KnownEvent(r, e)

LEMMA BlockOnSafe ==
  ASSUME SafeInv, BlockOn
  PROVE  FutureTypes' /\ Phase' /\ ReactorSafe'
<1> USE DEF SafeInv, FutureTypes, Phase, ReactorSafe
<1>0. pc \in {"idle", "walk", "poll"}
  BY SchedulerFacts
<1>1. ASSUME NEW fd \in Fds, OpenStream(fd)
      PROVE  FutureTypes' /\ Phase' /\ ReactorSafe'
  <2> DEFINE a == Rct!RegisterFd(r, fd, Rct!Read).r
             b == Rct!RegisterFd(a, fd, Rct!Write).r
  <2>1. r \in RP!Shape /\ Linked(r) /\ batch = {}
    BY <1>1 DEF OpenStream
  <2>2. Calm(r, a)
    BY <2>1, RegisterFdCalm DEF Rct!Read
  <2> HIDE DEF a
  <2>3. Calm(a, b)
    BY <2>1, <2>2, RegisterFdCalm DEF Rct!Write, Calm, Steady
  <2>4. r' = b
    BY <1>1 DEF OpenStream, a
  <2> HIDE DEF b
  <2> QED
    BY <1>1, <2>1, <2>2, <2>3, <2>4 DEF OpenStream, schedVars, futureVars, Calm, Steady
<1>2. CASE PumpNothing
  BY <1>2 DEF PumpNothing, schedVars, kernelVars, futureVars
<1>3. CASE PumpWalk
  BY <1>3 DEF PumpWalk, kernelVars, futureVars, Sch!PumpEnter, Sch!PumpSkip,
              Sch!PumpPoll
<1>4. CASE PumpReturns
  BY <1>4 DEF PumpReturns, kernelVars, futureVars, Sch!PumpExit
<1>5. CASE TaskReturns
  BY <1>5 DEF TaskReturns, kernelVars, Sch!PollPending, Sch!PollReady
<1>6. CASE RootReturns
  BY <1>0, <1>6 DEF RootReturns, schedVars
<1>7. CASE Decide \/ ParkYield
  BY <1>7 DEF Decide, ParkYield, schedVars, kernelVars, futureVars
<1>8. CASE ParkWait
  <2>1. r \in RP!Shape /\ Linked(r)
    BY <1>8 DEF ParkWait
  <2>2. /\ r' \in RP!Shape /\ Linked(r')
        /\ \A e \in batch' : KnownEvent(r', e)
    BY <1>8, <2>1, WaitFacts DEF ParkWait
  <2> QED
    BY <1>8, <2>2 DEF ParkWait, schedVars, futureVars
<1>9. ASSUME NEW e \in batch, ParkEvent(e)
      PROVE  FutureTypes' /\ Phase' /\ ReactorSafe'
  <2>1. bpc = "park" /\ pc = "idle" /\ ret = "none"
    BY <1>0
  <2>2. r \in RP!Shape /\ Linked(r) /\ \A x \in batch : KnownEvent(r, x)
    BY <2>1
  <2>3. r' \in RP!Shape /\ Linked(r') /\ Len(r'.slots) >= Len(r.slots)
    BY <1>9, <2>2, EventFacts DEF ParkEvent
  <2>4. Len(r.slots) \in Nat /\ Len(r'.slots) \in Nat
    BY <2>2, <2>3 DEF RP!Shape
  <2>5. \A x \in batch' : KnownEvent(r', x)
    BY <1>9, <2>2, <2>3, <2>4 DEF ParkEvent, KnownEvent
  <2>6. UNCHANGED <<pc, wakeAll, walkAll>>
    BY <1>9, WakeFrame, SchedulerFacts DEF ParkEvent
  <2>7. batch' # {} => bpc' = "park"
    BY <1>9 DEF ParkEvent
  <2>8. UNCHANGED <<sub, ret, thread>>
    BY <1>9 DEF ParkEvent, futureVars
  <2> QED
    BY <2>1, <2>3, <2>5, <2>6, <2>7, <2>8
<1>10. ASSUME NEW f \in Futures, PollStep(f)
       PROVE  FutureTypes' /\ Phase' /\ ReactorSafe'
  <2>1. InPoll(f)
    BY <1>10 DEF PollStep, PollSpawn, PollYield, PollJoin, PollSleep, PollRead,
                 PollReadTimeout, PollExt, At
  <2>2. batch = {} /\ (bpc = "root" \/ pc = "poll")
    BY <2>1, PolledWhere DEF Futures
  <2>3. PollFrame(f) /\ FutureTypes'
    BY <1>10, PollFramed
  <2>4. r' \in RP!Shape /\ Linked(r')
    BY <1>10, PollIsCalm DEF PollCalm
  <2> QED
    BY <2>2, <2>3, <2>4 DEF PollFrame
<1> HIDE DEF SafeInv, FutureTypes, Phase, ReactorSafe
<1> QED
  BY <1>1, <1>2, <1>3, <1>4, <1>5, <1>6, <1>7, <1>8, <1>9, <1>10 DEF BlockOn

LEMMA OthersSafe ==
  ASSUME SafeInv,
         \/ \E f \in Futures : ThreadFinishes(f) \/ ThreadWakes(f)
         \/ \E k \in Timers : TimerExpires(k)
         \/ \E fd \in Fds : PeerSends(fd)
  PROVE  FutureTypes' /\ Phase' /\ ReactorSafe'
<1> USE DEF SafeInv, FutureTypes, Phase, ReactorSafe
<1>1. ASSUME NEW f \in Futures, ThreadFinishes(f)
      PROVE  FutureTypes' /\ Phase' /\ ReactorSafe'
  BY <1>1 DEF ThreadFinishes, schedVars, kernelVars, futureVars
<1>2. ASSUME NEW f \in Futures, ThreadWakes(f)
      PROVE  FutureTypes' /\ Phase' /\ ReactorSafe'
  <2>1. UNCHANGED <<batch, bpc, sub, ret>>
    BY <1>2 DEF ThreadWakes, futureVars
  <2>2. thread' = [thread EXCEPT ![f] = "woke"] \/ thread' = [thread EXCEPT ![f] = "done"]
    BY <1>2 DEF ThreadWakes
  <2>3. UNCHANGED <<pc, wakeAll, walkAll>>
    <3>1. WakeEntry(f) \/ UNCHANGED schedVars
      BY <1>2 DEF ThreadWakes
    <3> QED
      BY <3>1, WakeFrame, SchedulerFacts DEF schedVars
  <2>4. r' = r \/ r' = [r EXCEPT !.wakeFd = 1]
    BY <1>2 DEF ThreadWakes
  <2>5. r \in RP!Shape =>
          /\ r' \in RP!Shape /\ r'.interest = r.interest /\ r'.slots = r.slots
    BY <2>4 DEF RP!Shape
  <2>6. ReactorSafe'
    BY <2>1, <2>5 DEF Linked, KnownEvent
  <2> QED
    BY <2>1, <2>2, <2>3, <2>6
<1>3. ASSUME NEW k \in Timers, TimerExpires(k)
      PROVE  FutureTypes' /\ Phase' /\ ReactorSafe'
  <2>1. r \in RP!Shape /\ Linked(r) => Calm(r, r')
    BY <1>3, TimerCallsCalm DEF TimerExpires
  <2>2. ReactorSafe'
    <3> SUFFICES ASSUME bpc' # "done" PROVE ReactorSafe'
      BY DEF ReactorSafe
    <3>1. r \in RP!Shape /\ Linked(r) /\ batch' = batch
      BY <1>3 DEF TimerExpires
    <3>2. r' \in RP!Shape /\ Linked(r') /\ Len(r'.slots) >= Len(r.slots)
      BY <2>1, <3>1 DEF Calm, Steady
    <3>3. Len(r.slots) \in Nat /\ Len(r'.slots) \in Nat
      BY <3>1, <3>2 DEF RP!Shape
    <3> QED
      BY <1>3, <3>1, <3>2, <3>3 DEF TimerExpires, KnownEvent
  <2> QED
    BY <1>3, <2>2 DEF TimerExpires, schedVars, futureVars
<1>4. ASSUME NEW fd \in Fds, PeerSends(fd)
      PROVE  FutureTypes' /\ Phase' /\ ReactorSafe'
  BY <1>4 DEF PeerSends, schedVars, futureVars
<1> HIDE DEF SafeInv, FutureTypes, Phase, ReactorSafe
<1> QED
  BY <1>1, <1>2, <1>3, <1>4

LEMMA NextSafe == SafeInv /\ [Next]_vars => SafeInv'
<1> SUFFICES ASSUME SafeInv, [Next]_vars PROVE SafeInv'
  OBVIOUS
<1>1. AtAStep'
  BY StepKept DEF SafeInv
<1>2. SP!IInv'
  BY StepRefines, SchedulerSteps, SP!NextIInv DEF SafeInv
<1>3. FutureTypes' /\ Phase' /\ ReactorSafe'
  <2>1. CASE UNCHANGED vars
    BY <2>1 DEF SafeInv, FutureTypes, Phase, ReactorSafe, Linked, KnownEvent,
                vars, schedVars, kernelVars, futureVars
  <2> QED
    BY <2>1, BlockOnSafe, OthersSafe DEF Next
<1> QED
  BY <1>1, <1>2, <1>3 DEF SafeInv, ReactorSafe

-----------------------------------------------------------------------------
(* FreeInv.                                                                *)

\* Nobody will wake a task that runs.
Clear(t) ==
  /\ Waits(r, t) = {}
  /\ ~ready[t]
  /\ thread[t] \notin {"stashed", "taken"}

LEMMA RunningTaskIsClear ==
  ASSUME FreeInv, NEW f \in Tasks, InPoll(f)
  PROVE  Clear(f)
<1>1. bpc # "done" /\ ret = "none" /\ pc = "poll" /\ f = Sch!Cur
  BY PolledWhere DEF FreeInv, Futures
<1>2. ~Parked(f)
  BY <1>1 DEF Parked
<1> QED
  BY <1>1, <1>2 DEF FreeInv, WakersParked, OneWaker, RunningIsClear, Clear

\* What a poll of task f leaves of f's waker.
LeavesOne(f) ==
  /\ Waits(r', f) # {} => ~ready'[f] /\ ret' = "pending" /\ thread'[f] = thread[f]
  /\ \A g, h \in Waits(r', f) : g = h
  /\ thread'[f] # thread[f] =>
       Waits(r', f) = {} /\ ~ready'[f] /\ ret' = "pending"
  /\ ret' = "none" => ~ready'[f]

\* The waker goes to one place, and only if the task is not woken at once.
LEMMA SetWakerLeavesOne ==
  ASSUME SafeInv, NEW f \in Tasks, Clear(f),
         NEW q \in RP!Shape, NoNewWaits(r, q, f),
         NEW h \in Int, h > 0 => h \in Timers,
         NEW g, g = Rct!SetWaker(q, h, f),
         r' = g.r, WakeCaller(f, g.wakes), ret' = "pending", thread' = thread
  PROVE  LeavesOne(f)
<1>1. f \in Futures
  BY DEF Futures
<1>2. /\ g.wakes # {} => NoNewWaits(q, g.r, f)
      /\ Waits(q, f) = {} => \A x, y \in Waits(g.r, f) : x = y
  BY <1>1, SetWakerWaits
<1>3. Waits(q, f) = {}
  BY DEF Clear, NoNewWaits
<1>4. g.wakes = {} => ready' = ready
  BY WakeCallerFrame, SchedulerFacts DEF SafeInv
<1>5. Waits(r', f) # {} => ~ready'[f]
  BY <1>2, <1>3, <1>4 DEF NoNewWaits, Clear
<1> QED
  BY <1>2, <1>3, <1>5 DEF LeavesOne

LEMMA PollLeavesOne ==
  ASSUME FreeInv, NoTimedReaders, NEW f \in Tasks, PollStep(f)
  PROVE  LeavesOne(f)
<1>0. InPoll(f) /\ AtAStep /\ SafeInv /\ f \in Futures
  BY DEF PollStep, PollSpawn, PollYield, PollJoin, PollSleep, PollRead,
         PollReadTimeout, PollExt, At, FreeInv, SafeInv, Futures
<1>1. r \in RP!Shape /\ Linked(r) /\ entry[f] = "live"
  BY <1>0, PolledWhere DEF SafeInv
<1>2. Clear(f)
  BY <1>0, RunningTaskIsClear
<1>3. /\ ready \in [Tasks -> BOOLEAN]
      /\ thread \in [Futures -> {"none", "stashed", "taken", "woke", "done"}]
      /\ entry \in [Tasks -> {"none", "live", "freed"}]
  BY <1>0, SchedulerFacts DEF SafeInv, FutureTypes
<1>4. ASSUME thread' = thread, Waits(r', f) = {}, ready'[f] = ready[f]
      PROVE  LeavesOne(f)
  BY <1>2, <1>4 DEF LeavesOne, Clear
<1>5. CASE PollSpawn(f)
  <2>1. Arg(f).task \in Tasks /\ entry[Arg(f).task] = "none"
    BY <1>0, <1>5, AtStep DEF PollSpawn, Sch!Spawn
  <2>2. ready'[f] = ready[f]
    BY <1>1, <1>3, <1>5, <2>1 DEF PollSpawn, Sch!Spawn
  <2> QED
    BY <1>2, <1>4, <1>5, <2>2 DEF PollSpawn, kernelVars, Clear
<1>6. CASE PollYield(f)
  <2>1. CASE sub[f] = 0
    <3>1. r' = [r EXCEPT !.wakeFd = 1] /\ ret' = "pending" /\ thread' = thread
      BY <1>6, <2>1 DEF PollYield, Suspend
    <3>2. r'.slots = r.slots /\ r'.timers = r.timers
      BY <1>1, <3>1 DEF RP!Shape
    <3>3. Waits(r', f) = {}
      BY <1>2, <3>2 DEF Waits, Clear
    <3> QED
      BY <3>1, <3>3 DEF LeavesOne
  <2>2. CASE sub[f] # 0
    BY <1>2, <1>4, <1>6, <2>2 DEF PollYield, schedVars, Clear
  <2> QED
    BY <2>1, <2>2
<1>7. CASE PollJoin(f)
  BY <1>2, <1>4, <1>7 DEF PollJoin, schedVars, kernelVars, Clear
<1>8. CASE PollSleep(f)
  <2> DEFINE k == Arg(f).timer
             a == Rct!RegisterTimer(r, k)
             g == Rct!SetWaker(a, k, f)
  <2>1. k \in Timers /\ thread' = thread
    BY <1>0, <1>8, AtStep DEF PollSleep
  <2>2. k \in Int
    BY <2>1, TimerNumbers
  <2>3. \/ r' = r /\ UNCHANGED schedVars
        \/ r' = g.r /\ WakeCaller(f, g.wakes) /\ ret' = "pending"
        \/ r' = Rct!AfterCheckFired(r, k) /\ UNCHANGED schedVars
    BY <1>8 DEF PollSleep, Suspend
  <2> HIDE DEF k
  <2>4. CASE r' = r /\ UNCHANGED schedVars
    BY <1>2, <1>4, <2>1, <2>4 DEF schedVars, Clear
  <2>5. CASE r' = g.r /\ WakeCaller(f, g.wakes) /\ ret' = "pending"
    <3>1. Calm(r, a)
      BY <1>1, <2>1, TimerCallsCalm
    <3>2. a \in RP!Shape /\ NoNewWaits(r, a, f)
      BY <3>1 DEF Calm, Steady
    <3> HIDE DEF a
    <3> QED
      BY <1>0, <1>2, <2>1, <2>2, <2>5, <3>2, SetWakerLeavesOne
  <2>6. CASE r' = Rct!AfterCheckFired(r, k) /\ UNCHANGED schedVars
    <3>1. Calm(r, r')
      BY <1>1, <2>1, <2>6, TimerCallsCalm
    <3>2. Waits(r', f) = {}
      BY <1>2, <3>1 DEF Calm, NoNewWaits, Clear
    <3> QED
      BY <1>4, <2>1, <2>6, <3>2 DEF schedVars
  <2> QED
    BY <2>3, <2>4, <2>5, <2>6
<1>9. CASE PollRead(f)
  <2> DEFINE h == ReadHandle(Arg(f).fd)
             g == Rct!SetWaker(r, h, f)
  <2>1. \/ r' = r /\ UNCHANGED schedVars
        \/ r' = g.r /\ WakeCaller(f, g.wakes) /\ ret' = "pending"
    BY <1>9 DEF PollRead, Suspend
  <2>2. thread' = thread
    BY <1>9 DEF PollRead
  <2>3. Len(r.slots) \in Nat
    BY <1>1 DEF RP!Shape
  <2>4. h \in Int /\ ~(h > 0)
    BY <2>3, ReadHandleType
  <2> HIDE DEF h
  <2>5. CASE r' = r /\ UNCHANGED schedVars
    BY <1>2, <1>4, <2>2, <2>5 DEF schedVars, Clear
  <2>6. CASE r' = g.r /\ WakeCaller(f, g.wakes) /\ ret' = "pending"
    <3>1. NoNewWaits(r, r, f)
      BY DEF NoNewWaits
    <3> QED
      BY <1>0, <1>1, <1>2, <2>2, <2>4, <2>6, <3>1, SetWakerLeavesOne
  <2> QED
    BY <2>1, <2>5, <2>6
<1>10. CASE PollReadTimeout(f)
  <2>1. st[f] \in 1..Len(Body(f)) /\ Body(f)[st[f]].kind = "readTimeout"
    BY <1>0, <1>10, AtStep DEF PollReadTimeout, Arg
  <2> QED
    BY <2>1 DEF NoTimedReaders
<1>11. CASE PollExt(f)
  <2>1. CASE thread[f] \in {"taken", "woke", "done"}
    BY <1>2, <1>4, <1>11, <2>1 DEF PollExt, schedVars, kernelVars, Clear
  <2>2. CASE thread[f] \notin {"taken", "woke", "done"}
    <3>1. ret' = "pending" /\ r' = r /\ ready' = ready
      BY <1>11, <2>2 DEF PollExt, Suspend, schedVars, kernelVars
    <3> QED
      BY <1>2, <3>1 DEF LeavesOne, Clear
  <2> QED
    BY <2>1, <2>2
<1> QED
  BY <1>5, <1>6, <1>7, <1>8, <1>9, <1>10, <1>11 DEF PollStep

\* What holds of a task's waker goes on to hold while nothing happens to it.
LEMMA StaysParked ==
  ASSUME NEW u \in Tasks, OneWaker(u),
         entry'[u] = entry[u], ready'[u] = ready[u], thread'[u] = thread[u],
         bpc' # "done" => bpc # "done" /\ NoNewWaits(r, r', u),
         Parked(u) /\ pc' = "poll" /\ Sch!Cur' = u => ret' = "pending"
  PROVE  OneWaker(u)'
<1>1. Parked(u) => Parked(u)'
  BY DEF Parked
<1>2. ASSUME bpc' # "done"
      PROVE  Waits(r', u) \subseteq Waits(r, u) /\ bpc # "done"
  BY <1>2 DEF NoNewWaits
<1> QED
  BY <1>1, <1>2 DEF OneWaker

\* The scheduler's part of the state, the threads and ret are as they were.
LEMMA QuietStep ==
  ASSUME WakersParked, RunningIsClear, NoUseAfterFree,
         UNCHANGED <<schedVars, ret, thread, uaf>>,
         \A u \in Tasks : bpc' # "done" => bpc # "done" /\ NoNewWaits(r, r', u)
  PROVE  WakersParked' /\ RunningIsClear' /\ NoUseAfterFree'
<1>1. UNCHANGED <<entry, ready, pc, Sch!Cur>>
  BY DEF schedVars, Sch!Cur
<1>2. ASSUME NEW u \in Tasks PROVE OneWaker(u)'
  <2>1. Parked(u) /\ pc' = "poll" /\ Sch!Cur' = u => ret' = "pending"
    BY <1>1 DEF Parked
  <2> QED
    BY <1>1, <2>1, StaysParked DEF WakersParked
<1> QED
  BY <1>1, <1>2 DEF WakersParked, RunningIsClear, NoUseAfterFree

LEMMA PollFree ==
  ASSUME FreeInv, NoTimedReaders, NEW f \in Futures, PollStep(f)
  PROVE  WakersParked' /\ RunningIsClear' /\ NoUseAfterFree'
<1>0. InPoll(f) /\ SafeInv /\ Root \notin Tasks
  BY RuntimeAssumption DEF PollStep, PollSpawn, PollYield, PollJoin, PollSleep,
         PollRead, PollReadTimeout, PollExt, At, FreeInv
<1>1. PollFrame(f) /\ PollCalm(f)
  BY <1>0, PollFramed, PollIsCalm
<1>2. /\ bpc # "done"
      /\ f = Root => pc = "idle"
      /\ f \in Tasks => pc = "poll" /\ f = Sch!Cur /\ entry[f] = "live"
  BY <1>0, PolledWhere
<1>3. pc' = "poll" => f \in Tasks /\ Sch!Cur' = f
  <2>1. pc = "poll" => pos \in 1..Len(queue)
    BY <1>0, SchedulerFacts DEF SafeInv
  <2> QED
    BY <1>1, <1>2, <2>1 DEF PollFrame, Futures, Sch!Cur
<1>4. f \in Tasks => LeavesOne(f) /\ Clear(f)
  BY <1>0, PollLeavesOne, RunningTaskIsClear
<1>5. ASSUME NEW u \in Tasks PROVE OneWaker(u)'
  <2>1. CASE u = f
    <3>1. LeavesOne(u) /\ Clear(u) /\ entry'[u] = "live"
      BY <1>1, <1>2, <1>4, <2>1 DEF PollFrame
    <3>2. ASSUME ~ready'[u], ret' = "pending" PROVE Parked(u)'
      BY <3>1, <3>2 DEF Parked
    <3>3. thread'[u] \in {"stashed", "taken"} => thread'[u] # thread[u]
      BY <3>1 DEF Clear
    <3>4. Waits(r', u) # {} => thread'[u] \notin {"stashed", "taken"}
      BY <3>1 DEF Clear, LeavesOne
    <3> QED
      BY <3>1, <3>2, <3>3, <3>4 DEF LeavesOne, OneWaker
  <2>2. CASE u # f
    <3>0. OneWaker(u) /\ u \in Futures
      BY DEF FreeInv, WakersParked, Futures
    <3>1. thread'[u] = thread[u] /\ bpc' = bpc /\ NoNewWaits(r, r', u)
      BY <1>1, <2>2, <3>0 DEF PollFrame, PollCalm
    <3>2. CASE entry[u] # "none"
      <4>1. entry'[u] = entry[u] /\ ready'[u] = ready[u]
        BY <1>1, <2>2, <3>2 DEF PollFrame
      <4> QED
        BY <1>2, <1>3, <2>2, <3>0, <3>1, <4>1, StaysParked
    <3>3. CASE entry[u] = "none"
      <4>1. ~Parked(u)
        BY <3>3 DEF Parked
      <4>2. thread[u] \notin {"stashed", "taken"} /\ Waits(r, u) = {}
        BY <1>2, <3>0, <4>1 DEF OneWaker
      <4> QED
        BY <3>1, <4>2 DEF OneWaker, NoNewWaits
    <3> QED
      BY <3>2, <3>3
  <2> QED
    BY <2>1, <2>2
<1>6. RunningIsClear'
  BY <1>3, <1>4 DEF RunningIsClear, LeavesOne
<1>7. NoUseAfterFree'
  BY <1>1 DEF PollFrame, FreeInv, NoUseAfterFree
<1> QED
  BY <1>5, <1>6, <1>7 DEF WakersParked

\* The walk: only a task that is ready is polled, and nobody waits for one.
LEMMA PumpFree ==
  ASSUME FreeInv, PumpWalk \/ PumpReturns \/ TaskReturns
  PROVE  WakersParked' /\ RunningIsClear' /\ NoUseAfterFree'
<1> USE DEF FreeInv
<1>0. /\ pc \in {"idle", "walk", "poll"}
      /\ ready \in [Tasks -> BOOLEAN]
      /\ entry \in [Tasks -> {"none", "live", "freed"}]
      /\ pc # "idle" /\ pos <= Len(queue) => Sch!Cur \in Tasks
      /\ pc = "poll" => pos \in 1..Len(queue) /\ Len(queue) \in Nat
      /\ ~walkAll
  BY SchedulerFacts DEF SafeInv, Phase
<1>1. bpc # "done"
  BY <1>0 DEF SafeInv, Phase, PumpWalk, PumpReturns, TaskReturns, Sch!PumpEnter,
              Sch!PumpSkip, Sch!PumpPoll, Sch!PumpExit
<1>2. r' = r /\ thread' = thread /\ uaf' = uaf
  BY DEF PumpWalk, PumpReturns, TaskReturns, kernelVars
<1>3. \A u \in Tasks : OneWaker(u) /\ NoNewWaits(r, r', u)
  BY <1>2 DEF WakersParked, NoNewWaits
<1>4. NoUseAfterFree'
  BY <1>2 DEF NoUseAfterFree
<1>5. ASSUME pc' # "poll", entry' = entry, ready' = ready
      PROVE  WakersParked' /\ RunningIsClear'
  <2>1. ASSUME NEW u \in Tasks PROVE OneWaker(u)'
    BY <1>1, <1>2, <1>3, <1>5, StaysParked
  <2> QED
    BY <1>5, <2>1 DEF WakersParked, RunningIsClear
<1>6. CASE Sch!PumpPoll
  <2>1. /\ Sch!Cur \in Tasks /\ ready[Sch!Cur]
        /\ ready' = [ready EXCEPT ![Sch!Cur] = FALSE]
        /\ entry' = entry /\ Sch!Cur' = Sch!Cur
    BY <1>0, <1>6 DEF Sch!PumpPoll, Sch!Cur
  <2>2. ASSUME NEW u \in Tasks PROVE OneWaker(u)'
    <3>1. CASE u = Sch!Cur
      <4>1. ~Parked(u)
        BY <2>1, <3>1 DEF Parked
      <4>2. thread[u] \notin {"stashed", "taken"} /\ Waits(r, u) = {}
        BY <1>1, <1>3, <4>1 DEF OneWaker
      <4> QED
        BY <1>2, <4>2 DEF OneWaker
    <3>2. CASE u # Sch!Cur
      <4>1. ready'[u] = ready[u]
        BY <1>0, <2>1, <3>2
      <4> QED
        BY <1>1, <1>2, <1>3, <2>1, <3>2, <4>1, StaysParked
    <3> QED
      BY <3>1, <3>2
  <2>3. RunningIsClear'
    BY <1>0, <2>1 DEF RunningIsClear
  <2> QED
    BY <1>4, <2>2, <2>3 DEF WakersParked
<1>7. CASE PumpWalk /\ ~Sch!PumpPoll
  BY <1>4, <1>5, <1>7 DEF PumpWalk, Sch!PumpEnter, Sch!PumpSkip
<1>8. CASE PumpReturns
  BY <1>4, <1>5, <1>8 DEF PumpReturns, Sch!PumpExit
<1>9. CASE TaskReturns
  <2>1. CASE ret = "pending" /\ Sch!PollPending
    BY <1>4, <1>5, <2>1 DEF Sch!PollPending
  <2>2. CASE ret = "ready" /\ Sch!PollReady(1)
    <3>1. /\ pc = "poll" /\ pc' = "walk" /\ ready' = ready
          /\ entry' = [entry EXCEPT ![Sch!Cur] = "freed"]
      BY <2>2 DEF Sch!PollReady
    <3>2. ASSUME NEW u \in Tasks PROVE OneWaker(u)'
      <4>1. CASE u = Sch!Cur
        <5>1. ~Parked(u)
          BY <2>2, <3>1, <4>1 DEF Parked
        <5>2. thread[u] \notin {"stashed", "taken"} /\ Waits(r, u) = {}
          BY <1>1, <1>3, <5>1 DEF OneWaker
        <5> QED
          BY <1>2, <5>2 DEF OneWaker
      <4>2. CASE u # Sch!Cur
        <5>1. entry'[u] = entry[u]
          BY <1>0, <3>1, <4>2
        <5> QED
          BY <1>1, <1>2, <1>3, <3>1, <5>1, StaysParked
      <4> QED
        BY <4>1, <4>2
    <3> QED
      BY <1>4, <3>1, <3>2 DEF WakersParked, RunningIsClear
  <2> QED
    BY <1>9, <2>1, <2>2 DEF TaskReturns
<1> QED
  BY <1>6, <1>7, <1>8, <1>9

\* The event takes the one waker out that its task has.
LEMMA ParkEventFree ==
  ASSUME FreeInv, NEW e \in batch, ParkEvent(e)
  PROVE  WakersParked' /\ RunningIsClear' /\ NoUseAfterFree'
<1>0. PICK t : t = Rct!EventTask(r, e)
  OBVIOUS
<1>1. bpc = "park" /\ pc = "idle" /\ SafeInv
  BY SchedulerFacts DEF FreeInv, SafeInv, Phase
<1>2. r \in RP!Shape /\ Linked(r) /\ KnownEvent(r, e)
  BY <1>1 DEF SafeInv
<1>3. r' = Rct!AfterEvent(r, e) /\ WakeEntry(t) /\ thread' = thread
  BY <1>0 DEF ParkEvent
<1>4. /\ \A u \in Tasks : NoNewWaits(r, r', u)
      /\ t \in Tasks => \E h \in Waits(r, t) : h \notin Waits(r', t)
  BY <1>0, <1>2, <1>3, EventFacts
<1>5. /\ UNCHANGED <<entry, pc>>
      /\ (t \in Tasks /\ entry[t] = "live" => ready'[t] /\ uaf' = uaf)
      /\ (t \notin Tasks => ready' = ready /\ uaf' = uaf)
      /\ \A u \in Tasks : u # t => ready'[u] = ready[u]
  BY <1>1, <1>3, WakeFrame, SchedulerFacts DEF SafeInv
<1>6. \A u \in Tasks : OneWaker(u)
  BY DEF FreeInv, WakersParked
<1>7. ASSUME t \in Tasks
      PROVE  OneWaker(t)' /\ entry[t] = "live"
  <2>1. Waits(r, t) # {} /\ Waits(r', t) = {}
    BY <1>1, <1>4, <1>6, <1>7 DEF OneWaker, NoNewWaits
  <2>2. Parked(t) /\ thread[t] \notin {"stashed", "taken"}
    BY <1>1, <1>6, <1>7, <2>1 DEF OneWaker
  <2> QED
    BY <1>3, <2>1, <2>2 DEF OneWaker, Parked
<1>8. ASSUME NEW u \in Tasks, u # t PROVE OneWaker(u)'
  BY <1>1, <1>3, <1>4, <1>5, <1>6, <1>8, StaysParked
<1>9. NoUseAfterFree'
  BY <1>5, <1>7 DEF FreeInv, NoUseAfterFree
<1> QED
  BY <1>1, <1>5, <1>7, <1>8, <1>9 DEF WakersParked, RunningIsClear

\* A thread that has taken the waker finds the task's entry alive.
LEMMA ThreadWakesFree ==
  ASSUME FreeInv, NEW f \in Futures, ThreadWakes(f)
  PROVE  WakersParked' /\ RunningIsClear' /\ NoUseAfterFree'
<1>0. /\ SafeInv /\ ready \in [Tasks -> BOOLEAN]
      /\ thread \in [Futures -> {"none", "stashed", "taken", "woke", "done"}]
      /\ \A u \in Tasks : OneWaker(u)
      /\ pc = "poll" => Sch!Cur \in Tasks
  BY SchedulerFacts DEF FreeInv, SafeInv, FutureTypes, WakersParked
<1>1. CASE thread[f] = "taken"
  <2>1. r' = r /\ bpc' = bpc /\ ret' = ret /\ thread' = [thread EXCEPT ![f] = "woke"]
    BY <1>1 DEF ThreadWakes, futureVars
  <2>2. f \in Tasks => entry[f] = "live" /\ ~CtxFreed(f) /\ Parked(f)
    BY <1>0, <1>1, RuntimeAssumption DEF OneWaker, Parked, CtxFreed
  <2>3. /\ UNCHANGED <<queue, entry, pc, pos>>
        /\ (f \in Tasks => ready'[f] /\ uaf' = uaf)
        /\ (f \notin Tasks => ready' = ready)
        /\ \A u \in Tasks : u # f => ready'[u] = ready[u]
        /\ (uaf' = uaf \/ uaf' = uaf \union {"cell"})
    <3>1. CASE CtxFreed(f)
      BY <1>1, <2>2, <3>1 DEF ThreadWakes, schedVars
    <3>2. CASE ~CtxFreed(f)
      <4>1. WakeEntry(f)
        BY <1>1, <3>2 DEF ThreadWakes
      <4> QED
        BY <1>0, <2>2, <4>1, WakeFrame
    <3> QED
      BY <3>1, <3>2
  <2>4. Sch!Cur' = Sch!Cur
    BY <2>3 DEF Sch!Cur
  <2>5. ASSUME NEW u \in Tasks PROVE OneWaker(u)'
    <3>1. CASE u = f
      <4>1. thread'[u] = "woke"
        BY <1>0, <2>1, <3>1
      <4>2. bpc # "done" => Waits(r, u) = {}
        BY <1>0, <1>1, <3>1 DEF OneWaker
      <4> QED
        BY <2>1, <4>1, <4>2 DEF OneWaker
    <3>2. CASE u # f
      <4>1. thread'[u] = thread[u] /\ NoNewWaits(r, r', u)
        BY <1>0, <2>1, <3>2 DEF NoNewWaits, Futures
      <4>2. Parked(u) /\ pc' = "poll" /\ Sch!Cur' = u => ret' = "pending"
        BY <2>1, <2>3, <2>4 DEF Parked
      <4> QED
        BY <1>0, <2>1, <2>3, <3>2, <4>1, <4>2, StaysParked
    <3> QED
      BY <3>1, <3>2
  <2>6. RunningIsClear'
    <3> SUFFICES ASSUME pc' = "poll", ret' = "none" PROVE ~ready'[Sch!Cur']
      BY DEF RunningIsClear
    <3>1. ~ready[Sch!Cur] /\ Sch!Cur \in Tasks
      BY <1>0, <2>1, <2>3 DEF FreeInv, RunningIsClear
    <3>2. Sch!Cur # f
      BY <2>1, <2>2, <2>3, <3>1 DEF Parked
    <3> QED
      BY <2>3, <2>4, <3>1, <3>2
  <2>7. NoUseAfterFree'
    BY <2>3 DEF FreeInv, NoUseAfterFree
  <2> QED
    BY <2>5, <2>6, <2>7 DEF WakersParked
<1>2. CASE thread[f] = "woke"
  <2>1. /\ bpc' = bpc /\ ret' = ret /\ thread' = [thread EXCEPT ![f] = "done"]
        /\ UNCHANGED schedVars
        /\ r' = r \/ r' = [r EXCEPT !.wakeFd = 1]
        /\ uaf' = uaf \/ uaf' = uaf \union {"cell"}
    BY <1>2 DEF ThreadWakes, futureVars
  <2>2. UNCHANGED <<entry, ready, pc, Sch!Cur>>
    BY <2>1 DEF schedVars, Sch!Cur
  <2>3. ASSUME NEW u \in Tasks PROVE OneWaker(u)'
    <3>1. ASSUME bpc # "done"
          PROVE  Waits(r', u) = Waits(r, u)
      <4>1. r \in RP!Shape
        BY <1>0, <3>1 DEF SafeInv
      <4>2. r'.slots = r.slots /\ r'.timers = r.timers
        BY <2>1, <4>1 DEF RP!Shape
      <4> QED
        BY <4>2 DEF Waits
    <3>2. /\ thread'[u] \in {"stashed", "taken"} => thread[u] \in {"stashed", "taken"}
          /\ thread[u] \notin {"stashed", "taken"} => thread'[u] \notin {"stashed", "taken"}
      BY <1>0, <2>1 DEF Futures
    <3>3. Parked(u) => Parked(u)'
      BY <2>1, <2>2 DEF Parked
    <3> QED
      BY <1>0, <2>1, <3>1, <3>2, <3>3 DEF OneWaker
  <2> QED
    BY <2>1, <2>2, <2>3 DEF FreeInv, WakersParked, RunningIsClear, NoUseAfterFree
<1> QED
  BY <1>1, <1>2 DEF ThreadWakes

LEMMA InitFree == Init => FreeInv
<1> SUFFICES ASSUME Init PROVE FreeInv
  OBVIOUS
<1>1. SafeInv
  BY InitSafe
<1>2. ASSUME NEW t \in Tasks PROVE OneWaker(t)
  <2>1. thread[t] = "none"
    BY DEF Init, Futures
  <2>2. Waits(r, t) = {}
    BY RuntimeAssumption DEF Init, Waits, Rct!Reactor0, Rct!FreeTimer
  <2> QED
    BY <2>1, <2>2 DEF OneWaker
<1> QED
  BY <1>1, <1>2 DEF FreeInv, WakersParked, RunningIsClear, NoUseAfterFree, Init, Sch!Init

\* The program is chosen once.
LEMMA ProgramStays ==
  ASSUME [Next]_vars
  PROVE  prog' = prog
BY DEF Next, vars, futureVars, BlockOn, OpenStream, PumpNothing, PumpWalk,
       PumpReturns, TaskReturns, RootReturns, Decide, ParkYield, ParkWait,
       ParkEvent, ThreadFinishes, ThreadWakes, TimerExpires, PeerSends,
       PollStep, PollSpawn, PollYield, PollJoin, PollSleep, PollRead,
       PollReadTimeout, PollExt

LEMMA NextFree == FreeInv /\ NoTimedReaders /\ [Next]_vars => FreeInv' /\ NoTimedReaders'
<1> SUFFICES ASSUME FreeInv, NoTimedReaders, [Next]_vars
             PROVE  FreeInv' /\ NoTimedReaders'
  OBVIOUS
<1> DEFINE Goal == WakersParked' /\ RunningIsClear' /\ NoUseAfterFree'
           Quiet == \A u \in Tasks : bpc' # "done" => bpc # "done" /\ NoNewWaits(r, r', u)
<1>0. SafeInv' /\ SafeInv
  BY NextSafe DEF FreeInv
<1>1. prog' = prog
  BY ProgramStays
<1>2. NoTimedReaders'
  BY <1>1 DEF NoTimedReaders, Body
<1>3. ASSUME Quiet, UNCHANGED <<schedVars, ret, thread, uaf>>
      PROVE  Goal
  BY <1>3, QuietStep DEF FreeInv
<1>4. ASSUME r' = r, bpc' # "done" => bpc # "done"
      PROVE  Quiet
  BY <1>4 DEF NoNewWaits
<1>5. ASSUME r \in RP!Shape /\ Linked(r) => Calm(r, r'), bpc' # "done" => bpc # "done"
      PROVE  Quiet
  BY <1>0, <1>5 DEF SafeInv, Calm
<1> HIDE DEF Quiet
<1>6. ASSUME NEW fd \in Fds, OpenStream(fd) PROVE Goal
  <2> DEFINE a == Rct!RegisterFd(r, fd, Rct!Read).r
             b == Rct!RegisterFd(a, fd, Rct!Write).r
  <2>1. ASSUME r \in RP!Shape, Linked(r) PROVE Calm(r, b)
    <3>1. Calm(r, a)
      BY <2>1, RegisterFdCalm DEF Rct!Read
    <3> HIDE DEF a
    <3>2. Calm(a, b)
      BY <2>1, <3>1, RegisterFdCalm DEF Rct!Write, Calm, Steady
    <3> HIDE DEF b
    <3>3. r \in RP!Shape /\ a \in RP!Shape /\ b \in RP!Shape
      BY <2>1, <3>1, <3>2 DEF Calm, Steady
    <3>4. Len(r.slots) \in Nat /\ Len(a.slots) \in Nat /\ Len(b.slots) \in Nat
      BY <3>3 DEF RP!Shape
    <3> QED
      BY <3>1, <3>2, <3>4 DEF Calm, Steady, NoNewWaits
  <2>2. r' = b /\ bpc # "done"
    BY <1>6 DEF OpenStream
  <2> HIDE DEF b
  <2>3. Quiet
    BY <1>5, <2>1, <2>2
  <2> QED
    BY <1>3, <1>6, <2>3 DEF OpenStream, futureVars
<1>7. ASSUME PumpNothing \/ Decide \/ ParkYield PROVE Goal
  <2>1. Quiet
    BY <1>4, <1>7 DEF PumpNothing, Decide, ParkYield, kernelVars
  <2> QED
    BY <1>3, <1>7, <2>1 DEF PumpNothing, Decide, ParkYield, futureVars
<1>8. ASSUME PumpWalk \/ PumpReturns \/ TaskReturns PROVE Goal
  BY <1>8, PumpFree
<1>9. ASSUME RootReturns PROVE Goal
  <2>1. bpc = "root" /\ pc = "idle" /\ pc' = pc
    BY <1>0, <1>9, SchedulerFacts DEF RootReturns, SafeInv, Phase, schedVars
  <2>2. UNCHANGED <<entry, ready, thread, uaf>> /\ (bpc' # "done" => r' = r)
    BY <1>9 DEF RootReturns, schedVars
  <2>3. ASSUME NEW u \in Tasks PROVE OneWaker(u)'
    BY <2>1, <2>2, StaysParked DEF FreeInv, WakersParked, NoNewWaits
  <2> QED
    BY <2>1, <2>2, <2>3 DEF FreeInv, WakersParked, RunningIsClear, NoUseAfterFree
<1>10. ASSUME ParkWait PROVE Goal
  <2>1. bpc = "park" /\ bpc' = bpc /\ r' = Rct!AfterWait(r)
    BY <1>10 DEF ParkWait
  <2>2. Quiet
    BY <1>0, <2>1, WaitFacts DEF SafeInv, Quiet
  <2> QED
    BY <1>3, <1>10, <2>2 DEF ParkWait, futureVars
<1>11. ASSUME NEW e \in batch, ParkEvent(e) PROVE Goal
  BY <1>11, ParkEventFree
<1>12. ASSUME NEW f \in Futures, PollStep(f) PROVE Goal
  BY <1>12, PollFree
<1>13. ASSUME NEW f \in Futures, ThreadFinishes(f) PROVE Goal
  <2>1. /\ UNCHANGED <<schedVars, r, bpc, ret, uaf>>
        /\ thread[f] \in {"none", "stashed"}
        /\ thread' = [thread EXCEPT ![f] = IF thread[f] = "none" THEN "done" ELSE "taken"]
    BY <1>13 DEF ThreadFinishes, kernelVars, futureVars
  <2>2. thread \in [Futures -> {"none", "stashed", "taken", "woke", "done"}]
    BY <1>0 DEF SafeInv, FutureTypes
  <2>3. UNCHANGED <<entry, ready, pc, Sch!Cur>>
    BY <2>1 DEF schedVars, Sch!Cur
  <2>4. ASSUME NEW u \in Tasks PROVE OneWaker(u)'
    <3>1. thread'[u] \in {"stashed", "taken"} <=> thread[u] \in {"stashed", "taken"}
      BY <2>1, <2>2 DEF Futures
    <3>2. Parked(u) => Parked(u)'
      BY <2>1, <2>3 DEF Parked
    <3> QED
      BY <2>1, <3>1, <3>2 DEF FreeInv, WakersParked, OneWaker
  <2> QED
    BY <2>1, <2>3, <2>4 DEF FreeInv, WakersParked, RunningIsClear, NoUseAfterFree
<1>14. ASSUME NEW f \in Futures, ThreadWakes(f) PROVE Goal
  BY <1>14, ThreadWakesFree
<1>15. ASSUME NEW k \in Timers, TimerExpires(k) PROVE Goal
  <2>1. Quiet
    BY <1>5, <1>15, TimerCallsCalm DEF TimerExpires
  <2> QED
    BY <1>3, <1>15, <2>1 DEF TimerExpires, futureVars
<1>16. ASSUME NEW fd \in Fds, PeerSends(fd) PROVE Goal
  <2>1. Quiet
    BY <1>4, <1>16 DEF PeerSends
  <2> QED
    BY <1>3, <1>16, <2>1 DEF PeerSends, futureVars
<1>17. ASSUME UNCHANGED vars PROVE Goal
  <2>1. Quiet
    BY <1>4, <1>17 DEF vars, kernelVars
  <2> QED
    BY <1>3, <1>17, <2>1 DEF vars, futureVars
<1>18. Goal
  BY <1>6, <1>7, <1>8, <1>9, <1>10, <1>11, <1>12, <1>13, <1>14, <1>15, <1>16, <1>17
     DEF Next, BlockOn
<1> QED
  BY <1>0, <1>2, <1>18 DEF FreeInv

\* In a program whose tasks do not read with a timeout, the slots, the timers
\* and the wakers of other threads never reach a task entry that the
\* scheduler has freed: whoever holds a task's waker holds it while the task
\* is parked, and gives it up when it wakes the task.
THEOREM RuntimeNoUseAfterFree ==
  Spec /\ NoTimedReaders => []NoUseAfterFree
<1>1. FreeInv => NoUseAfterFree
  BY DEF FreeInv
<1> QED
  BY <1>1, InitFree, NextFree, PTL DEF Spec

-----------------------------------------------------------------------------
(* SleepInv.                                                               *)

LEMMA RootJoinsTasks ==
  ASSUME AtAStep, st[Root] <= Len(Body(Root)), Body(Root)[st[Root]].kind = "join"
  PROVE  Body(Root)[st[Root]].task \in Tasks
<1>1. Root \in Futures /\ prog \in Programs /\ st[Root] \in Nat \ {0}
  BY DEF AtAStep, Futures
<1>2. Len(Body(Root)) \in Nat
  BY <1>1, RuntimeAssumption DEF Body
<1> QED
  BY <1>1, <1>2, RuntimeAssumption DEF Body

\* A step that leaves the root where it is keeps what is said of its wait, as
\* long as it completes no task unnoticed and no wake of the reactor is lost.
LEMMA RootStays ==
  ASSUME SafeInv, RootWaitsForNews,
         UNCHANGED <<prog, st[Root], sub[Root]>>,
         RootWaits' => RootWaits,
         RootWaits' /\ NothingCompleted' =>
           NothingCompleted /\ \A t \in Tasks : done'[t] => done[t],
         RootWaits' /\ batch' = {} =>
           /\ batch = {}
           /\ thread[Root] # "none" => thread'[Root] # "none"
           /\ thread'[Root] = "done" => thread[Root] = "done" \/ r'.wakeFd = 1
           /\ r.wakeFd = 1 => r'.wakeFd = 1
  PROVE  RootWaitsForNews'
<1> DEFINE step == Body(Root)[st[Root]]
<1>1. SUFFICES ASSUME RootWaits', st[Root] <= Len(Body(Root))
      PROVE  /\ sub'[Root] = 1
             /\ step.kind = "join" /\ NothingCompleted' => ~done'[step.task]
             /\ step.kind = "ext" /\ batch' = {} =>
                  /\ thread'[Root] # "none"
                  /\ thread'[Root] = "done" => r'.wakeFd = 1
  BY DEF RootWaitsForNews, Body
<1>2. /\ sub[Root] = 1
      /\ step.kind = "join" /\ NothingCompleted => ~done[step.task]
      /\ step.kind = "ext" /\ batch = {} =>
           /\ thread[Root] # "none"
           /\ thread[Root] = "done" => r.wakeFd = 1
  BY <1>1 DEF RootWaitsForNews
<1>3. step.kind = "join" => step.task \in Tasks
  BY <1>1, RootJoinsTasks DEF SafeInv
<1> HIDE DEF step
<1> QED
  BY <1>1, <1>2, <1>3

\* A poll of the root that returns Pending has left it at an await that has
\* just been Pending; RootLoops excludes the Pending between two awaits.
LEMMA RootPollSleeps ==
  ASSUME SafeInv, RootLoops, PollStep(Root)
  PROVE  RootWaitsForNews'
<1>0. InPoll(Root) /\ Root \in Futures /\ Root \notin Tasks
  BY RuntimeAssumption DEF PollStep, PollSpawn, PollYield, PollJoin, PollSleep,
         PollRead, PollReadTimeout, PollExt, At, Futures
<1>1. bpc = "root" /\ bpc' = "root" /\ prog' = prog /\ batch' = {}
  BY <1>0, PolledWhere, PollFramed DEF PollFrame
<1>2. /\ st \in [Futures -> Nat \ {0}] /\ sub \in [Futures -> {0, 1}]
      /\ thread \in [Futures -> {"none", "stashed", "taken", "woke", "done"}]
      /\ Len(Body(Root)) \in Nat
  BY <1>0, RuntimeAssumption DEF SafeInv, AtAStep, FutureTypes, Body
<1>3. st[Root] <= Len(Body(Root))
  BY DEF PollStep, PollSpawn, PollYield, PollJoin, PollSleep, PollRead,
         PollReadTimeout, PollExt, At
<1>4. Advance(Root) => ret' # "pending"
  <2>1. st[Root] \in Nat \ {0} /\ Len(Body(Root)) \in Nat
    BY <1>0, <1>2
  <2>2. st[Root] = Len(Body(Root)) \/ prog.lowering[Root] # "linear"
    BY <1>3, <2>1 DEF RootLoops
  <2> QED
    BY <2>2 DEF Advance
<1>5. SUFFICES ASSUME ret' = "pending" PROVE RootWaitsForNews'
  BY <1>1 DEF RootWaitsForNews, RootWaits
<1>6. Suspend(Root)
  BY <1>4, <1>5 DEF PollStep, PollSpawn, PollYield, PollJoin, PollSleep, PollRead,
                    PollReadTimeout, PollExt
<1>7. st' = st /\ sub'[Root] = 1
  BY <1>0, <1>2, <1>6 DEF Suspend
<1>8. Arg(Root).kind = "join" => ~done'[Arg(Root).task]
  <2>1. ASSUME Arg(Root).kind = "join" PROVE PollJoin(Root)
    BY <2>1 DEF Arg, PollStep, PollSpawn, PollYield, PollJoin, PollSleep, PollRead,
                PollReadTimeout, PollExt, At
  <2>2. ASSUME PollJoin(Root) PROVE ~done'[Arg(Root).task]
    BY <1>2, <1>4, <1>5, <2>2 DEF PollJoin, schedVars
  <2> QED
    BY <2>1, <2>2
<1>9. Arg(Root).kind = "ext" => thread'[Root] = "stashed"
  <2>1. ASSUME Arg(Root).kind = "ext" PROVE PollExt(Root)
    BY <2>1 DEF Arg, PollStep, PollSpawn, PollYield, PollJoin, PollSleep, PollRead,
                PollReadTimeout, PollExt, At
  <2>2. ASSUME PollExt(Root) PROVE thread'[Root] = "stashed"
    BY <1>0, <1>2, <1>4, <1>5, <2>2 DEF PollExt
  <2> QED
    BY <2>1, <2>2
<1>10. /\ Arg(Root) = Body(Root)[st[Root]]
       /\ Body(Root)' = Body(Root) /\ st'[Root] = st[Root]
  BY <1>1, <1>7 DEF Arg, Body
<1> QED
  BY <1>7, <1>8, <1>9, <1>10 DEF RootWaitsForNews

LEMMA BlockOnSleeps ==
  ASSUME SleepInv, RootLoops, BlockOn
  PROVE  RootWaitsForNews' /\ ReadyIsAnnounced'
<1> USE DEF SleepInv, RootWaits, NothingCompleted
<1>0. /\ pc \in {"idle", "walk", "poll"} /\ completions \in Nat
      /\ pc # "idle" => bpc \in {"pump1", "pump2"}
      /\ ret # "none" => (bpc = "root" \/ pc = "poll")
      /\ ready \in [Tasks -> BOOLEAN] /\ done \in [Tasks -> BOOLEAN]
  BY SchedulerFacts DEF SafeInv, Phase
<1>1. ASSUME NEW fd \in Fds, OpenStream(fd)
      PROVE  RootWaitsForNews' /\ ReadyIsAnnounced'
  BY <1>1 DEF OpenStream, RootWaitsForNews, ReadyIsAnnounced
<1>2. ASSUME PumpNothing
      PROVE  RootWaitsForNews' /\ ReadyIsAnnounced'
  <2>1. /\ pc = "idle" /\ ret = "none" /\ UNCHANGED <<ret, pc>>
        /\ \/ bpc = "pump1" /\ bpc' = "root"
           \/ bpc = "pump2" /\ bpc' = "decide" /\ pumped' = 0
        /\ UNCHANGED <<prog, st, sub, r, batch, thread, done>>
    BY <1>0, <1>2 DEF PumpNothing, AfterPump, schedVars, kernelVars, futureVars
  <2>2. RootWaitsForNews'
    BY <2>1, RootStays
  <2> QED
    BY <2>1, <2>2 DEF ReadyIsAnnounced
<1>3. ASSUME PumpWalk
      PROVE  RootWaitsForNews' /\ ReadyIsAnnounced'
  <2>1. /\ bpc \in {"pump1", "pump2"} /\ bpc' = bpc
        /\ UNCHANGED <<prog, st, sub, r, batch, thread, done>>
        /\ pc' # "idle"
        /\ (pc = "idle" \/ completions' = completions)
    BY <1>3 DEF PumpWalk, kernelVars, futureVars, Sch!PumpEnter, Sch!PumpSkip,
                Sch!PumpPoll, Sch!handleVars
  <2>2. RootWaitsForNews'
    BY <2>1, RootStays
  <2> QED
    BY <2>1, <2>2 DEF ReadyIsAnnounced
<1>4. ASSUME PumpReturns
      PROVE  RootWaitsForNews' /\ ReadyIsAnnounced'
  <2>1. /\ pc = "walk" /\ ret = "none" /\ ret' = ret
        /\ \/ bpc = "pump1" /\ bpc' = "root"
           \/ bpc = "pump2" /\ bpc' = "decide"
        /\ pumped' = completions
        /\ UNCHANGED <<prog, st, sub, r, batch, thread, done>>
    BY <1>0, <1>4 DEF PumpReturns, AfterPump, kernelVars, futureVars, Sch!PumpExit,
                      Sch!handleVars
  <2>2. RootWaitsForNews'
    BY <2>1, RootStays
  <2> QED
    BY <2>1, <2>2 DEF ReadyIsAnnounced
<1>5. ASSUME TaskReturns
      PROVE  RootWaitsForNews' /\ ReadyIsAnnounced'
  <2>1. /\ pc = "poll" /\ bpc \in {"pump1", "pump2"} /\ bpc' = bpc /\ pc' = "walk"
        /\ UNCHANGED <<prog, st, sub, r, batch, thread>>
        /\ \/ completions' = completions /\ done' = done
           \/ completions' = completions + 1
    BY <1>0, <1>5 DEF TaskReturns, kernelVars, Sch!PollPending, Sch!PollReady,
                      Sch!handleVars
  <2>2. completions + 1 # 0
    BY <1>0
  <2>3. RootWaitsForNews'
    BY <2>1, <2>2, RootStays
  <2> QED
    BY <2>1, <2>3 DEF ReadyIsAnnounced
<1>6. ASSUME RootReturns
      PROVE  RootWaitsForNews' /\ ReadyIsAnnounced'
  <2>1. /\ bpc = "root" /\ pc = "idle" /\ pc' = pc
        /\ \/ ret = "pending" /\ bpc' = "pump2" /\ r' = r
           \/ bpc' = "done"
        /\ UNCHANGED <<prog, st, sub, batch, thread, done>>
    BY <1>0, <1>6 DEF RootReturns, schedVars
  <2>2. RootWaitsForNews'
    <3>1. CASE bpc' = "done"
      BY <3>1 DEF RootWaitsForNews
    <3> QED
      BY <2>1, <3>1, RootStays
  <2> QED
    BY <2>1, <2>2 DEF ReadyIsAnnounced
<1>7. ASSUME Decide
      PROVE  RootWaitsForNews' /\ ReadyIsAnnounced'
  <2>1. /\ bpc = "decide"
        /\ \/ bpc' = "park" /\ pumped = 0 /\ ~Sch!ReadyNonempty
           \/ bpc' = "pump1"
        /\ UNCHANGED <<schedVars, prog, st, sub, r, batch, thread, ret>>
    BY <1>7 DEF Decide, kernelVars, futureVars
  <2>2. done' = done /\ pc' = pc /\ Sch!ReadyNonempty' = Sch!ReadyNonempty
    BY <2>1 DEF schedVars, Sch!ReadyNonempty
  <2>3. ret' # "pending" \/ bpc' # "root"
    BY <2>1
  <2>4. RootWaitsForNews'
    BY <2>1, <2>2, RootStays
  <2> QED
    BY <2>1, <2>2, <2>4 DEF ReadyIsAnnounced
<1>8. ASSUME ParkYield
      PROVE  RootWaitsForNews' /\ ReadyIsAnnounced'
  BY <1>8 DEF ParkYield, RootWaitsForNews, ReadyIsAnnounced
<1>9. ASSUME ParkWait
      PROVE  RootWaitsForNews' /\ ReadyIsAnnounced'
  <2>1. /\ bpc = "park" /\ bpc' = "park" /\ batch' # {}
        /\ UNCHANGED <<prog, st, sub, thread, ret, done>>
    BY <1>9 DEF ParkWait, schedVars, futureVars
  <2>2. RootWaitsForNews'
    BY <2>1, RootStays
  <2> QED
    BY <2>1, <2>2 DEF ReadyIsAnnounced
<1>10. ASSUME NEW e \in batch, ParkEvent(e)
       PROVE  RootWaitsForNews' /\ ReadyIsAnnounced'
  <2>1. /\ bpc = "park" /\ (bpc' = "pump1" \/ (bpc' = "park" /\ batch' # {}))
        /\ UNCHANGED <<prog, st, sub, thread, ret>>
    BY <1>10 DEF ParkEvent, futureVars, SafeInv, Phase
  <2>2. done' = done
    BY <1>0, <1>10, WakeFrame DEF ParkEvent
  <2>3. RootWaitsForNews'
    BY <2>1, <2>2, RootStays
  <2> QED
    BY <2>1, <2>3 DEF ReadyIsAnnounced
<1>11. ASSUME NEW f \in Futures, PollStep(f)
       PROVE  RootWaitsForNews' /\ ReadyIsAnnounced'
  <2>1. InPoll(f)
    BY <1>11 DEF PollStep, PollSpawn, PollYield, PollJoin, PollSleep, PollRead,
                 PollReadTimeout, PollExt, At
  <2>2. PollFrame(f) /\ PollCalm(f) /\ bpc # "park"
    BY <1>11, <2>1, PollFramed, PollIsCalm, PolledWhere
  <2>3. ReadyIsAnnounced'
    BY <2>2 DEF PollFrame, ReadyIsAnnounced
  <2>4. CASE f = Root
    BY <1>11, <2>3, <2>4, RootPollSleeps
  <2>5. CASE f # Root
    <3>1. /\ UNCHANGED <<prog, bpc, pumped, pc, completions, batch, thread[Root],
                         st[Root], sub[Root]>>
          /\ r'.wakeFd \in {r.wakeFd, 1}
      BY <2>2, <2>5 DEF PollFrame, PollCalm, Futures
    <3>2. bpc \in {"pump1", "pump2"}
      BY <1>0, <2>1, <2>5 DEF InPoll
    <3>3. \A t \in Tasks : done'[t] => done[t]
      <4>1. CASE PollSpawn(f)
        BY <1>0, <4>1 DEF PollSpawn, Sch!Spawn
      <4>2. CASE ~PollSpawn(f)
        <5>1. UNCHANGED schedVars \/ WakeEntry(f) \/ \E w : WakeCaller(f, w)
          BY <1>11, <4>2 DEF PollStep, PollYield, PollJoin, PollSleep, PollRead,
                             PollReadTimeout, PollExt
        <5> QED
          BY <1>0, <5>1, WakeFrame, WakeCallerFrame DEF schedVars
      <4> QED
        BY <4>1, <4>2
    <3> QED
      BY <2>3, <3>1, <3>2, <3>3, RootStays
  <2> QED
    BY <2>4, <2>5
<1> QED
  BY <1>1, <1>2, <1>3, <1>4, <1>5, <1>6, <1>7, <1>8, <1>9, <1>10, <1>11 DEF BlockOn

\* A wake from outside: first the task is ready, then the reactor wakes.
LEMMA ThreadWakesSleeps ==
  ASSUME SleepInv, NEW f \in Futures, ThreadWakes(f)
  PROVE  RootWaitsForNews' /\ ReadyIsAnnounced'
<1>0. /\ SafeInv /\ Root \notin Tasks /\ Root \in Futures
      /\ thread \in [Futures -> {"none", "stashed", "taken", "woke", "done"}]
      /\ ready \in [Tasks -> BOOLEAN]
  BY SchedulerFacts, RuntimeAssumption DEF SleepInv, SafeInv, FutureTypes, Futures
<1>1. /\ UNCHANGED <<batch, prog, bpc, pumped, st, sub, ret>>
      /\ \/ /\ thread[f] = "taken" /\ thread' = [thread EXCEPT ![f] = "woke"]
            /\ r' = r
            /\ IF CtxFreed(f) THEN UNCHANGED schedVars ELSE WakeEntry(f)
         \/ /\ thread[f] = "woke" /\ thread' = [thread EXCEPT ![f] = "done"]
            /\ UNCHANGED schedVars
            /\ r' = IF CtxFreed(f) THEN r ELSE [r EXCEPT !.wakeFd = 1]
  BY DEF ThreadWakes, futureVars
<1>2. UNCHANGED <<queue, entry, done, wakeAll, pc, completions>>
  BY <1>0, <1>1, WakeFrame DEF schedVars
<1>3. bpc # "done" /\ ~CtxFreed(f) /\ thread[f] = "woke" => r'.wakeFd = 1
  <2>1. bpc # "done" => r \in RP!Shape
    BY <1>0 DEF SafeInv
  <2> QED
    BY <1>1, <2>1 DEF RP!Shape
<1>4. bpc # "done" /\ r.wakeFd = 1 => r'.wakeFd = 1
  <2>1. CASE r' = r
    BY <2>1
  <2>2. CASE r' # r
    BY <1>1, <1>3, <2>2
  <2> QED
    BY <2>1, <2>2
<1>5. \A u \in Futures : CtxFreed(u)' = CtxFreed(u)
  BY <1>1, <1>2 DEF CtxFreed
<1>6. RootWaitsForNews'
  <2>1. RootWaits' = RootWaits /\ NothingCompleted' = NothingCompleted
    BY <1>1, <1>2 DEF RootWaits, NothingCompleted
  <2>2. RootWaits => bpc # "done"
    BY DEF RootWaits
  <2>3. RootWaits =>
          /\ thread[Root] # "none" => thread'[Root] # "none"
          /\ thread'[Root] = "done" => thread[Root] = "done" \/ r'.wakeFd = 1
    <3>1. CASE f = Root
      <4>1. RootWaits => ~CtxFreed(f)
        BY <2>2, <3>1 DEF CtxFreed
      <4> QED
        BY <1>0, <1>1, <1>3, <2>2, <3>1, <4>1
    <3>2. CASE f # Root
      BY <1>0, <1>1, <3>2
    <3> QED
      BY <3>1, <3>2
  <2> QED
    BY <1>0, <1>1, <1>2, <1>4, <2>1, <2>2, <2>3, RootStays DEF SleepInv
<1>7. ReadyIsAnnounced'
  <2> SUFFICES ASSUME bpc' = "park", batch' = {}, Sch!ReadyNonempty'
               PROVE  \/ r'.wakeFd = 1
                      \/ \E g \in Futures : thread'[g] = "woke" /\ ~CtxFreed(g)
    BY <1>5 DEF ReadyIsAnnounced
  <2>1. CASE CtxFreed(f)
    <3>1. UNCHANGED schedVars
      BY <1>1, <2>1
    <3>2. Sch!ReadyNonempty
      BY <3>1 DEF schedVars, Sch!ReadyNonempty
    <3>3. \/ r.wakeFd = 1
          \/ \E g \in Futures : thread[g] = "woke" /\ ~CtxFreed(g)
      BY <1>1, <3>2 DEF SleepInv, ReadyIsAnnounced
    <3>4. ASSUME NEW g \in Futures, thread[g] = "woke", ~CtxFreed(g)
          PROVE  thread'[g] = "woke"
      BY <1>0, <1>1, <2>1, <3>4
    <3> QED
      BY <1>1, <1>4, <3>3, <3>4
  <2>2. CASE ~CtxFreed(f)
    BY <1>0, <1>1, <1>3, <2>2
  <2> QED
    BY <2>1, <2>2
<1> QED
  BY <1>6, <1>7

LEMMA OthersSleep ==
  ASSUME SleepInv,
         \/ \E f \in Futures : ThreadFinishes(f)
         \/ \E k \in Timers : TimerExpires(k)
         \/ \E fd \in Fds : PeerSends(fd)
         \/ UNCHANGED vars
  PROVE  RootWaitsForNews' /\ ReadyIsAnnounced'
<1>0. /\ SafeInv /\ Root \in Futures
      /\ thread \in [Futures -> {"none", "stashed", "taken", "woke", "done"}]
  BY DEF SleepInv, SafeInv, FutureTypes, Futures
<1>1. UNCHANGED <<schedVars, batch, prog, bpc, pumped, st, sub, ret>>
  BY DEF ThreadFinishes, TimerExpires, PeerSends, vars, kernelVars, futureVars
<1>2. bpc # "done" => r'.wakeFd = r.wakeFd
  <2>1. ASSUME NEW k \in Timers, TimerExpires(k), r \in RP!Shape, Linked(r)
        PROVE  r'.wakeFd = r.wakeFd
    BY <2>1, TimerCallsCalm DEF TimerExpires, Calm, Steady
  <2>2. \/ r' = r
        \/ \E k \in Timers : TimerExpires(k)
    BY DEF ThreadFinishes, PeerSends, vars, kernelVars
  <2> QED
    BY <1>0, <2>1, <2>2 DEF SafeInv
<1>3. \A f \in Futures :
        /\ thread[f] = "woke" => thread'[f] = "woke"
        /\ thread[f] # "none" => thread'[f] # "none"
        /\ thread'[f] = "done" => thread[f] \in {"none", "done"}
  <2>1. ASSUME NEW g \in Futures, ThreadFinishes(g)
        PROVE  \A f \in Futures :
                 /\ thread[f] = "woke" => thread'[f] = "woke"
                 /\ thread[f] # "none" => thread'[f] # "none"
                 /\ thread'[f] = "done" => thread[f] \in {"none", "done"}
    BY <1>0, <2>1 DEF ThreadFinishes
  <2>2. \/ thread' = thread
        \/ \E g \in Futures : ThreadFinishes(g)
    BY DEF TimerExpires, PeerSends, vars
  <2> QED
    BY <2>1, <2>2
<1>4. UNCHANGED <<queue, ready, entry, done, wakeAll, pc, completions>>
  BY <1>1 DEF schedVars
<1>5. RootWaitsForNews'
  <2>1. RootWaits' = RootWaits /\ NothingCompleted' = NothingCompleted
    BY <1>1, <1>4 DEF RootWaits, NothingCompleted
  <2>2. CASE thread[Root] # "none"
    <3>1. thread'[Root] # "none" /\ (thread'[Root] = "done" => thread[Root] = "done")
      BY <1>0, <1>3, <2>2
    <3>2. RootWaits => bpc # "done"
      BY DEF RootWaits
    <3> QED
      BY <1>0, <1>1, <1>2, <1>4, <2>1, <3>1, <3>2, RootStays DEF SleepInv
  <2>3. CASE thread[Root] = "none"
    <3> DEFINE step == Body(Root)[st[Root]]
    <3>1. ASSUME RootWaits, st[Root] <= Len(Body(Root))
          PROVE  /\ sub[Root] = 1
                 /\ step.kind = "join" /\ NothingCompleted => ~done[step.task]
                 /\ ~(step.kind = "ext" /\ batch = {})
      BY <2>3, <3>1 DEF SleepInv, RootWaitsForNews
    <3>2. Body(Root)' = Body(Root)
      BY <1>1 DEF Body
    <3> QED
      BY <1>1, <1>4, <2>1, <3>1, <3>2 DEF RootWaitsForNews
  <2> QED
    BY <2>2, <2>3
<1>6. ReadyIsAnnounced'
  <2>1. Sch!ReadyNonempty' = Sch!ReadyNonempty
    BY <1>4 DEF Sch!ReadyNonempty
  <2>2. \A f \in Futures : CtxFreed(f)' = CtxFreed(f)
    BY <1>1, <1>4 DEF CtxFreed
  <2> QED
    BY <1>1, <1>2, <1>3, <2>1, <2>2 DEF SleepInv, ReadyIsAnnounced
<1> QED
  BY <1>5, <1>6

LEMMA InitSleep == Init => SleepInv
<1> SUFFICES ASSUME Init PROVE SleepInv
  OBVIOUS
<1>1. bpc \in {"pump1", "open"}
  BY DEF Init
<1> QED
  BY <1>1, InitSafe DEF SleepInv, RootWaitsForNews, RootWaits, ReadyIsAnnounced

LEMMA NextSleep == SleepInv /\ RootLoops /\ [Next]_vars => SleepInv' /\ RootLoops'
<1> SUFFICES ASSUME SleepInv, RootLoops, [Next]_vars
             PROVE  SleepInv' /\ RootLoops'
  OBVIOUS
<1>1. SafeInv'
  BY NextSafe DEF SleepInv
<1>2. RootWaitsForNews' /\ ReadyIsAnnounced'
  BY BlockOnSleeps, ThreadWakesSleeps, OthersSleep DEF Next
<1>3. RootLoops'
  BY ProgramStays DEF RootLoops, Body
<1> QED
  BY <1>1, <1>2, <1>3 DEF SleepInv

\* In a program whose root goes on by itself after an await, or has only one,
\* the executor does not sleep in the kernel while a task is ready or the
\* root could move on: every wake, however it interleaves with the two pumps
\* and the decision to park, is seen by one of them or has triggered the wake
\* fd, or will do so next.
THEOREM RuntimeNeverSleepsOnProgress ==
  Spec /\ RootLoops => []NeverSleepsOnProgress
<1>1. SleepInv => NeverSleepsOnProgress
  <2> SUFFICES ASSUME SleepInv, Asleep, ~WakeInFlight
               PROVE  ~Sch!ReadyNonempty /\ ~RootCanProgress
    BY DEF NeverSleepsOnProgress
  <2>1. bpc = "park" /\ batch = {} /\ r.wakeFd # 1
    BY DEF Asleep, Rct!Available
  <2>2. ~Sch!ReadyNonempty
    BY <2>1 DEF SleepInv, ReadyIsAnnounced, WakeInFlight
  <2>3. ~RootCanProgress
    BY <2>1 DEF SleepInv, RootWaitsForNews, RootWaits, NothingCompleted,
                RootCanProgress
  <2> QED
    BY <2>2, <2>3
<1> QED
  BY <1>1, InitSleep, NextSleep, PTL DEF Spec

=============================================================================
