--------------------------- MODULE SchedulerProofs ---------------------------
(***************************************************************************)
(* Proofs, for every set of tasks and payloads, of the safety properties   *)
(* of the task scheduler.  The five properties are proved together: the    *)
(* type of a refcount needs HandleSafety, HandleSafety needs QueueSound    *)
(* (the entry under the walk is live), and so on.  NoOvertaking follows    *)
(* with an invariant about the history of polls MCScheduler keeps.         *)
(***************************************************************************)
EXTENDS MCScheduler, TLAPS

\* A finished task's entry is gone: the step that sets the done bit a joiner
\* reads also retires the task.
DoneIsRetired ==
  \A t \in Tasks : done[t] => entry[t] = "freed"

IInv == TypeOK /\ QueueSound /\ HandleSafety /\ DoneIsRetired /\ NoLostWake

\* Unlinking keeps the other entries in order and shortens the list by one.
LEMMA UnlinkFacts ==
  ASSUME NEW q \in Seq(Tasks), NEW i \in 1..Len(q)
  PROVE  /\ Unlink(q, i) \in Seq(Tasks)
         /\ Len(Unlink(q, i)) = Len(q) - 1
         /\ \A j \in 1..(Len(q) - 1) :
              Unlink(q, i)[j] = IF j < i THEN q[j] ELSE q[j + 1]
<1>1. Len(q) - 1 \in Nat
  OBVIOUS
<1>2. \A j \in 1..(Len(q) - 1) : (IF j < i THEN q[j] ELSE q[j + 1]) \in Tasks
  OBVIOUS
<1>3. Unlink(q, i) \in [1..(Len(q) - 1) -> Tasks]
  BY <1>2 DEF Unlink
<1>4. Unlink(q, i) \in Seq(Tasks)
  BY <1>1, <1>3
<1>5. Len(Unlink(q, i)) = Len(q) - 1
  BY <1>1, <1>3, <1>4
<1> QED
  BY <1>4, <1>5 DEF Unlink

\* Appending keeps the entries where they are and adds one at the end.
LEMMA AppendFacts ==
  ASSUME NEW q \in Seq(Tasks), NEW t \in Tasks
  PROVE  /\ Append(q, t) \in Seq(Tasks)
         /\ Len(Append(q, t)) = Len(q) + 1
         /\ \A j \in 1..Len(q) : Append(q, t)[j] = q[j]
         /\ Append(q, t)[Len(q) + 1] = t
  OBVIOUS

\* Before the first spawn there is no entry, no handle and no wake.
LEMMA InitIInv == Init => IInv
<1> SUFFICES ASSUME Init PROVE IInv
  OBVIOUS
<1>1. TypeOK
  <2>1. /\ queue \in Seq(Tasks)
        /\ pos \in Nat /\ completions \in Nat
        /\ pc \in {"idle", "walk", "poll"}
        /\ entry \in [Tasks -> Memory]
        /\ handle \in [Tasks -> Memory]
        /\ result \in [Tasks -> Values \union {0}]
        /\ refcount \in [Tasks -> 0..2]
        /\ caller \in [Tasks -> {"none", "held", "dropped"}]
    BY DEF Init, Memory
  <2>2. /\ ready \in [Tasks -> BOOLEAN]
        /\ done \in [Tasks -> BOOLEAN]
        /\ owed \in [Tasks -> BOOLEAN]
        /\ wakeAll \in BOOLEAN /\ walkAll \in BOOLEAN
    BY Zenon DEF Init
  <2> QED BY <2>1, <2>2 DEF TypeOK
<1>2. QueueSound
  BY DEF Init, QueueSound
<1>3. HandleSafety
  BY DEF Init, HandleSafety, Owners
<1>4. DoneIsRetired
  BY DEF Init, DoneIsRetired
<1>5. NoLostWake
  BY DEF Init, NoLostWake
<1> QED BY <1>1, <1>2, <1>3, <1>4, <1>5 DEF IInv

\* A spawned task is the new last entry of the list.
LEMMA SpawnIInv ==
  ASSUME IInv, NEW t \in Tasks, Spawn(t)
  PROVE  IInv'
<1> USE DEF IInv
<1> DEFINE n == Len(queue)
<1>1. n \in Nat /\ queue \in Seq(Tasks)
  BY DEF TypeOK
<1>2. /\ Len(queue') = n + 1
      /\ queue' \in Seq(Tasks)
      /\ \A i \in 1..n : queue'[i] = queue[i]
      /\ queue'[n + 1] = t
  BY <1>1, AppendFacts DEF Spawn
<1>3. \A i \in 1..n : queue[i] # t
  BY DEF Spawn, QueueSound
<1> HIDE DEF n
<1>4. TypeOK'
  BY <1>2 DEF Spawn, TypeOK, Memory
<1>5. QueueSound'
  <2>1. ASSUME NEW i \in 1..(n + 1), NEW j \in 1..(n + 1), queue'[i] = queue'[j]
        PROVE  i = j
    <3>1. CASE i \in 1..n /\ j \in 1..n
      BY <1>1, <1>2, <2>1, <3>1 DEF QueueSound, n
    <3>2. CASE i = n + 1 \/ j = n + 1
      BY <1>1, <1>2, <1>3, <2>1, <3>2
    <3> QED BY <1>1, <3>1, <3>2
  <2>2. ASSUME NEW u \in Tasks
        PROVE  entry'[u] = "live" <=> \E i \in 1..(n + 1) : queue'[i] = u
    <3>1. CASE u = t
      BY <1>1, <1>2, <3>1 DEF Spawn, TypeOK
    <3>2. CASE u # t
      <4>1. entry'[u] = entry[u]
        BY <3>2 DEF Spawn, TypeOK
      <4>2. entry[u] = "live" <=> \E i \in 1..n : queue[i] = u
        BY DEF QueueSound, n
      <4>3. ASSUME NEW i \in 1..(n + 1), queue'[i] = u PROVE i \in 1..n
        BY <1>1, <1>2, <3>2, <4>3
      <4> QED BY <1>1, <1>2, <4>1, <4>2, <4>3
    <3> QED BY <3>1, <3>2
  <2>3. pos' \in 1..((n + 1) + 1) \/ pc' = "idle"
    BY <1>1 DEF Spawn, QueueSound, n
  <2>4. pc' = "poll" => pos' <= n + 1
    BY <1>1 DEF Spawn, QueueSound, TypeOK, n
  <2>5. Len(queue') = n + 1
    BY <1>2
  <2> HIDE DEF IInv
  <2> QED BY <2>1, <2>2, <2>3, <2>4, <2>5 DEF QueueSound
<1>6. HandleSafety'
  BY DEF Spawn, TypeOK, HandleSafety, Owners
<1>7. DoneIsRetired'
  BY DEF Spawn, TypeOK, DoneIsRetired
<1>8. NoLostWake'
  <2> SUFFICES ASSUME NEW u \in Tasks, owed'[u], entry'[u] = "live",
                      ~ready'[u], ~wakeAll'
               PROVE  /\ walkAll'
                      /\ pc' # "idle"
                      /\ \E i \in 1..Len(queue') :
                           /\ queue'[i] = u
                           /\ i > pos' \/ (i = pos' /\ pc' = "walk")
    BY DEF NoLostWake
  <2>1. u # t
    BY DEF Spawn, TypeOK
  <2>2. owed[u] /\ entry[u] = "live" /\ ~ready[u] /\ ~wakeAll
    BY <2>1 DEF Spawn, TypeOK
  <2>3. walkAll /\ pc # "idle"
    BY <2>2 DEF NoLostWake
  <2>4. PICK i \in 1..n : queue[i] = u /\ (i > pos \/ (i = pos /\ pc = "walk"))
    BY <2>2 DEF NoLostWake, n
  <2>5. i \in 1..(n + 1) /\ queue'[i] = u
    BY <1>1, <1>2, <2>4
  <2> QED BY <1>2, <2>3, <2>4, <2>5 DEF Spawn
<1> QED BY <1>4, <1>5, <1>6, <1>7, <1>8

\* A wake, from whatever thread, touches the flag of a live entry only.
LEMMA WakeTaskIInv ==
  ASSUME IInv, NEW t \in Tasks, WakeTask(t)
  PROVE  IInv'
<1> USE DEF IInv
<1>1. TypeOK'
  BY DEF WakeTask, TypeOK, handleVars
<1>2. QueueSound'
  BY DEF WakeTask, QueueSound
<1>3. HandleSafety'
  BY DEF WakeTask, HandleSafety, Owners, handleVars
<1>4. DoneIsRetired'
  BY DEF WakeTask, DoneIsRetired, handleVars
<1>5. NoLostWake'
  BY DEF WakeTask, NoLostWake, TypeOK
<1> QED BY <1>1, <1>2, <1>3, <1>4, <1>5

\* A wake-all request covers every task until a pump takes it.
LEMMA WakeAllTasksIInv ==
  ASSUME IInv, WakeAllTasks
  PROVE  IInv'
<1> USE DEF IInv
<1>1. TypeOK'
  <2>1. owed' \in [Tasks -> BOOLEAN]
    BY Zenon DEF WakeAllTasks, TypeOK
  <2> QED BY <2>1 DEF WakeAllTasks, TypeOK, handleVars
<1>2. QueueSound'
  BY DEF WakeAllTasks, QueueSound
<1>3. HandleSafety'
  BY DEF WakeAllTasks, HandleSafety, Owners, handleVars
<1>4. DoneIsRetired'
  BY DEF WakeAllTasks, DoneIsRetired, handleVars
<1>5. NoLostWake'
  BY DEF WakeAllTasks, NoLostWake
<1> QED BY <1>1, <1>2, <1>3, <1>4, <1>5

\* The spawner's half of the handle is one of its owners.
LEMMA HandleDropIInv ==
  ASSUME IInv, NEW t \in Tasks, HandleDrop(t)
  PROVE  IInv'
<1> USE DEF IInv
<1>1. refcount[t] \in 1..2
  BY DEF HandleDrop, HandleSafety, Owners, TypeOK
<1>2. TypeOK'
  BY <1>1 DEF HandleDrop, Release, TypeOK, Memory
<1>3. QueueSound'
  BY DEF HandleDrop, QueueSound
<1>4. HandleSafety'
  BY <1>1 DEF HandleDrop, Release, HandleSafety, Owners, TypeOK, Memory
<1>5. DoneIsRetired'
  BY DEF HandleDrop, DoneIsRetired
<1>6. NoLostWake'
  BY DEF HandleDrop, NoLostWake
<1> QED BY <1>2, <1>3, <1>4, <1>5, <1>6

\* Draining lets go of every entry and of its half of the handle.
LEMMA DrainRemainingIInv ==
  ASSUME IInv, DrainRemaining
  PROVE  IInv'
<1> USE DEF IInv
<1>1. \A t \in Tasks : entry[t] = "live" => refcount[t] \in 1..2
  BY DEF HandleSafety, Owners, TypeOK
<1>2. TypeOK'
  BY <1>1 DEF DrainRemaining, TypeOK, Memory
<1>3. queue' = << >> /\ pc' = "idle" /\ \A t \in Tasks : entry'[t] # "live"
  BY DEF DrainRemaining
<1>4. QueueSound'
  BY <1>3 DEF QueueSound
<1>5. HandleSafety'
  BY <1>1 DEF DrainRemaining, HandleSafety, Owners, TypeOK, Memory
<1>6. DoneIsRetired'
  BY DEF DrainRemaining, DoneIsRetired
<1>7. NoLostWake'
  BY <1>3 DEF NoLostWake
<1> QED BY <1>2, <1>4, <1>5, <1>6, <1>7

\* The pump takes the wake-all request over into its walk from the head.
LEMMA PumpEnterIInv ==
  ASSUME IInv, PumpEnter
  PROVE  IInv'
<1> USE DEF IInv
<1>1. TypeOK'
  BY DEF PumpEnter, TypeOK, handleVars
<1>2. Len(queue) \in Nat /\ Len(queue) >= 1
  BY DEF PumpEnter, TypeOK
<1>3. QueueSound'
  BY <1>2 DEF PumpEnter, QueueSound
<1>4. HandleSafety'
  BY DEF PumpEnter, HandleSafety, Owners, handleVars
<1>5. DoneIsRetired'
  BY DEF PumpEnter, DoneIsRetired, handleVars
<1>6. NoLostWake'
  <2> SUFFICES ASSUME NEW u \in Tasks, owed[u], entry[u] = "live", ~ready[u]
               PROVE  walkAll' /\ \E i \in 1..Len(queue) : queue[i] = u /\ i >= 1
    BY <1>2 DEF PumpEnter, NoLostWake
  <2>1. wakeAll
    BY DEF PumpEnter, NoLostWake
  <2>2. PICK i \in 1..Len(queue) : queue[i] = u
    BY DEF QueueSound
  <2> QED BY <1>2, <2>1, <2>2 DEF PumpEnter
<1> QED BY <1>1, <1>3, <1>4, <1>5, <1>6

\* An entry that is passed over is not ready and not covered by the walk.
LEMMA PumpSkipIInv ==
  ASSUME IInv, PumpSkip
  PROVE  IInv'
<1> USE DEF IInv
<1>1. TypeOK'
  BY DEF PumpSkip, TypeOK, handleVars
<1>2. QueueSound'
  BY DEF PumpSkip, QueueSound, TypeOK
<1>3. HandleSafety'
  BY DEF PumpSkip, HandleSafety, Owners, handleVars
<1>4. DoneIsRetired'
  BY DEF PumpSkip, DoneIsRetired, handleVars
<1>5. NoLostWake'
  BY DEF PumpSkip, NoLostWake
<1> QED BY <1>1, <1>2, <1>3, <1>4, <1>5

\* The entry under the walk is a live one.
LEMMA CurLive ==
  ASSUME TypeOK, QueueSound, pc # "idle", pos <= Len(queue)
  PROVE  pos \in 1..Len(queue) /\ Cur \in Tasks /\ entry[Cur] = "live"
<1>1. pos \in 1..Len(queue)
  BY DEF TypeOK, QueueSound
<1>2. Cur \in Tasks
  BY <1>1 DEF TypeOK, Cur
<1> QED BY <1>1, <1>2 DEF QueueSound, Cur

\* A poll answers the wakes that came before it, and only the entry's own.
LEMMA PumpPollIInv ==
  ASSUME IInv, PumpPoll
  PROVE  IInv'
<1> USE DEF IInv
<1>1. pos \in 1..Len(queue) /\ Cur \in Tasks /\ entry[Cur] = "live"
  BY CurLive DEF PumpPoll
<1>2. TypeOK'
  BY <1>1 DEF PumpPoll, TypeOK, handleVars
<1>3. QueueSound'
  BY <1>1 DEF PumpPoll, QueueSound
<1>4. HandleSafety'
  BY DEF PumpPoll, HandleSafety, Owners, handleVars
<1>5. DoneIsRetired'
  BY DEF PumpPoll, DoneIsRetired, handleVars
<1>6. NoLostWake'
  <2> SUFFICES ASSUME NEW u \in Tasks, owed'[u], entry[u] = "live",
                      ~ready'[u], ~wakeAll
               PROVE  walkAll /\ \E i \in 1..Len(queue) : queue[i] = u /\ i > pos
    BY DEF PumpPoll, NoLostWake
  <2>1. u # Cur /\ owed[u] /\ ~ready[u]
    BY <1>1 DEF PumpPoll, TypeOK
  <2>2. walkAll
    BY <2>1 DEF NoLostWake
  <2>3. PICK i \in 1..Len(queue) : queue[i] = u /\ (i > pos \/ i = pos)
    BY <2>1 DEF NoLostWake
  <2>4. i # pos
    BY <2>1, <2>3 DEF Cur
  <2> QED BY <2>2, <2>3, <2>4
<1> QED BY <1>2, <1>3, <1>4, <1>5, <1>6

\* A pending task stays in the list; the walk goes on behind it.
LEMMA PollPendingIInv ==
  ASSUME IInv, PollPending
  PROVE  IInv'
<1> USE DEF IInv
<1>1. pos \in 1..Len(queue) /\ Len(queue) \in Nat
  BY CurLive DEF PollPending, QueueSound, TypeOK
<1>2. TypeOK'
  BY DEF PollPending, TypeOK, handleVars
<1>3. QueueSound'
  BY <1>1 DEF PollPending, QueueSound
<1>4. HandleSafety'
  BY DEF PollPending, HandleSafety, Owners, handleVars
<1>5. DoneIsRetired'
  BY DEF PollPending, DoneIsRetired, handleVars
<1>6. NoLostWake'
  <2> SUFFICES ASSUME NEW u \in Tasks, owed[u], entry[u] = "live",
                      ~ready[u], ~wakeAll
               PROVE  walkAll /\ \E i \in 1..Len(queue) :
                                     queue[i] = u /\ i >= pos + 1
    BY <1>1 DEF PollPending, NoLostWake, TypeOK
  <2>1. PICK i \in 1..Len(queue) : queue[i] = u /\ i > pos
    BY DEF PollPending, NoLostWake
  <2>2. walkAll
    BY DEF NoLostWake
  <2> QED BY <1>1, <2>1, <2>2
<1> QED BY <1>2, <1>3, <1>4, <1>5, <1>6

\* A completed task leaves the list under the walk: its successor takes its
\* place, the entries before it stay.
LEMMA PollReadyIInv ==
  ASSUME IInv, NEW v \in Values, PollReady(v)
  PROVE  IInv'
<1> USE DEF IInv
<1> DEFINE n == Len(queue)
<1>1. /\ n \in Nat /\ pos \in 1..n
      /\ Cur \in Tasks /\ entry[Cur] = "live" /\ Cur = queue[pos]
  BY CurLive DEF PollReady, QueueSound, TypeOK, Cur
<1>2. /\ queue' \in Seq(Tasks)
      /\ Len(queue') = n - 1
      /\ \A j \in 1..(n - 1) : queue'[j] = IF j < pos THEN queue[j] ELSE queue[j + 1]
  BY <1>1, UnlinkFacts DEF PollReady, TypeOK
<1>3. \A i, j \in 1..n : queue[i] = queue[j] => i = j
  BY DEF QueueSound
<1>4. refcount[Cur] \in 1..2
  BY <1>1 DEF HandleSafety, Owners, TypeOK
<1>5. entry' = [entry EXCEPT ![Cur] = "freed"]
  BY DEF PollReady
<1>6. TypeOK'
  BY <1>1, <1>2, <1>4 DEF PollReady, Release, TypeOK, Memory
<1>7. \A u \in Tasks : entry[u] = "live" <=> \E i \in 1..n : queue[i] = u
  BY DEF QueueSound
<1>8. pc' = "walk" /\ pos' = pos
  BY DEF PollReady
<1> HIDE DEF n
\* Every other entry is found one place further down at most.
<1>9. ASSUME NEW i \in 1..n, queue[i] # Cur
      PROVE  \E j \in 1..(n - 1) : queue'[j] = queue[i] /\ (i > pos => j >= pos)
  <2>1. i # pos
    BY <1>1, <1>9
  <2>2. CASE i < pos
    BY <1>1, <1>2, <2>2
  <2>3. CASE i > pos
    <3>1. i - 1 \in 1..(n - 1) /\ ~(i - 1 < pos) /\ (i - 1) + 1 = i /\ i - 1 >= pos
      BY <1>1, <2>3
    <3>2. queue'[i - 1] = queue[(i - 1) + 1]
      BY <1>2, <3>1
    <3> QED BY <3>1, <3>2
  <2> QED BY <1>1, <2>1, <2>2, <2>3
<1>10. QueueSound'
  <2>1. ASSUME NEW i \in 1..(n - 1), NEW j \in 1..(n - 1), queue'[i] = queue'[j]
        PROVE  i = j
    BY <1>1, <1>2, <1>3, <2>1
  <2>2. ASSUME NEW u \in Tasks
        PROVE  entry'[u] = "live" <=> \E i \in 1..(n - 1) : queue'[i] = u
    <3>1. CASE u = Cur
      <4>1. entry'[u] # "live"
        BY <1>1, <1>5, <3>1 DEF TypeOK
      <4>2. ASSUME NEW i \in 1..(n - 1), queue'[i] = u PROVE FALSE
        BY <1>1, <1>2, <1>3, <3>1, <4>2
      <4> QED BY <4>1, <4>2
    <3>2. CASE u # Cur
      <4>1. entry'[u] = entry[u]
        BY <1>1, <1>5, <3>2 DEF TypeOK
      <4>2. ASSUME entry[u] = "live"
            PROVE  \E i \in 1..(n - 1) : queue'[i] = u
        BY <1>7, <1>9, <3>2, <4>2
      <4>3. ASSUME NEW i \in 1..(n - 1), queue'[i] = u
            PROVE  entry[u] = "live"
        BY <1>1, <1>2, <1>7, <4>3
      <4> QED BY <4>1, <4>2, <4>3
    <3> QED BY <3>1, <3>2
  <2>3. pos' \in 1..((n - 1) + 1)
    BY <1>1, <1>8
  <2>4. Len(queue') = n - 1
    BY <1>2
  <2> HIDE DEF IInv
  <2> QED BY <1>8, <2>1, <2>2, <2>3, <2>4 DEF QueueSound
<1>11. HandleSafety'
  BY <1>1, <1>4, <1>5 DEF PollReady, Release, HandleSafety, Owners, TypeOK, Memory
<1>12. DoneIsRetired'
  BY <1>1, <1>5 DEF PollReady, DoneIsRetired, TypeOK
<1>13. NoLostWake'
  <2> SUFFICES ASSUME NEW u \in Tasks, owed[u], entry'[u] = "live",
                      ~ready[u], ~wakeAll
               PROVE  walkAll /\ \E i \in 1..(n - 1) : queue'[i] = u /\ i >= pos
    BY <1>1, <1>2, <1>8 DEF PollReady, NoLostWake, TypeOK
  <2>1. u # Cur /\ entry[u] = "live"
    BY <1>1, <1>5 DEF TypeOK
  <2>2. walkAll
    BY <2>1 DEF NoLostWake
  <2>3. PICK i \in 1..n : queue[i] = u /\ i > pos
    BY <2>1 DEF PollReady, NoLostWake, n
  <2> QED BY <1>9, <2>1, <2>2, <2>3
<1> QED BY <1>6, <1>10, <1>11, <1>12, <1>13

\* At the end of the list nothing is left for the walk to cover.
LEMMA PumpExitIInv ==
  ASSUME IInv, PumpExit
  PROVE  IInv'
<1> USE DEF IInv
<1>1. TypeOK'
  BY DEF PumpExit, TypeOK, handleVars
<1>2. QueueSound'
  BY DEF PumpExit, QueueSound
<1>3. HandleSafety'
  BY DEF PumpExit, HandleSafety, Owners, handleVars
<1>4. DoneIsRetired'
  BY DEF PumpExit, DoneIsRetired, handleVars
<1>5. NoLostWake'
  BY DEF PumpExit, NoLostWake, TypeOK
<1> QED BY <1>1, <1>2, <1>3, <1>4, <1>5

\* Every step of the scheduler, and of the program around it, preserves IInv.
LEMMA NextIInv == IInv /\ [Next]_schedVars => IInv'
<1> SUFFICES ASSUME IInv, [Next]_schedVars
             PROVE  IInv'
  OBVIOUS
<1>1. ASSUME NEW t \in Tasks, Spawn(t) PROVE IInv'
  BY <1>1, SpawnIInv
<1>2. ASSUME NEW t \in Tasks, WakeTask(t) PROVE IInv'
  BY <1>2, WakeTaskIInv
<1>3. ASSUME NEW t \in Tasks, HandleDrop(t) PROVE IInv'
  BY <1>3, HandleDropIInv
<1>4. CASE WakeAllTasks
  BY <1>4, WakeAllTasksIInv
<1>5. CASE DrainRemaining
  BY <1>5, DrainRemainingIInv
<1>6. CASE PumpStep
  <2>1. ASSUME NEW v \in Values, PollReady(v) PROVE IInv'
    BY <2>1, PollReadyIInv
  <2> QED BY <1>6, <2>1, PumpEnterIInv, PumpSkipIInv, PumpPollIInv,
             PumpExitIInv, PollPendingIInv DEF PumpStep
<1>7. CASE UNCHANGED schedVars
  BY <1>7 DEF IInv, schedVars, handleVars, TypeOK, QueueSound, HandleSafety,
              Owners, DoneIsRetired, NoLostWake
<1> QED BY <1>1, <1>2, <1>3, <1>4, <1>5, <1>6, <1>7 DEF Next

\* The inductive invariant holds in every state of the scheduler.
THEOREM SchedulerInvariant == Spec => []IInv
  BY InitIInv, NextIInv, PTL DEF Spec

\* The variables keep their types; a refcount never leaves 0..2.
THEOREM SchedulerTypeCorrect == Spec => []TypeOK
  BY SchedulerInvariant, PTL DEF IInv

\* The list is exactly the live entries and the walk stays inside it, for
\* any number of tasks spawned, completed and drained in any order.
THEOREM SchedulerQueueSound == Spec => []QueueSound
  BY SchedulerInvariant, PTL DEF IInv

\* A RuxenTaskHandle is freed exactly when its last owner lets go.
THEOREM SchedulerHandleSafety == Spec => []HandleSafety
  BY SchedulerInvariant, PTL DEF IInv

\* No wake is lost between a poll and the next park, wherever it arrives.
THEOREM SchedulerNoLostWake == Spec => []NoLostWake
  BY SchedulerInvariant, PTL DEF IInv

-----------------------------------------------------------------------------
(* The pump is fair, for every number of tasks: while a task marked ready  *)
(* waits for its poll, no other task is polled twice.  Stated, as the runs *)
(* state it, over the scheduler with a history of polls.                   *)

\* The pump in progress is through with the i-th entry.
Past(i) == pc # "idle" /\ (i < pos \/ (i = pos /\ pc = "poll"))

\* What passed records, and of whom: tasks not spawned yet are neither
\* ready nor polled.
History ==
  /\ passed \in [Tasks -> SUBSET Tasks]
  /\ \A t \in Tasks : entry[t] = "none" => ~ready[t]
  /\ \A u \in Tasks : \A t \in passed[u] : entry[t] # "none"

\* Where a task that was polled since another one, still waiting, was
\* marked ready is to be found: the walk was at it after the mark, so that,
\* if the walk is through with the waiting one, it lies behind that one and
\* was polled by this walk, and else it was polled by this walk, or by the
\* one before, and then it lies behind the waiting one.
Turns ==
  \A i, j \in 1 .. Len(queue) :
    ready[queue[i]] /\ queue[j] \in passed[queue[i]] =>
      IF Past(i) THEN i < j /\ Past(j) ELSE i < j \/ Past(j)

RoundInv == IInv /\ History /\ Turns

-----------------------------------------------------------------------------
\* How passed changes, whatever the scheduler does.
Records ==
  passed' = [u \in Tasks |->
               IF ready[u] /\ ready'[u]
                 THEN passed[u] \union {t \in Tasks : StartsPoll(t)}
                 ELSE {}]

\* A step that starts no poll adds nothing to passed.
LEMMA NoPollRecorded ==
  ASSUME Records, History, ~(pc = "walk" /\ pc' = "poll"),
         NEW u \in Tasks, NEW t \in passed'[u]
  PROVE  ready[u] /\ t \in passed[u] /\ t \in Tasks
BY DEF Records, StartsPoll, History

\* A new task starts with nobody recorded, and is recorded nowhere.
LEMMA TurnsSpawn ==
  ASSUME RoundInv, Records, NEW s \in Tasks, Spawn(s)
  PROVE  Turns'
<1> DEFINE n == Len(queue)
<1>1. /\ n \in Nat /\ queue \in Seq(Tasks) /\ pos \in Nat
  BY DEF RoundInv, IInv, TypeOK
<1>2. /\ Len(queue') = n + 1
      /\ \A i \in 1 .. n : queue'[i] = queue[i] /\ queue[i] \in Tasks
      /\ queue'[n + 1] = s
  BY <1>1, AppendFacts DEF Spawn
<1>3. /\ entry[s] = "none" /\ ~ready[s] /\ pc' = pc /\ pos' = pos
      /\ \A u \in Tasks : u # s => ready'[u] = ready[u]
      /\ ~(pc = "walk" /\ pc' = "poll")
  BY DEF Spawn, RoundInv, History, IInv, TypeOK
<1>4. \A i : Past(i)' <=> Past(i)
  BY <1>3 DEF Past
<1> HIDE DEF n
<1> SUFFICES ASSUME NEW i \in 1 .. n + 1, NEW j \in 1 .. n + 1,
                    ready'[queue'[i]], queue'[j] \in passed'[queue'[i]]
             PROVE  IF Past(i)' THEN i < j /\ Past(j)' ELSE i < j \/ Past(j)'
  BY <1>2 DEF Turns
<1>5. queue'[i] \in Tasks
  BY <1>1, <1>2
<1>6. ready[queue'[i]] /\ queue'[j] \in passed[queue'[i]]
  BY <1>3, <1>5, NoPollRecorded DEF RoundInv
<1>7. queue'[i] # s /\ queue'[j] # s
  BY <1>3, <1>5, <1>6 DEF RoundInv, History
<1>8. i \in 1 .. n /\ j \in 1 .. n
  BY <1>1, <1>2, <1>7
<1> QED
  BY <1>2, <1>4, <1>6, <1>8 DEF RoundInv, Turns, n

\* Steps that leave the list and the walk alone, and start no poll.
LEMMA TurnsKept ==
  ASSUME RoundInv, Records, UNCHANGED <<queue, pc, pos>>
  PROVE  Turns'
<1>1. \A i : Past(i)' <=> Past(i)
  BY DEF Past
<1> SUFFICES ASSUME NEW i \in 1 .. Len(queue), NEW j \in 1 .. Len(queue),
                    queue[j] \in passed'[queue[i]]
             PROVE  IF Past(i) THEN i < j /\ Past(j) ELSE i < j \/ Past(j)
  BY <1>1 DEF Turns
<1>2. queue[i] \in Tasks
  BY DEF RoundInv, IInv, TypeOK
<1>3. ~(pc = "walk" /\ pc' = "poll")
  OBVIOUS
<1>4. ready[queue[i]] /\ queue[j] \in passed[queue[i]]
  BY <1>2, <1>3, NoPollRecorded DEF RoundInv
<1> QED
  BY <1>4 DEF RoundInv, Turns

\* A walk begins: it is through with nothing, as if there were none.
LEMMA TurnsEnter ==
  ASSUME RoundInv, Records, PumpEnter
  PROVE  Turns'
<1>1. \A i \in 1 .. Len(queue) : ~Past(i) /\ ~Past(i)'
  BY DEF Past, PumpEnter, RoundInv, IInv, TypeOK
<1>2. queue' = queue /\ ~(pc = "walk" /\ pc' = "poll")
  BY DEF PumpEnter
<1> SUFFICES ASSUME NEW i \in 1 .. Len(queue), NEW j \in 1 .. Len(queue),
                    queue[j] \in passed'[queue[i]]
             PROVE  i < j
  BY <1>1, <1>2 DEF Turns
<1>3. queue[i] \in Tasks
  BY DEF RoundInv, IInv, TypeOK
<1>4. ready[queue[i]] /\ queue[j] \in passed[queue[i]]
  BY <1>2, <1>3, NoPollRecorded DEF RoundInv
<1> QED
  BY <1>1, <1>4 DEF RoundInv, Turns

\* A walk that ends is through with everybody: who was polled since a
\* waiting task was marked ready lies behind that task.
LEMMA TurnsExit ==
  ASSUME RoundInv, Records, PumpExit
  PROVE  Turns'
<1>1. \A i \in 1 .. Len(queue) : Past(i) /\ ~Past(i)'
  BY DEF Past, PumpExit, RoundInv, IInv, TypeOK
<1>2. queue' = queue /\ ~(pc = "walk" /\ pc' = "poll")
  BY DEF PumpExit
<1> SUFFICES ASSUME NEW i \in 1 .. Len(queue), NEW j \in 1 .. Len(queue),
                    queue[j] \in passed'[queue[i]]
             PROVE  i < j
  BY <1>1, <1>2 DEF Turns
<1>3. queue[i] \in Tasks
  BY DEF RoundInv, IInv, TypeOK
<1>4. ready[queue[i]] /\ queue[j] \in passed[queue[i]]
  BY <1>2, <1>3, NoPollRecorded DEF RoundInv
<1> QED
  BY <1>1, <1>4 DEF RoundInv, Turns

\* The entry that is passed over is not ready, so it is not the waiting one.
LEMMA TurnsSkip ==
  ASSUME RoundInv, Records, PumpSkip
  PROVE  Turns'
<1>1. /\ pos \in Nat /\ pos \in 1 .. Len(queue) /\ Len(queue) \in Nat
      /\ queue' = queue /\ pc = "walk" /\ pc' = "walk" /\ pos' = pos + 1
      /\ ~ready[queue[pos]]
  BY DEF PumpSkip, RoundInv, IInv, TypeOK, QueueSound, Cur
<1>2. \A i \in 1 .. Len(queue) : Past(i)' <=> (Past(i) \/ i = pos)
  BY <1>1 DEF Past
<1> SUFFICES ASSUME NEW i \in 1 .. Len(queue), NEW j \in 1 .. Len(queue),
                    queue[j] \in passed'[queue[i]]
             PROVE  IF Past(i)' THEN i < j /\ Past(j)' ELSE i < j \/ Past(j)'
  BY <1>1 DEF Turns
<1>3. queue[i] \in Tasks
  BY DEF RoundInv, IInv, TypeOK
<1>4. ready[queue[i]] /\ queue[j] \in passed[queue[i]]
  BY <1>1, <1>3, NoPollRecorded DEF RoundInv
<1>5. i # pos
  BY <1>1, <1>4
<1> QED
  BY <1>2, <1>4, <1>5 DEF RoundInv, Turns

\* A poll starts, of a task the walk is not through with; it is recorded
\* for every waiting one.
LEMMA TurnsPoll ==
  ASSUME RoundInv, Records, PumpPoll
  PROVE  Turns'
<1>1. /\ pos \in Nat /\ pos \in 1 .. Len(queue) /\ Len(queue) \in Nat
      /\ queue' = queue /\ pc = "walk" /\ pc' = "poll" /\ pos' = pos
      /\ queue[pos] \in Tasks
      /\ ready \in [Tasks -> BOOLEAN]
      /\ ready' = [ready EXCEPT ![queue[pos]] = FALSE]
  BY DEF PumpPoll, RoundInv, IInv, TypeOK, QueueSound, Cur
<1>2. \A i \in 1 .. Len(queue) : Past(i)' <=> (Past(i) \/ i = pos)
  BY <1>1 DEF Past
<1> SUFFICES ASSUME NEW i \in 1 .. Len(queue), NEW j \in 1 .. Len(queue),
                    ready'[queue[i]], queue[j] \in passed'[queue[i]]
             PROVE  IF Past(i)' THEN i < j /\ Past(j)' ELSE i < j \/ Past(j)'
  BY <1>1 DEF Turns
<1>3. queue[i] \in Tasks /\ queue[j] \in Tasks
  BY DEF RoundInv, IInv, TypeOK
<1>4. queue[i] # queue[pos] /\ ready[queue[i]]
  BY <1>1, <1>3
<1>5. queue[j] \in passed[queue[i]] \/ queue[j] = queue[pos]
  BY <1>3, <1>4 DEF Records, StartsPoll, Cur
<1>6. i # pos /\ (queue[j] = queue[pos] => j = pos)
  BY <1>1, <1>4 DEF RoundInv, IInv, QueueSound
<1>7. CASE j = pos
  BY <1>1, <1>2, <1>6, <1>7 DEF Past
<1>8. CASE queue[j] \in passed[queue[i]]
  BY <1>2, <1>4, <1>6, <1>8 DEF RoundInv, Turns
<1> QED
  BY <1>5, <1>6, <1>7, <1>8

\* A poll that ends moves the walk on, and the walk is through with as many
\* as before.
LEMMA TurnsPending ==
  ASSUME RoundInv, Records, PollPending
  PROVE  Turns'
<1>1. /\ pos \in Nat /\ Len(queue) \in Nat
      /\ queue' = queue /\ pc = "poll" /\ pc' = "walk" /\ pos' = pos + 1
  BY DEF PollPending, RoundInv, IInv, TypeOK
<1>2. \A i \in 1 .. Len(queue) : Past(i)' <=> Past(i)
  BY <1>1 DEF Past
<1> SUFFICES ASSUME NEW i \in 1 .. Len(queue), NEW j \in 1 .. Len(queue),
                    queue[j] \in passed'[queue[i]]
             PROVE  IF Past(i) THEN i < j /\ Past(j) ELSE i < j \/ Past(j)
  BY <1>1, <1>2 DEF Turns
<1>3. queue[i] \in Tasks
  BY DEF RoundInv, IInv, TypeOK
<1>4. ready[queue[i]] /\ queue[j] \in passed[queue[i]]
  BY <1>1, <1>3, NoPollRecorded DEF RoundInv
<1> QED
  BY <1>4 DEF RoundInv, Turns

\* Unlinking moves the entries behind the walk up, in their order.
LEMMA TurnsReady ==
  ASSUME RoundInv, Records, NEW v \in Values, PollReady(v)
  PROVE  Turns'
<1> DEFINE n == Len(queue)
           Old(i) == IF i < pos THEN i ELSE i + 1
<1>1. /\ n \in Nat /\ pos \in Nat /\ pos \in 1 .. n /\ queue \in Seq(Tasks)
      /\ pc = "poll" /\ pc' = "walk" /\ pos' = pos
      /\ queue' = Unlink(queue, pos)
  BY DEF PollReady, RoundInv, IInv, TypeOK, QueueSound
<1>2. /\ Len(queue') = n - 1
      /\ \A i \in 1 .. n - 1 : queue'[i] = queue[Old(i)]
  BY <1>1, UnlinkFacts
<1>3. \A i \in 1 .. n - 1 : Old(i) \in 1 .. n /\ queue[Old(i)] \in Tasks
  BY <1>1
<1>4. \A i \in 1 .. n - 1 : Past(i)' <=> Past(Old(i))
  BY <1>1 DEF Past
<1>5. \A i, j \in 1 .. n - 1 : i < j <=> Old(i) < Old(j)
  BY <1>1
<1> HIDE DEF n, Old
<1> SUFFICES ASSUME NEW i \in 1 .. n - 1, NEW j \in 1 .. n - 1,
                    queue'[j] \in passed'[queue'[i]]
             PROVE  IF Past(i)' THEN i < j /\ Past(j)' ELSE i < j \/ Past(j)'
  BY <1>2 DEF Turns
<1>6. queue[Old(j)] \in passed'[queue[Old(i)]]
  BY <1>2
<1>7. ready[queue[Old(i)]] /\ queue[Old(j)] \in passed[queue[Old(i)]]
  BY <1>1, <1>3, <1>6, NoPollRecorded DEF RoundInv
<1>8. IF Past(Old(i)) THEN Old(i) < Old(j) /\ Past(Old(j))
                      ELSE Old(i) < Old(j) \/ Past(Old(j))
  BY <1>3, <1>7 DEF RoundInv, Turns, n
<1> QED
  BY <1>4, <1>5, <1>8

\* After a drain there is nobody to wait.
LEMMA TurnsDrain ==
  ASSUME DrainRemaining
  PROVE  Turns'
BY DEF DrainRemaining, Turns

LEMMA TurnsStep ==
  ASSUME RoundInv, MCNext
  PROVE  Turns'
<1>1. Records /\ Next
  BY DEF MCNext, Records
<1>2. ASSUME NEW t \in Tasks, WakeTask(t) \/ HandleDrop(t) PROVE Turns'
  BY <1>1, <1>2, TurnsKept DEF WakeTask, HandleDrop
<1>3. CASE WakeAllTasks
  BY <1>1, <1>3, TurnsKept DEF WakeAllTasks
<1> QED
  BY <1>1, <1>2, <1>3, TurnsSpawn, TurnsDrain, TurnsEnter, TurnsExit,
     TurnsSkip, TurnsPoll, TurnsPending, TurnsReady DEF Next, PumpStep

-----------------------------------------------------------------------------
\* Only what is live is woken or polled, and it stays known.
LEMMA HistoryStep ==
  ASSUME RoundInv, MCNext
  PROVE  History'
<1>1. Records /\ Next
  BY DEF MCNext, Records
<1>2. IInv /\ History
  BY DEF RoundInv
<1>3. passed' \in [Tasks -> SUBSET Tasks]
  BY <1>1, <1>2 DEF Records, History
<1>4. \A t \in Tasks : /\ entry[t] # "none" => entry'[t] # "none"
                       /\ entry'[t] = "none" => ~ready'[t]
  <2>1. ASSUME NEW s \in Tasks, Spawn(s) \/ WakeTask(s) \/ HandleDrop(s),
               NEW t \in Tasks
        PROVE  /\ entry[t] # "none" => entry'[t] # "none"
               /\ entry'[t] = "none" => ~ready'[t]
    BY <1>2, <2>1 DEF Spawn, WakeTask, HandleDrop, IInv, TypeOK, History
  <2>2. CASE WakeAllTasks \/ DrainRemaining
    BY <1>2, <2>2 DEF WakeAllTasks, DrainRemaining, History
  <2>3. CASE PumpEnter \/ PumpSkip \/ PollPending \/ PumpExit
    BY <1>2, <2>3 DEF PumpEnter, PumpSkip, PollPending, PumpExit, History
  <2>4. CASE PumpPoll
    BY <1>2, <2>4 DEF PumpPoll, IInv, TypeOK, History
  <2>5. ASSUME NEW v \in Values, PollReady(v), NEW t \in Tasks
        PROVE  /\ entry[t] # "none" => entry'[t] # "none"
               /\ entry'[t] = "none" => ~ready'[t]
    BY <1>2, <2>5 DEF PollReady, IInv, TypeOK, History
  <2> QED
    BY <1>1, <2>1, <2>2, <2>3, <2>4, <2>5 DEF Next, PumpStep
<1>5. ASSUME NEW u \in Tasks, NEW t \in passed'[u] PROVE entry'[t] # "none"
  <2>1. t \in Tasks
    BY <1>3
  <2>2. CASE ~(pc = "walk" /\ pc' = "poll")
    BY <1>1, <1>2, <1>4, <2>1, <2>2, NoPollRecorded DEF History
  <2>3. CASE pc = "walk" /\ pc' = "poll"
    <3>1. PumpPoll
      BY <1>1, <2>3 DEF Next, PumpStep, Spawn, WakeTask, HandleDrop, WakeAllTasks,
                        DrainRemaining, PumpEnter, PumpSkip, PumpExit, PollPending,
                        PollReady
    <3>2. entry[Cur] = "live"
      BY <1>2, <3>1, CurLive DEF IInv, PumpPoll
    <3>3. t \in passed[u] \/ t = Cur
      BY <1>1 DEF Records, StartsPoll
    <3> QED
      BY <1>2, <1>4, <2>1, <3>2, <3>3 DEF History
  <2> QED
    BY <2>2, <2>3
<1> QED
  BY <1>3, <1>4, <1>5 DEF History

LEMMA RoundInit == MCInit => RoundInv
<1> SUFFICES ASSUME MCInit PROVE RoundInv
  OBVIOUS
<1>1. IInv
  BY InitIInv DEF MCInit
<1>2. History
  BY DEF MCInit, Init, History
<1>3. Turns
  BY DEF MCInit, Init, Turns
<1> QED
  BY <1>1, <1>2, <1>3 DEF RoundInv

LEMMA RoundStep == RoundInv /\ [MCNext]_mcVars => RoundInv'
<1> SUFFICES ASSUME RoundInv, [MCNext]_mcVars PROVE RoundInv'
  OBVIOUS
<1>1. [Next]_schedVars
  BY DEF MCNext, mcVars
<1>2. IInv'
  BY <1>1, NextIInv DEF RoundInv
<1>3. CASE MCNext
  BY <1>2, <1>3, HistoryStep, TurnsStep DEF RoundInv
<1>4. CASE UNCHANGED mcVars
  <2>1. History'
    BY <1>4 DEF RoundInv, History, mcVars, schedVars
  <2>2. Turns'
    BY <1>4 DEF RoundInv, Turns, Past, mcVars, schedVars
  <2> QED
    BY <1>2, <2>1, <2>2 DEF RoundInv
<1> QED
  BY <1>3, <1>4

\* The list, the walk and the history of polls agree in every reachable
\* state.
THEOREM RoundRobinInvariant == MCSpec => []RoundInv
BY RoundInit, RoundStep, PTL DEF MCSpec

\* Round robin, for any number of tasks, spawned, woken, completed and
\* drained in any order: while a task marked ready waits for its poll, no
\* other task is polled twice (ruxen_executor_spawn appends at the tail,
\* ruxen_executor_pump_tasks walks the list from the head to the end).
THEOREM RoundRobinNoOvertaking == MCSpec => NoOvertaking
<1>1. ASSUME RoundInv, NEW t \in Tasks, NEW u \in Tasks,
             StartsPoll(t), Next, ready[u], entry[u] = "live"
      PROVE  t \notin passed[u]
  <2>1. PumpPoll
    BY <1>1 DEF Next, PumpStep, Spawn, WakeTask, HandleDrop, WakeAllTasks,
                DrainRemaining, PumpEnter, PumpSkip, PumpExit, PollPending,
                PollReady, StartsPoll
  <2>2. /\ pc = "walk" /\ pos \in 1 .. Len(queue) /\ queue[pos] = t
        /\ Len(queue) \in Nat
    BY <1>1, <2>1, CurLive DEF PumpPoll, StartsPoll, Cur, RoundInv, IInv, TypeOK
  <2>3. PICK i \in 1 .. Len(queue) : queue[i] = u
    BY <1>1 DEF RoundInv, IInv, QueueSound
  <2>4. ~Past(pos) /\ (pos > i => Past(i))
    BY <2>2, <2>3 DEF Past
  <2>5. CASE u = t
    BY <1>1, <2>2, <2>4, <2>5 DEF RoundInv, Turns
  <2>6. CASE u # t
    BY <1>1, <2>2, <2>3, <2>4, <2>6 DEF RoundInv, Turns
  <2> QED
    BY <2>5, <2>6
<1>2. RoundInv /\ [MCNext]_mcVars =>
        [\A t, u \in Tasks :
           StartsPoll(t) /\ ready[u] /\ entry[u] = "live" => t \notin passed[u]]_mcVars
  BY <1>1 DEF MCNext
<1> QED
  BY <1>2, RoundRobinInvariant, PTL DEF MCSpec, NoOvertaking
=============================================================================
