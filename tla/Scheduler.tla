------------------------------ MODULE Scheduler ------------------------------
(***************************************************************************)
(* The single-threaded task scheduler of library/std/future/runtime/       *)
(* scheduler.c: the thread-local list of RuxenTaskEntry, the reference     *)
(* counted RuxenTaskHandle shared by the list and the spawner, and the     *)
(* walk of ruxen_executor_pump_tasks over the list.                        *)
(*                                                                         *)
(* What a future does when it is polled (Future_dynamic_poll) is left      *)
(* open here: during a poll the future may spawn, drop handles and wake    *)
(* tasks any number of times, and it then returns Ready or Pending.        *)
(* Module AsyncRuntime fills the polls in.  A waker may also be used from  *)
(* another thread, so WakeTask can happen between any two steps.           *)
(***************************************************************************)
EXTENDS Naturals, Sequences

CONSTANTS
  Tasks,    \* one identity per call of ruxen_executor_spawn
  Values    \* payloads of Poll.Ready

VARIABLES
  queue,      \* t_queue_head and the next pointers: live entries, oldest first
  entry,      \* the RuxenTaskEntry (and its Context) of a task
  ready,      \* RuxenTaskEntry.ready
  handle,     \* the RuxenTaskHandle of a task, and its fields:
  done,       \*   RuxenTaskHandle.done
  result,     \*   RuxenTaskHandle.result
  refcount,   \*   RuxenTaskHandle.refcount
  caller,     \* the spawner's half of the handle
  wakeAll,    \* t_wake_all_pending
  pc,         \* where ruxen_executor_pump_tasks is; # "idle" is t_pump_in_progress
  pos,        \* the walk: cur is queue[pos], prev_link the link before it
  walkAll,    \* the local wake_all of the running pump
  completions,\* the local completions; the result once the pump is back
  owed        \* history: woken, and no poll has started since

handleVars == <<handle, done, result, refcount, caller>>

schedVars == <<queue, entry, ready, handleVars, wakeAll, pc, pos, walkAll,
               completions, owed>>

Memory == {"none", "live", "freed"}

Cur == queue[pos]

\* Mutant: prev_link is one entry too far.
UnlinkNext(q, i) == [j \in 1..(Len(q) - 1) |-> IF j <= i THEN q[j] ELSE q[j + 1]]

\* The list without its i-th entry: *prev_link = cur->next.
Unlink(q, i) == [j \in 1..(Len(q) - 1) |-> IF j < i THEN q[j] ELSE q[j + 1]]

\* One owner lets go of the handle; whoever takes the count to 0 frees it.
Release(t) ==
  /\ refcount' = [refcount EXCEPT ![t] = @ - 1]
  /\ handle' = [handle EXCEPT ![t] = IF refcount[t] = 1 THEN "freed" ELSE @]

TypeOK ==
  /\ queue \in Seq(Tasks)
  /\ entry \in [Tasks -> Memory]
  /\ ready \in [Tasks -> BOOLEAN]
  /\ handle \in [Tasks -> Memory]
  /\ done \in [Tasks -> BOOLEAN]
  /\ result \in [Tasks -> Values \union {0}]
  /\ refcount \in [Tasks -> 0..2]
  /\ caller \in [Tasks -> {"none", "held", "dropped"}]
  /\ wakeAll \in BOOLEAN
  /\ pc \in {"idle", "walk", "poll"}
  /\ pos \in Nat
  /\ walkAll \in BOOLEAN
  /\ completions \in Nat
  /\ owed \in [Tasks -> BOOLEAN]

Init ==
  /\ queue = << >>
  /\ entry = [t \in Tasks |-> "none"]
  /\ ready = [t \in Tasks |-> FALSE]
  /\ handle = [t \in Tasks |-> "none"]
  /\ done = [t \in Tasks |-> FALSE]
  /\ result = [t \in Tasks |-> 0]
  /\ refcount = [t \in Tasks |-> 0]
  /\ caller = [t \in Tasks |-> "none"]
  /\ wakeAll = FALSE
  /\ pc = "idle"
  /\ pos = 1
  /\ walkAll = FALSE
  /\ completions = 0
  /\ owed = [t \in Tasks |-> FALSE]

-----------------------------------------------------------------------------
(* Calls of the program.  They come from the thread that owns the queue:   *)
(* from outside the pump, or from the future the pump is polling.          *)

\* Mutant: the queue's half of the handle is not counted.
SpawnOneOwner(t) ==
  /\ pc \in {"idle", "poll"}
  /\ entry[t] = "none"
  /\ handle' = [handle EXCEPT ![t] = "live"]
  /\ done' = [done EXCEPT ![t] = FALSE]
  /\ result' = [result EXCEPT ![t] = 0]
  /\ refcount' = [refcount EXCEPT ![t] = 1]
  /\ caller' = [caller EXCEPT ![t] = "held"]
  /\ entry' = [entry EXCEPT ![t] = "live"]
  /\ ready' = [ready EXCEPT ![t] = TRUE]
  /\ owed' = [owed EXCEPT ![t] = TRUE]
  /\ queue' = Append(queue, t)
  /\ UNCHANGED <<wakeAll, pc, pos, walkAll, completions>>

\* ruxen_executor_spawn: a handle with two owners, an entry that is ready
\* for its first poll, appended at the tail.
Spawn(t) ==
  /\ pc \in {"idle", "poll"}
  /\ entry[t] = "none"
  /\ handle' = [handle EXCEPT ![t] = "live"]
  /\ done' = [done EXCEPT ![t] = FALSE]
  /\ result' = [result EXCEPT ![t] = 0]
  /\ refcount' = [refcount EXCEPT ![t] = 2]
  /\ caller' = [caller EXCEPT ![t] = "held"]
  /\ entry' = [entry EXCEPT ![t] = "live"]
  /\ ready' = [ready EXCEPT ![t] = TRUE]
  /\ owed' = [owed EXCEPT ![t] = TRUE]
  /\ queue' = Append(queue, t)
  /\ UNCHANGED <<wakeAll, pc, pos, walkAll, completions>>

\* ruxen_executor_wake_task, reached from ruxen_waker_wake on any thread.
WakeTask(t) ==
  /\ entry[t] = "live"
  /\ ready' = [ready EXCEPT ![t] = TRUE]
  /\ owed' = [owed EXCEPT ![t] = TRUE]
  /\ UNCHANGED <<queue, entry, handleVars, wakeAll, pc, pos, walkAll,
                 completions>>

\* ruxen_executor_wake_all_tasks.  Exported, but nothing in the repository
\* calls it.
WakeAllTasks ==
  /\ pc \in {"idle", "poll"}
  /\ wakeAll' = TRUE
  /\ owed' = [t \in Tasks |-> owed[t] \/ entry[t] = "live"]
  /\ UNCHANGED <<queue, entry, ready, handleVars, pc, pos, walkAll,
                 completions>>

\* Mutant: the drop hook can run again.
HandleDropAgain(t) ==
  /\ pc \in {"idle", "poll"}
  /\ caller[t] = "held"
  /\ Release(t)
  /\ UNCHANGED <<queue, entry, ready, done, result, caller, wakeAll, pc, pos,
                 walkAll, completions, owed>>

\* ruxen_task_handle_drop: the spawner's half of the handle, once.
HandleDrop(t) ==
  /\ pc \in {"idle", "poll"}
  /\ caller[t] = "held"
  /\ caller' = [caller EXCEPT ![t] = "dropped"]
  /\ Release(t)
  /\ UNCHANGED <<queue, entry, ready, done, result, wakeAll, pc, pos, walkAll,
                 completions, owed>>

\* ruxen_executor_drain_remaining: every entry goes, with its half of the
\* handle.  Declared to Ruxen code; generated code never calls it.
DrainRemaining ==
  /\ pc = "idle"
  /\ queue # << >>
  /\ refcount' = [t \in Tasks |->
                    IF entry[t] = "live" THEN refcount[t] - 1 ELSE refcount[t]]
  /\ handle' = [t \in Tasks |->
                  IF entry[t] = "live" /\ refcount[t] = 1 THEN "freed"
                                                          ELSE handle[t]]
  /\ entry' = [t \in Tasks |-> IF entry[t] = "live" THEN "freed" ELSE entry[t]]
  /\ queue' = << >>
  /\ UNCHANGED <<ready, done, result, caller, wakeAll, pc, pos, walkAll,
                 completions, owed>>

-----------------------------------------------------------------------------
(* ruxen_executor_pump_tasks.  On an empty list, or from within a poll, it *)
(* returns 0 and changes nothing.                                          *)

\* Mutant: the wake-all request is cleared, and not kept for the walk.
PumpEnterForgets ==
  /\ pc = "idle"
  /\ queue # << >>
  /\ pc' = "walk"
  /\ pos' = 1
  /\ walkAll' = FALSE
  /\ wakeAll' = FALSE
  /\ completions' = 0
  /\ UNCHANGED <<queue, entry, ready, handleVars, owed>>

\* Entry: take the wake-all request, start at the head.
PumpEnter ==
  /\ pc = "idle"
  /\ queue # << >>
  /\ pc' = "walk"
  /\ pos' = 1
  /\ walkAll' = wakeAll
  /\ wakeAll' = FALSE
  /\ completions' = 0
  /\ UNCHANGED <<queue, entry, ready, handleVars, owed>>

\* An entry nobody woke is passed over.
PumpSkip ==
  /\ pc = "walk"
  /\ pos <= Len(queue)
  /\ ~walkAll /\ ~ready[Cur]
  /\ pos' = pos + 1
  /\ UNCHANGED <<queue, entry, ready, handleVars, wakeAll, pc, walkAll,
                 completions, owed>>

\* ready is cleared before Future_dynamic_poll is called.
PumpPoll ==
  /\ pc = "walk"
  /\ pos <= Len(queue)
  /\ walkAll \/ ready[Cur]
  /\ ready' = [ready EXCEPT ![Cur] = FALSE]
  /\ owed' = [owed EXCEPT ![Cur] = FALSE]
  /\ pc' = "poll"
  /\ UNCHANGED <<queue, entry, handleVars, wakeAll, pos, walkAll,
                 completions>>

\* Mutant: ready is cleared when the poll is back.
PollPendingClears ==
  /\ pc = "poll"
  /\ pc' = "walk"
  /\ pos' = pos + 1
  /\ ready' = [ready EXCEPT ![Cur] = FALSE]
  /\ UNCHANGED <<queue, entry, handleVars, wakeAll, walkAll, completions, owed>>

\* Poll.Pending: the entry stays where it is.
PollPending ==
  /\ pc = "poll"
  /\ pc' = "walk"
  /\ pos' = pos + 1
  /\ UNCHANGED <<queue, entry, ready, handleVars, wakeAll, walkAll,
                 completions, owed>>

\* Mutant: after an unlink the walk starts again at the head.
PollReadyRestarts(v) ==
  /\ pc = "poll"
  /\ result' = [result EXCEPT ![Cur] = v]
  /\ done' = [done EXCEPT ![Cur] = TRUE]
  /\ Release(Cur)
  /\ entry' = [entry EXCEPT ![Cur] = "freed"]
  /\ queue' = Unlink(queue, pos)
  /\ completions' = completions + 1
  /\ pc' = "walk"
  /\ pos' = 1
  /\ UNCHANGED <<ready, caller, wakeAll, walkAll, owed>>

\* Poll.Ready(v): publish the result, give up the queue's half of the
\* handle, unlink and free the entry; the walk goes on with its successor.
PollReady(v) ==
  /\ pc = "poll"
  /\ result' = [result EXCEPT ![Cur] = v]
  /\ done' = [done EXCEPT ![Cur] = TRUE]
  /\ Release(Cur)
  /\ entry' = [entry EXCEPT ![Cur] = "freed"]
  /\ queue' = Unlink(queue, pos)
  /\ completions' = completions + 1
  /\ pc' = "walk"
  /\ UNCHANGED <<ready, caller, wakeAll, pos, walkAll, owed>>

\* The end of the list: return completions.
PumpExit ==
  /\ pc = "walk"
  /\ pos > Len(queue)
  /\ pc' = "idle"
  /\ UNCHANGED <<queue, entry, ready, handleVars, wakeAll, pos, walkAll,
                 completions, owed>>

PumpStep == \/ PumpEnter \/ PumpSkip \/ PumpPoll \/ PumpExit
            \/ PollPending \/ \E v \in Values : PollReady(v)

Next ==
  \/ \E t \in Tasks : Spawn(t) \/ WakeTask(t) \/ HandleDrop(t)
  \/ WakeAllTasks
  \/ DrainRemaining
  \/ PumpStep

\* The executor keeps pumping: block_on calls the pump once or twice per
\* iteration, and a poll returns.
Spec == Init /\ [][Next]_schedVars /\ WF_schedVars(PumpStep)

\* ruxen_executor_ready_nonempty.
ReadyNonempty ==
  \/ wakeAll /\ queue # << >>
  \/ \E i \in 1..Len(queue) : ready[queue[i]]

-----------------------------------------------------------------------------
(* Properties                                                              *)

\* The list holds exactly the live entries, each once, and the walk stays
\* inside it: unlinking a completed task and appending a spawned one during
\* the walk never leave pump_tasks on a freed entry.
QueueSound ==
  /\ \A i, j \in 1..Len(queue) : queue[i] = queue[j] => i = j
  /\ \A t \in Tasks : entry[t] = "live" <=> \E i \in 1..Len(queue) : queue[i] = t
  /\ pos \in 1..(Len(queue) + 1) \/ pc = "idle"
  /\ pc = "poll" => pos <= Len(queue)

\* How many of the two, the list and the spawner, own task t's handle.
Owners(t) == IF entry[t] = "live"
               THEN IF caller[t] = "held" THEN 2 ELSE 1
               ELSE IF caller[t] = "held" THEN 1 ELSE 0

\* A handle is alive exactly while the queue or the spawner owns a half of
\* it, and its refcount is the number of owners: pump_tasks and
\* ruxen_executor_drain_remaining never write a freed handle, is_done and
\* result never read one, and it is freed exactly once.
HandleSafety ==
  \A t \in Tasks :
    /\ handle[t] = "live" <=> (entry[t] = "live" \/ caller[t] = "held")
    /\ refcount[t] = Owners(t)

\* A wake that arrives after the poll of its task has started is not lost:
\* the task is ready, or a wake-all request still covers it.
NoLostWake ==
  \A t \in Tasks :
    owed[t] /\ entry[t] = "live" =>
      \/ ready[t]
      \/ wakeAll
      \/ /\ walkAll
         /\ pc # "idle"
         /\ \E i \in 1..Len(queue) :
               queue[i] = t /\ (i > pos \/ (i = pos /\ pc = "walk"))

\* Every wake, and every spawn, is followed by a poll of that task that
\* starts later, unless the queue is drained.
EveryWakeServed ==
  \A t \in Tasks : owed[t] ~> (~owed[t] \/ entry[t] = "freed")

=============================================================================
