----------------------------- MODULE MCScheduler -----------------------------
(***************************************************************************)
(* Scheduler for TLC, with a history of who was polled while a task marked *)
(* ready was waiting.                                                      *)
(***************************************************************************)
EXTENDS Scheduler

VARIABLE passed   \* history: the tasks polled since a task was marked ready

mcVars == <<schedVars, passed>>

StartsPoll(t) == pc = "walk" /\ pc' = "poll" /\ Cur = t

MCInit == Init /\ passed = [t \in Tasks |-> {}]

MCNext ==
  /\ Next
  /\ passed' = [u \in Tasks |->
                  IF ready[u] /\ ready'[u]
                    THEN passed[u] \union {t \in Tasks : StartsPoll(t)}
                    ELSE {}]

MCSpec == MCInit /\ [][MCNext]_mcVars /\ WF_mcVars(PumpStep /\ MCNext)

\* Round robin: while a task marked ready waits for its poll, no other task
\* is polled twice.  "Newer tasks land at the end and won't be polled before
\* the existing ones get their fair shake" (ruxen_executor_spawn).
NoOvertaking ==
  [][\A t, u \in Tasks :
       StartsPoll(t) /\ ready[u] /\ entry[u] = "live" => t \notin passed[u]]_mcVars

=============================================================================
