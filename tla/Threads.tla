------------------------------- MODULE Threads -------------------------------
(***************************************************************************)
(* library/std/sync/runtime/thread.c, mutex.c and sharedsync.c, composed   *)
(* the way B10 of std.sync composes them: the main thread keeps a Mutex in *)
(* a SharedSync, clones the handle for every thread it spawns, and joins a *)
(* thread or lets its JoinHandle go.  A worker locks, reads, writes,       *)
(* unlocks, drops its SharedSync handle and returns what it wrote.         *)
(*                                                                         *)
(* A panic aborts the process, so no thread dies holding the lock and the  *)
(* poisoned bit is never set: poisoning is left out.                       *)
(***************************************************************************)
EXTENDS Integers, FiniteSets

CONSTANTS
  Workers,  \* the threads the program may spawn
  Triers,   \* those that call try_lock and give up, the others call lock
  Nobody    \* the holder of a free lock

ASSUME ThreadsAssumption ==
  /\ IsFiniteSet(Workers)
  /\ Triers \subseteq Workers
  /\ Nobody \notin Workers

VARIABLES
  lock,       \* mu
  payload,    \* the Int behind mu
  refs,       \* the refcount of the SharedSync
  sharedMem,  \* the SharedSync: "live" or "freed"
  mainHolds,  \* the main thread still has its SharedSync handle
  ctxRefs,    \* the refcount of each RuxenSpawnCtx
  ctxMem,     \* each RuxenSpawnCtx: "none", "live" or "freed"
  result,     \* ctx->result
  hpc,        \* where the main thread is with each JoinHandle
  tpc,        \* where each thread is
  ticket,     \* what the worker has computed, its return value
  got,        \* the joined threads, with what join returned
  uaf         \* history: a ctx or the SharedSync was used after its free

sharedVars == <<refs, sharedMem, mainHolds>>
ctxVars == <<ctxRefs, ctxMem, result>>
vars == <<lock, payload, sharedVars, ctxVars, hpc, tpc, ticket, got, uaf>>

HandleSteps == {"none", "cloned", "held", "release", "free", "gone"}
ThreadSteps == {"none", "start", "locked", "read", "written", "unshare",
                "freeshared", "return", "release", "free", "exited"}

TypeOK ==
  /\ lock \in Workers \union {Nobody}
  /\ payload \in Nat
  /\ refs \in Nat
  /\ sharedMem \in {"live", "freed"}
  /\ mainHolds \in BOOLEAN
  /\ ctxRefs \in [Workers -> 0..2]
  /\ ctxMem \in [Workers -> {"none", "live", "freed"}]
  /\ result \in [Workers -> Nat]
  /\ hpc \in [Workers -> HandleSteps]
  /\ tpc \in [Workers -> ThreadSteps]
  /\ ticket \in [Workers -> Nat]
  /\ got \subseteq Workers \X Nat
  /\ uaf \in BOOLEAN

\* SharedSync.new(Mutex.new(0)).
Init ==
  /\ lock = Nobody
  /\ payload = 0
  /\ refs = 1
  /\ sharedMem = "live"
  /\ mainHolds = TRUE
  /\ ctxRefs = [w \in Workers |-> 0]
  /\ ctxMem = [w \in Workers |-> "none"]
  /\ result = [w \in Workers |-> 0]
  /\ hpc = [w \in Workers |-> "none"]
  /\ tpc = [w \in Workers |-> "none"]
  /\ ticket = [w \in Workers |-> 0]
  /\ got = {}
  /\ uaf = FALSE

TouchShared == uaf' = (uaf \/ sharedMem = "freed")
TouchCtx(w) == uaf' = (uaf \/ ctxMem[w] = "freed")

ThreadAt(w, from, to) == tpc[w] = from /\ tpc' = [tpc EXCEPT ![w] = to]
HandleAt(w, from, to) == hpc[w] = from /\ hpc' = [hpc EXCEPT ![w] = to]

-----------------------------------------------------------------------------
(* The main thread                                                         *)

\* Mutant: the clone is not counted.
CloneUncounted(w) ==
  /\ mainHolds
  /\ HandleAt(w, "none", "cloned")
  /\ TouchShared
  /\ UNCHANGED <<lock, payload, sharedVars, ctxVars, tpc, ticket, got>>

\* ruxen_sharedsync_clone, for the closure of the thread.
Clone(w) ==
  /\ mainHolds
  /\ HandleAt(w, "none", "cloned")
  /\ refs' = refs + 1
  /\ TouchShared
  /\ UNCHANGED <<lock, payload, sharedMem, mainHolds, ctxVars, tpc, ticket, got>>

\* Mutant: the context belongs to the JoinHandle alone, as before W15.
SpawnUnshared(w) ==
  /\ HandleAt(w, "cloned", "held")
  /\ ThreadAt(w, "none", "start")
  /\ ctxRefs' = [ctxRefs EXCEPT ![w] = 1]
  /\ ctxMem' = [ctxMem EXCEPT ![w] = "live"]
  /\ UNCHANGED <<lock, payload, sharedVars, result, ticket, got, uaf>>

\* ruxen_thread_spawn: one reference for the thread, one for the handle.
Spawn(w) ==
  /\ HandleAt(w, "cloned", "held")
  /\ ThreadAt(w, "none", "start")
  /\ ctxRefs' = [ctxRefs EXCEPT ![w] = 2]
  /\ ctxMem' = [ctxMem EXCEPT ![w] = "live"]
  /\ UNCHANGED <<lock, payload, sharedVars, result, ticket, got, uaf>>

\* Mutant: pthread_join is not called.
JoinAtOnce(w) ==
  /\ HandleAt(w, "held", "release")
  /\ got' = got \union {<<w, result[w]>>}
  /\ TouchCtx(w)
  /\ UNCHANGED <<lock, payload, sharedVars, ctxVars, tpc, ticket>>

\* ruxen_thread_join up to the release: pthread_join waits for the thread.
Join(w) ==
  /\ tpc[w] = "exited"
  /\ HandleAt(w, "held", "release")
  /\ got' = got \union {<<w, result[w]>>}
  /\ TouchCtx(w)
  /\ UNCHANGED <<lock, payload, sharedVars, ctxVars, tpc, ticket>>

\* Mutant: the handle's reference is not given back.
DetachLeaks(w) ==
  /\ HandleAt(w, "held", "gone")
  /\ UNCHANGED <<lock, payload, sharedVars, ctxVars, tpc, ticket, got, uaf>>

\* ruxen_thread_join_handle_drop of a handle that was not joined.
Detach(w) ==
  /\ HandleAt(w, "held", "release")
  /\ UNCHANGED <<lock, payload, sharedVars, ctxVars, tpc, ticket, got, uaf>>

\* ruxen_spawn_ctx_release: the count, and the free by whoever takes it to 0.
ReleaseCtx(w) ==
  /\ ctxRefs' = [ctxRefs EXCEPT ![w] = @ - 1]
  /\ TouchCtx(w)
  /\ UNCHANGED <<lock, payload, sharedVars, ctxMem, result, ticket, got>>

FreeCtx(w) ==
  /\ ctxMem' = [ctxMem EXCEPT ![w] = "freed"]
  /\ TouchCtx(w)
  /\ UNCHANGED <<lock, payload, sharedVars, ctxRefs, result, ticket, got>>

HandleRelease(w) ==
  /\ HandleAt(w, "release", IF ctxRefs[w] = 1 THEN "free" ELSE "gone")
  /\ ReleaseCtx(w)
  /\ UNCHANGED tpc

HandleFree(w) ==
  /\ HandleAt(w, "free", "gone")
  /\ FreeCtx(w)
  /\ UNCHANGED tpc

\* ruxen_sharedsync_drop of the main thread's handle.  If it is the last one
\* nobody is left to come between the count and the free.
MainDrops ==
  /\ mainHolds
  /\ \A w \in Workers : hpc[w] # "cloned"
  /\ mainHolds' = FALSE
  /\ refs' = refs - 1
  /\ sharedMem' = IF refs = 1 THEN "freed" ELSE sharedMem
  /\ TouchShared
  /\ UNCHANGED <<lock, payload, ctxVars, hpc, tpc, ticket, got>>

-----------------------------------------------------------------------------
(* A spawned thread                                                        *)

\* Mutant: EBUSY is taken for success.
LockBusy(w) ==
  /\ ThreadAt(w, "start", "locked")
  /\ lock' = w
  /\ TouchShared
  /\ UNCHANGED <<payload, sharedVars, ctxVars, hpc, ticket, got>>

\* ruxen_mutex_lock, or ruxen_mutex_try_lock that finds the mutex free.
Lock(w) ==
  /\ lock = Nobody
  /\ ThreadAt(w, "start", "locked")
  /\ lock' = w
  /\ TouchShared
  /\ UNCHANGED <<payload, sharedVars, ctxVars, hpc, ticket, got>>

\* ruxen_mutex_try_lock returns 0: there is no guard, and nothing to unlock.
TryLockFails(w) ==
  /\ w \in Triers
  /\ lock # Nobody
  /\ ThreadAt(w, "start", "unshare")
  /\ TouchShared
  /\ UNCHANGED <<lock, payload, sharedVars, ctxVars, hpc, ticket, got>>

\* ruxen_mutex_guard_get, then one added.
Get(w) ==
  /\ ThreadAt(w, "locked", "read")
  /\ ticket' = [ticket EXCEPT ![w] = payload + 1]
  /\ TouchShared
  /\ UNCHANGED <<lock, payload, sharedVars, ctxVars, hpc, got>>

\* ruxen_mutex_guard_set.
Set(w) ==
  /\ ThreadAt(w, "read", "written")
  /\ payload' = ticket[w]
  /\ TouchShared
  /\ UNCHANGED <<lock, sharedVars, ctxVars, hpc, ticket, got>>

\* Mutant: the drop hook does not unlock.
GuardDropKeeps(w) ==
  /\ ThreadAt(w, "written", "unshare")
  /\ TouchShared
  /\ UNCHANGED <<lock, payload, sharedVars, ctxVars, hpc, ticket, got>>

\* ruxen_mutex_guard_drop.
GuardDrop(w) ==
  /\ ThreadAt(w, "written", "unshare")
  /\ lock' = Nobody
  /\ TouchShared
  /\ UNCHANGED <<payload, sharedVars, ctxVars, hpc, ticket, got>>

\* ruxen_sharedsync_drop: the count, and the free by whoever takes it to 0.
Unshare(w) ==
  /\ ThreadAt(w, "unshare", IF refs = 1 THEN "freeshared" ELSE "return")
  /\ refs' = refs - 1
  /\ TouchShared
  /\ UNCHANGED <<lock, payload, sharedMem, mainHolds, ctxVars, hpc, ticket, got>>

FreeShared(w) ==
  /\ ThreadAt(w, "freeshared", "return")
  /\ sharedMem' = "freed"
  /\ TouchShared
  /\ UNCHANGED <<lock, payload, refs, mainHolds, ctxVars, hpc, ticket, got>>

\* The rest of ruxen_thread_trampoline: the result, then the reference.
Return(w) ==
  /\ ThreadAt(w, "return", "release")
  /\ result' = [result EXCEPT ![w] = ticket[w]]
  /\ TouchCtx(w)
  /\ UNCHANGED <<lock, payload, sharedVars, ctxRefs, ctxMem, hpc, ticket, got>>

ThreadRelease(w) ==
  /\ ThreadAt(w, "release", IF ctxRefs[w] = 1 THEN "free" ELSE "exited")
  /\ ReleaseCtx(w)
  /\ UNCHANGED hpc

ThreadFree(w) ==
  /\ ThreadAt(w, "free", "exited")
  /\ FreeCtx(w)
  /\ UNCHANGED hpc

-----------------------------------------------------------------------------
Thread(w) ==
  \/ Lock(w) \/ TryLockFails(w) \/ Get(w) \/ Set(w) \/ GuardDrop(w)
  \/ Unshare(w) \/ FreeShared(w)
  \/ Return(w) \/ ThreadRelease(w) \/ ThreadFree(w)

Handle(w) ==
  \/ Clone(w) \/ Spawn(w) \/ Join(w) \/ Detach(w)
  \/ HandleRelease(w) \/ HandleFree(w)

Next == MainDrops \/ \E w \in Workers : Thread(w) \/ Handle(w)

\* A thread that runs goes on, and so does a call to ruxen_spawn_ctx_release
\* that has begun.
Spec ==
  /\ Init /\ [][Next]_vars
  /\ \A w \in Workers :
       WF_vars(Thread(w)) /\ WF_vars(HandleRelease(w) \/ HandleFree(w))

-----------------------------------------------------------------------------
(* Properties                                                              *)

\* The threads that have added to the counter, and those that have returned.
HasDrawn == {"written", "unshare", "freeshared", "return", "release", "free", "exited"}
HasReturned == {"release", "free", "exited"}

Desk == INSTANCE TicketDesk
          WITH value <- payload,
               ticket <- [w \in Workers |-> IF tpc[w] \in HasDrawn THEN ticket[w] ELSE 0],
               done <- {w \in Workers : tpc[w] \in HasReturned},
               collected <- got

\* Counting behind a SharedSync[Mutex[Int]] implements TicketDesk: get and
\* set under a guard are one indivisible step, whoever locks, tries to lock
\* or returns meanwhile, and join returns what the thread ended with.
KeepsPromise == Desk!Spec

\* Neither the SharedSync, which every handle may outlive, nor the context
\* that a thread shares with a JoinHandle is used, or freed, after its free.
NoUseAfterFree == ~uaf

\* When every thread has ended and every handle has been let go, the contexts
\* and the SharedSync have been freed and the mutex is unlocked.
NothingLeaks ==
  (\A w \in Workers : tpc[w] \in {"none", "exited"} /\ hpc[w] \in {"none", "gone"}) =>
    /\ lock = Nobody
    /\ \A w \in Workers : ctxMem[w] # "live"
    /\ ~mainHolds => sharedMem = "freed"

\* A spawned thread ends, whoever else locks: so every join returns.
ThreadsEnd == \A w \in Workers : tpc[w] = "start" ~> tpc[w] = "exited"
=============================================================================
