---------------------------- MODULE ThreadsProofs ----------------------------
(***************************************************************************)
(* For any number of threads, whichever of them lock and whichever try:    *)
(* counting behind a SharedSync[Mutex[Int]] implements TicketDesk, nothing *)
(* is used after it is freed, and nothing is left when all have let go.    *)
(***************************************************************************)
EXTENDS Threads, FiniteSetTheorems, TLAPS

\* The SharedSync handles that are still to be dropped; Nobody stands for
\* that of the main thread, which is no worker.
Sharing == {"start", "locked", "read", "written", "unshare"}
Sharers == {w \in Workers : hpc[w] = "cloned" \/ tpc[w] \in Sharing}
Holders == Sharers \union (IF mainHolds THEN {Nobody} ELSE {})

Counting == refs = Cardinality(Holders)

\* A handle and its thread come to be together.
Born == \A w \in Workers : hpc[w] \in {"none", "cloned"} <=> tpc[w] = "none"

\* The SharedSync is freed by one holder, the last one.
Sharing1 ==
  /\ sharedMem = "freed" => refs = 0 /\ \A w \in Workers : tpc[w] # "freeshared"
  /\ \A w \in Workers : tpc[w] = "freeshared" => refs = 0
  /\ \A v, w \in Workers : tpc[v] = "freeshared" /\ tpc[w] = "freeshared" => v = w
  /\ refs = 0 => sharedMem = "freed" \/ \E w \in Workers : tpc[w] = "freeshared"

\* Who still has a reference to a context.
Handles(w) == hpc[w] \in {"held", "release"}
Running == Sharing \union {"freeshared", "return", "release"}
Runs(w) == tpc[w] \in Running

Contexts == \A w \in Workers :
  /\ ctxRefs[w] = (IF Handles(w) THEN 1 ELSE 0) + (IF Runs(w) THEN 1 ELSE 0)
  /\ Handles(w) \/ Runs(w) => ctxMem[w] = "live"
  /\ hpc[w] = "free" => ctxMem[w] = "live" /\ tpc[w] = "exited"
  /\ tpc[w] = "free" => ctxMem[w] = "live" /\ hpc[w] = "gone"
  /\ hpc[w] = "gone" /\ tpc[w] = "exited" => ctxMem[w] = "freed"
  /\ tpc[w] = "none" => ctxMem[w] = "none"

\* The lock is held by the thread that is between lock and unlock, and what it
\* has read is still there when it writes.
Exclusion == \A w \in Workers :
  /\ lock = w <=> tpc[w] \in {"locked", "read", "written"}
  /\ tpc[w] = "read" => ticket[w] = payload + 1
  /\ tpc[w] \in {"none", "start", "locked"} => ticket[w] = 0

\* What a thread has returned is in its context, and join has read it there.
Results ==
  /\ \A w \in Workers : tpc[w] \in HasReturned => result[w] = ticket[w]
  /\ \A c \in got : tpc[c[1]] = "exited" /\ hpc[c[1]] \notin {"none", "cloned", "held"}

IInv ==
  /\ TypeOK
  /\ Counting
  /\ Born
  /\ Sharing1
  /\ Contexts
  /\ Exclusion
  /\ Results
  /\ NoUseAfterFree

LEMMA HoldersFinite == IsFiniteSet(Holders)
<1>1. IsFiniteSet(Sharers)
  BY ThreadsAssumption, FS_Subset DEF Sharers
<1>2. IsFiniteSet({Nobody}) /\ IsFiniteSet({})
  BY FS_Singleton, FS_EmptySet
<1> QED
  BY <1>1, <1>2, FS_Union DEF Holders

\* The count tells whether there is a holder, and whether it is the last one.
LEMMA CountHolders ==
  ASSUME TypeOK, Counting
  PROVE  /\ refs = 0 <=> Holders = {}
         /\ \A h \in Holders : refs = 1 => Holders = {h}
<1>1. refs = 0 <=> Holders = {}
  BY HoldersFinite, FS_EmptySet DEF Counting
<1>2. ASSUME NEW h \in Holders, refs = 1 PROVE Holders = {h}
  <2>1. \E x : Holders = {x}
    BY <1>2, HoldersFinite, FS_Singleton DEF Counting
  <2> QED
    BY <2>1
<1> QED
  BY <1>1, <1>2

LEMMA SameHolders ==
  ASSUME Counting, refs' = refs, Holders' = Holders
  PROVE  Counting'
  BY DEF Counting

-----------------------------------------------------------------------------
THEOREM ThreadsInit == Init => IInv
<1> SUFFICES ASSUME Init PROVE IInv
  OBVIOUS
<1>1. Holders = {Nobody}
  BY DEF Init, Holders, Sharers, Sharing
<1>2. Counting
  BY <1>1, FS_Singleton DEF Counting, Init
<1>3. TypeOK
  <2>1. lock \in Workers \union {Nobody} /\ got \subseteq Workers \X Nat
    BY DEF Init
  <2>2. /\ ctxRefs \in [Workers -> 0..2] /\ result \in [Workers -> Nat]
        /\ ticket \in [Workers -> Nat]
    BY DEF Init
  <2>3. hpc \in [Workers -> HandleSteps] /\ tpc \in [Workers -> ThreadSteps]
    BY DEF Init, HandleSteps, ThreadSteps
  <2> QED
    BY <2>1, <2>2, <2>3 DEF Init, TypeOK
<1>4. Born /\ Sharing1 /\ Results /\ NoUseAfterFree
  BY DEF Init, Born, Sharing1, Results, HasReturned, NoUseAfterFree
<1>5. Contexts
  BY DEF Init, Contexts, Handles, Runs, Running, Sharing
<1>6. Exclusion
  BY ThreadsAssumption DEF Init, Exclusion
<1> QED
  BY <1>2, <1>3, <1>4, <1>5, <1>6 DEF IInv

\* Each step keeps the flags, or changes them to a comparison's outcome.
LEMMA FlagStep == TypeOK /\ [Next]_vars => mainHolds' \in BOOLEAN /\ uaf' \in BOOLEAN
<1> SUFFICES ASSUME TypeOK, [Next]_vars PROVE mainHolds' \in BOOLEAN /\ uaf' \in BOOLEAN
  OBVIOUS
<1>0. mainHolds \in BOOLEAN /\ uaf \in BOOLEAN
  BY DEF TypeOK
<1>1. mainHolds' = mainHolds \/ mainHolds' = FALSE
  BY DEF Next, Thread, Handle, MainDrops, Clone, Spawn, Join, Detach, HandleRelease,
         HandleFree, Lock, TryLockFails, Get, Set, GuardDrop, Unshare, FreeShared, Return,
         ThreadRelease, ThreadFree, ReleaseCtx, FreeCtx, vars, sharedVars
<1>2. \/ UNCHANGED uaf
      \/ TouchShared
      \/ \E w \in Workers : TouchCtx(w)
  BY DEF Next, Thread, Handle, MainDrops, Clone, Spawn, Join, Detach, HandleRelease,
         HandleFree, Lock, TryLockFails, Get, Set, GuardDrop, Unshare, FreeShared, Return,
         ThreadRelease, ThreadFree, ReleaseCtx, FreeCtx, vars
<1>3. uaf' \in BOOLEAN
  BY <1>0, <1>2, Zenon DEF TouchShared, TouchCtx
<1> QED
  BY <1>0, <1>1, <1>3

LEMMA TypeStep == IInv /\ [Next]_vars => TypeOK'
<1> SUFFICES ASSUME IInv, [Next]_vars PROVE TypeOK'
  OBVIOUS
<1>0. TypeOK /\ Counting /\ Contexts
  BY DEF IInv
<1>f. mainHolds' \in BOOLEAN /\ uaf' \in BOOLEAN
  BY <1>0, FlagStep
<1> USE DEF ThreadAt, HandleAt, HandleSteps, ThreadSteps
<1>1. CASE MainDrops
  <2>1. refs > 0
    BY <1>0, <1>1, CountHolders DEF MainDrops, Holders, TypeOK
  <2> QED
    BY <1>0, <1>1, <1>f, <2>1 DEF TypeOK, MainDrops, ctxVars
<1>2. ASSUME NEW w \in Workers, Clone(w) \/ Spawn(w) \/ Detach(w) PROVE TypeOK'
  BY <1>0, <1>2, <1>f DEF TypeOK, Clone, Spawn, Detach, sharedVars, ctxVars
<1>3. ASSUME NEW w \in Workers, Join(w) PROVE TypeOK'
  BY <1>0, <1>3, <1>f DEF TypeOK, Join, sharedVars, ctxVars
<1>4. ASSUME NEW w \in Workers, HandleRelease(w) PROVE TypeOK'
  <2>1. ctxRefs[w] \in 1..2
    BY <1>0, <1>4 DEF Contexts, HandleRelease, Handles, TypeOK
  <2>2. ctxRefs' \in [Workers -> 0..2]
    BY <1>0, <1>4, <2>1 DEF TypeOK, HandleRelease, ReleaseCtx
  <2> QED
    BY <1>0, <1>4, <1>f, <2>2 DEF TypeOK, HandleRelease, ReleaseCtx, sharedVars
<1>5. ASSUME NEW w \in Workers, HandleFree(w) PROVE TypeOK'
  BY <1>0, <1>5, <1>f DEF TypeOK, HandleFree, FreeCtx, sharedVars
<1>6. ASSUME NEW w \in Workers, Lock(w) \/ TryLockFails(w) PROVE TypeOK'
  BY <1>0, <1>6, <1>f DEF TypeOK, Lock, TryLockFails, sharedVars, ctxVars
<1>7. ASSUME NEW w \in Workers, Get(w) PROVE TypeOK'
  <2>1. ticket' \in [Workers -> Nat]
    BY <1>0, <1>7 DEF TypeOK, Get
  <2> QED
    BY <1>0, <1>7, <1>f, <2>1 DEF TypeOK, Get, sharedVars, ctxVars
<1>8. ASSUME NEW w \in Workers, Set(w) PROVE TypeOK'
  BY <1>0, <1>8, <1>f DEF TypeOK, Set, sharedVars, ctxVars
<1>9. ASSUME NEW w \in Workers, GuardDrop(w) \/ FreeShared(w) PROVE TypeOK'
  BY <1>0, <1>9, <1>f DEF TypeOK, GuardDrop, FreeShared, sharedVars, ctxVars
<1>10. ASSUME NEW w \in Workers, Unshare(w) PROVE TypeOK'
  <2>1. refs > 0
    BY <1>0, <1>10, CountHolders DEF Unshare, Holders, Sharers, Sharing, TypeOK
  <2> QED
    BY <1>0, <1>10, <1>f, <2>1 DEF TypeOK, Unshare, ctxVars
<1>11. ASSUME NEW w \in Workers, Return(w) \/ ThreadFree(w) PROVE TypeOK'
  BY <1>0, <1>11, <1>f DEF TypeOK, Return, ThreadFree, FreeCtx, sharedVars, ctxVars
<1>12. ASSUME NEW w \in Workers, ThreadRelease(w) PROVE TypeOK'
  <2>1. ctxRefs[w] \in 1..2
    BY <1>0, <1>12 DEF Contexts, ThreadRelease, Runs, Running, TypeOK
  <2> QED
    BY <1>0, <1>12, <1>f, <2>1 DEF TypeOK, ThreadRelease, ReleaseCtx, sharedVars
<1>13. CASE UNCHANGED vars
  BY <1>0, <1>13 DEF TypeOK, vars, sharedVars, ctxVars
<1> QED
  BY <1>1, <1>2, <1>3, <1>4, <1>5, <1>6, <1>7, <1>8, <1>9, <1>10, <1>11, <1>12, <1>13
     DEF Next, Thread, Handle

\* The count follows the holders: a clone adds one, a drop takes one away.
LEMMA CountStep == IInv /\ [Next]_vars => Counting'
<1> SUFFICES ASSUME IInv, [Next]_vars PROVE Counting'
  OBVIOUS
<1>0. /\ Counting /\ Born /\ Nobody \notin Workers
      /\ refs \in Nat /\ hpc \in [Workers -> HandleSteps] /\ tpc \in [Workers -> ThreadSteps]
      /\ mainHolds \in BOOLEAN
  BY ThreadsAssumption DEF IInv, TypeOK
<1> USE DEF HandleAt, ThreadAt
<1>1. CASE MainDrops
  <2>1. Nobody \in Holders /\ Holders' = Holders \ {Nobody}
    BY <1>0, <1>1 DEF MainDrops, Holders, Sharers
  <2> QED
    BY <1>0, <1>1, <2>1, HoldersFinite, FS_RemoveElement DEF MainDrops, Counting
<1>2. ASSUME NEW w \in Workers, Clone(w) PROVE Counting'
  <2>1. w \notin Sharers /\ Sharers' = Sharers \union {w}
    BY <1>0, <1>2 DEF Clone, Sharers, Sharing, Born
  <2>2. w \notin Holders /\ Holders' = Holders \union {w}
    BY <1>0, <1>2, <2>1 DEF Clone, Holders
  <2> QED
    BY <1>0, <1>2, <2>2, HoldersFinite, FS_AddElement DEF Clone, Counting
<1>3. ASSUME NEW w \in Workers, Unshare(w) PROVE Counting'
  <2>1. w \in Sharers /\ Sharers' = Sharers \ {w}
    BY <1>0, <1>3 DEF Unshare, Sharers, Sharing, Born
  <2>2. w \in Holders /\ Holders' = Holders \ {w}
    BY <1>0, <1>3, <2>1 DEF Unshare, Holders
  <2> QED
    BY <1>0, <1>3, <2>2, HoldersFinite, FS_RemoveElement DEF Unshare, Counting
<1>4. ASSUME NEW w \in Workers,
             \/ Spawn(w) \/ Join(w) \/ Detach(w) \/ HandleRelease(w) \/ HandleFree(w)
             \/ Lock(w) \/ TryLockFails(w) \/ Get(w) \/ Set(w) \/ GuardDrop(w)
      PROVE  Counting'
  <2>1. Sharers' = Sharers /\ mainHolds' = mainHolds /\ refs' = refs
    BY <1>0, <1>4 DEF Spawn, Join, Detach, HandleRelease, HandleFree, Lock, TryLockFails, Get,
       Set, GuardDrop, ReleaseCtx, FreeCtx, Sharers, Sharing, sharedVars
  <2> QED
    BY <1>0, <2>1, SameHolders DEF Holders
<1>5. ASSUME NEW w \in Workers,
             FreeShared(w) \/ Return(w) \/ ThreadRelease(w) \/ ThreadFree(w)
      PROVE  Counting'
  <2>1. Sharers' = Sharers /\ mainHolds' = mainHolds /\ refs' = refs
    BY <1>0, <1>5 DEF FreeShared, Return, ThreadRelease, ThreadFree, ReleaseCtx, FreeCtx,
       Sharers, Sharing, sharedVars
  <2> QED
    BY <1>0, <2>1, SameHolders DEF Holders
<1>6. CASE UNCHANGED vars
  BY <1>0, <1>6, SameHolders DEF vars, sharedVars, Holders, Sharers
<1> QED
  BY <1>1, <1>2, <1>3, <1>4, <1>5, <1>6 DEF Next, Thread, Handle

LEMMA BornStep == IInv /\ [Next]_vars => Born'
<1> SUFFICES ASSUME IInv, [Next]_vars PROVE Born'
  OBVIOUS
<1>0. Born /\ hpc \in [Workers -> HandleSteps] /\ tpc \in [Workers -> ThreadSteps]
  BY DEF IInv, TypeOK
<1> QED
  BY <1>0 DEF Born, HandleAt, ThreadAt, Next, Thread, Handle, MainDrops, Clone, Spawn, Join, Detach, HandleRelease,
         HandleFree, Lock, TryLockFails, Get, Set, GuardDrop, Unshare, FreeShared, Return,
         ThreadRelease, ThreadFree, ReleaseCtx, FreeCtx, vars

\* Whoever takes the count to 0 was the only holder left, and frees.
LEMMA SharingStep == IInv /\ [Next]_vars => Sharing1'
<1> SUFFICES ASSUME IInv, [Next]_vars PROVE Sharing1'
  OBVIOUS
<1>0. /\ Sharing1 /\ refs \in Nat /\ sharedMem \in {"live", "freed"}
      /\ tpc \in [Workers -> ThreadSteps] /\ mainHolds \in BOOLEAN
      /\ refs = 0 <=> Holders = {}
      /\ \A h \in Holders : refs = 1 => Holders = {h}
  BY CountHolders DEF IInv, TypeOK
<1> USE DEF HandleAt, ThreadAt
<1>1. CASE MainDrops
  <2>1. Nobody \in Holders
    BY <1>1 DEF MainDrops, Holders
  <2>2. refs > 0 /\ sharedMem = "live" /\ \A w \in Workers : tpc[w] # "freeshared"
    BY <1>0, <2>1 DEF Sharing1
  <2> QED
    BY <1>0, <1>1, <2>2 DEF MainDrops, Sharing1
<1>2. ASSUME NEW w \in Workers, Clone(w) PROVE Sharing1'
  <2>1. Nobody \in Holders
    BY <1>2 DEF Clone, Holders
  <2> QED
    BY <1>0, <1>2, <2>1 DEF Clone, Sharing1
<1>3. ASSUME NEW w \in Workers, Unshare(w) PROVE Sharing1'
  <2>1. w \in Holders
    BY <1>3 DEF Unshare, Holders, Sharers, Sharing
  <2>2. refs > 0 /\ sharedMem = "live" /\ \A v \in Workers : tpc[v] # "freeshared"
    BY <1>0, <2>1 DEF Sharing1
  <2> QED
    BY <1>0, <1>3, <2>2 DEF Unshare, Sharing1
<1>4. ASSUME NEW w \in Workers, FreeShared(w) PROVE Sharing1'
  BY <1>0, <1>4 DEF FreeShared, Sharing1
<1>5. ASSUME NEW w \in Workers,
             \/ Spawn(w) \/ Join(w) \/ Detach(w) \/ HandleRelease(w) \/ HandleFree(w)
             \/ Lock(w) \/ TryLockFails(w) \/ Get(w) \/ Set(w) \/ GuardDrop(w)
             \/ Return(w) \/ ThreadRelease(w) \/ ThreadFree(w)
      PROVE  Sharing1'
  <2>1. /\ refs' = refs /\ sharedMem' = sharedMem
        /\ \A v \in Workers : tpc'[v] = "freeshared" <=> tpc[v] = "freeshared"
    BY <1>0, <1>5 DEF Spawn, Join, Detach, HandleRelease, HandleFree, Lock, TryLockFails, Get,
       Set, GuardDrop, Return, ThreadRelease, ThreadFree, ReleaseCtx, FreeCtx, sharedVars
  <2> QED
    BY <1>0, <2>1 DEF Sharing1
<1>6. CASE UNCHANGED vars
  BY <1>0, <1>6 DEF vars, sharedVars, Sharing1
<1> QED
  BY <1>1, <1>2, <1>3, <1>4, <1>5, <1>6 DEF Next, Thread, Handle

\* The context is counted by the handle and by the thread, and is freed by
\* the one that releases it last.
LEMMA ContextStep == IInv /\ [Next]_vars => Contexts'
<1> SUFFICES ASSUME IInv, [Next]_vars PROVE Contexts'
  OBVIOUS
<1>0. /\ Contexts /\ Born
      /\ ctxRefs \in [Workers -> 0..2] /\ ctxMem \in [Workers -> {"none", "live", "freed"}]
      /\ hpc \in [Workers -> HandleSteps] /\ tpc \in [Workers -> ThreadSteps]
  BY DEF IInv, TypeOK
<1> USE DEF HandleAt, ThreadAt, HandleSteps, ThreadSteps, Contexts, Handles, Runs, Running,
            Sharing, Born
<1>1. CASE MainDrops \/ UNCHANGED vars
  BY <1>0, <1>1 DEF MainDrops, vars, ctxVars
<1>2. ASSUME NEW w \in Workers, Clone(w) \/ Join(w) \/ Detach(w) PROVE Contexts'
  BY <1>0, <1>2 DEF Clone, Join, Detach, ctxVars
<1>3. ASSUME NEW w \in Workers, Spawn(w) PROVE Contexts'
  BY <1>0, <1>3 DEF Spawn
<1>4. ASSUME NEW w \in Workers, HandleRelease(w) PROVE Contexts'
  BY <1>0, <1>4 DEF HandleRelease, ReleaseCtx
<1>5. ASSUME NEW w \in Workers, HandleFree(w) PROVE Contexts'
  BY <1>0, <1>5 DEF HandleFree, FreeCtx
<1>6. ASSUME NEW w \in Workers,
             \/ Lock(w) \/ TryLockFails(w) \/ Get(w) \/ Set(w) \/ GuardDrop(w)
             \/ Unshare(w) \/ FreeShared(w)
      PROVE  Contexts'
  <2>1. /\ hpc' = hpc /\ ctxRefs' = ctxRefs /\ ctxMem' = ctxMem
        /\ tpc'[w] \in Running /\ tpc[w] \in Running
        /\ \A v \in Workers \ {w} : tpc'[v] = tpc[v]
    BY <1>0, <1>6 DEF Lock, TryLockFails, Get, Set, GuardDrop, Unshare, FreeShared, ctxVars
  <2> QED
    BY <1>0, <2>1
<1>7. ASSUME NEW w \in Workers, Return(w) PROVE Contexts'
  BY <1>0, <1>7 DEF Return
<1>8. ASSUME NEW w \in Workers, ThreadRelease(w) PROVE Contexts'
  BY <1>0, <1>8 DEF ThreadRelease, ReleaseCtx
<1>9. ASSUME NEW w \in Workers, ThreadFree(w) PROVE Contexts'
  BY <1>0, <1>9 DEF ThreadFree, FreeCtx
<1> QED
  BY <1>1, <1>2, <1>3, <1>4, <1>5, <1>6, <1>7, <1>8, <1>9 DEF Next, Thread, Handle

\* Only the holder of the lock changes the counter.
LEMMA ExclusionStep == IInv /\ [Next]_vars => Exclusion'
<1> SUFFICES ASSUME IInv, [Next]_vars PROVE Exclusion'
  OBVIOUS
<1>0. /\ Exclusion /\ Born /\ Nobody \notin Workers
      /\ payload \in Nat /\ ticket \in [Workers -> Nat]
      /\ hpc \in [Workers -> HandleSteps] /\ tpc \in [Workers -> ThreadSteps]
  BY ThreadsAssumption DEF IInv, TypeOK
<1> USE DEF HandleAt, ThreadAt, Exclusion, Born
<1>1. CASE MainDrops \/ UNCHANGED vars
  BY <1>0, <1>1 DEF MainDrops, vars
<1>2. ASSUME NEW w \in Workers, Handle(w) PROVE Exclusion'
  BY <1>0, <1>2 DEF Handle, Clone, Spawn, Join, Detach, HandleRelease, HandleFree,
                    ReleaseCtx, FreeCtx
<1>3. ASSUME NEW w \in Workers, Lock(w) \/ TryLockFails(w) PROVE Exclusion'
  BY <1>0, <1>3 DEF Lock, TryLockFails
<1>4. ASSUME NEW w \in Workers, Get(w) PROVE Exclusion'
  BY <1>0, <1>4 DEF Get
<1>5. ASSUME NEW w \in Workers, Set(w) PROVE Exclusion'
  BY <1>0, <1>5 DEF Set
<1>6. ASSUME NEW w \in Workers, GuardDrop(w) PROVE Exclusion'
  BY <1>0, <1>6 DEF GuardDrop
<1>7. ASSUME NEW w \in Workers,
             \/ Unshare(w) \/ FreeShared(w) \/ Return(w) \/ ThreadRelease(w) \/ ThreadFree(w)
      PROVE  Exclusion'
  BY <1>0, <1>7 DEF Unshare, FreeShared, Return, ThreadRelease, ThreadFree, ReleaseCtx, FreeCtx
<1> QED
  BY <1>1, <1>2, <1>3, <1>4, <1>5, <1>6, <1>7 DEF Next, Thread

\* A result is written before the thread has ended, and read after.
LEMMA ResultStep == IInv /\ [Next]_vars => Results'
<1> SUFFICES ASSUME IInv, [Next]_vars PROVE Results'
  OBVIOUS
<1>0. /\ Results /\ Born
      /\ got \subseteq Workers \X Nat
      /\ ticket \in [Workers -> Nat] /\ result \in [Workers -> Nat]
      /\ hpc \in [Workers -> HandleSteps] /\ tpc \in [Workers -> ThreadSteps]
  BY DEF IInv, TypeOK
<1> USE DEF HandleAt, ThreadAt, Results, HasReturned, Born
<1>1. CASE MainDrops \/ UNCHANGED vars
  BY <1>0, <1>1 DEF MainDrops, vars, ctxVars
<1>2. ASSUME NEW w \in Workers, Clone(w) \/ Detach(w) PROVE Results'
  BY <1>0, <1>2 DEF Clone, Detach, ctxVars
<1>3. ASSUME NEW w \in Workers, Spawn(w) PROVE Results'
  BY <1>0, <1>3 DEF Spawn
<1>4. ASSUME NEW w \in Workers, Join(w) PROVE Results'
  BY <1>0, <1>4 DEF Join, ctxVars
<1>5. ASSUME NEW w \in Workers, HandleRelease(w) \/ HandleFree(w) PROVE Results'
  BY <1>0, <1>5 DEF HandleRelease, HandleFree, ReleaseCtx, FreeCtx
<1>6. ASSUME NEW w \in Workers,
             \/ Lock(w) \/ TryLockFails(w) \/ Get(w) \/ Set(w) \/ GuardDrop(w)
             \/ Unshare(w) \/ FreeShared(w)
      PROVE  Results'
  BY <1>0, <1>6 DEF Lock, TryLockFails, Get, Set, GuardDrop, Unshare, FreeShared, ctxVars
<1>7. ASSUME NEW w \in Workers, Return(w) \/ ThreadRelease(w) \/ ThreadFree(w) PROVE Results'
  BY <1>0, <1>7 DEF Return, ThreadRelease, ThreadFree, ReleaseCtx, FreeCtx
<1> QED
  BY <1>1, <1>2, <1>3, <1>4, <1>5, <1>6, <1>7 DEF Next, Thread, Handle

\* Whoever touches the SharedSync or a context still has a reference to it.
LEMMA UseStep == IInv /\ [Next]_vars => NoUseAfterFree'
<1> SUFFICES ASSUME IInv, [Next]_vars PROVE NoUseAfterFree'
  OBVIOUS
<1>0. /\ Contexts /\ Sharing1 /\ ~uaf /\ tpc \in [Workers -> ThreadSteps]
      /\ refs = 0 <=> Holders = {}
      /\ hpc \in [Workers -> HandleSteps] /\ sharedMem \in {"live", "freed"}
  BY CountHolders DEF IInv, TypeOK, NoUseAfterFree
<1> USE DEF HandleAt, ThreadAt
<1>1. \/ UNCHANGED uaf
      \/ TouchShared /\ (Holders # {} \/ \E w \in Workers : tpc[w] = "freeshared")
      \/ \E w \in Workers : TouchCtx(w) /\ ctxMem[w] = "live"
  <2>1. MainDrops => TouchShared /\ Holders # {}
    BY DEF MainDrops, Holders
  <2>2. \A w \in Workers : Clone(w) => TouchShared /\ Holders # {}
    BY DEF Clone, Holders
  <2>3. \A w \in Workers :
          \/ Lock(w) \/ TryLockFails(w) \/ Get(w) \/ Set(w) \/ GuardDrop(w) \/ Unshare(w)
          => TouchShared /\ Holders # {}
    BY DEF Lock, TryLockFails, Get, Set, GuardDrop, Unshare, Holders, Sharers, Sharing
  <2>4. \A w \in Workers : FreeShared(w) => TouchShared /\ tpc[w] = "freeshared"
    BY DEF FreeShared
  <2>5. \A w \in Workers : Join(w) \/ HandleRelease(w) \/ HandleFree(w)
          => TouchCtx(w) /\ ctxMem[w] = "live"
    BY <1>0 DEF Join, HandleRelease, HandleFree, ReleaseCtx, FreeCtx, Contexts, Handles
  <2>6. \A w \in Workers : Return(w) \/ ThreadRelease(w) \/ ThreadFree(w)
          => TouchCtx(w) /\ ctxMem[w] = "live"
    BY <1>0 DEF Return, ThreadRelease, ThreadFree, ReleaseCtx, FreeCtx, Contexts, Runs, Running
  <2>7. \A w \in Workers : Spawn(w) \/ Detach(w) => UNCHANGED uaf
    BY DEF Spawn, Detach
  <2>8. UNCHANGED vars => UNCHANGED uaf
    BY DEF vars
  <2> QED
    BY <2>1, <2>2, <2>3, <2>4, <2>5, <2>6, <2>7, <2>8, Zenon DEF Next, Thread, Handle
<1>2. Holders # {} \/ (\E w \in Workers : tpc[w] = "freeshared") => sharedMem = "live"
  BY <1>0 DEF Sharing1
<1> QED
  BY <1>0, <1>1, <1>2, Zenon DEF TouchShared, TouchCtx, NoUseAfterFree

THEOREM ThreadsStep == IInv /\ [Next]_vars => IInv'
  BY TypeStep, CountStep, BornStep, SharingStep, ContextStep, ExclusionStep, ResultStep,
     UseStep DEF IInv

THEOREM ThreadsInvariant == Spec => []IInv
  BY ThreadsInit, ThreadsStep, PTL DEF Spec

-----------------------------------------------------------------------------
(* What follows from the invariant                                         *)

\* Every variable keeps its type: neither count ever goes below 0.
THEOREM ThreadsTypeCorrect == Spec => []TypeOK
<1>1. IInv => TypeOK
  BY DEF IInv
<1> QED
  BY <1>1, ThreadsInvariant, PTL

\* No thread, and not the main one, uses a context or the SharedSync after
\* it was freed, or frees it twice.
THEOREM ThreadsNoUseAfterFree == Spec => []NoUseAfterFree
<1>1. IInv => NoUseAfterFree
  BY DEF IInv
<1> QED
  BY <1>1, ThreadsInvariant, PTL

\* When all have let go, all is freed and the mutex is unlocked.
THEOREM ThreadsNothingLeaks == Spec => []NothingLeaks
<1>1. ASSUME IInv PROVE NothingLeaks
  <2> SUFFICES ASSUME \A w \in Workers :
                        tpc[w] \in {"none", "exited"} /\ hpc[w] \in {"none", "gone"}
               PROVE  /\ lock = Nobody
                      /\ \A w \in Workers : ctxMem[w] # "live"
                      /\ ~mainHolds => sharedMem = "freed"
    BY DEF NothingLeaks
  <2>1. lock = Nobody
    BY <1>1 DEF IInv, TypeOK, Exclusion
  <2>2. \A w \in Workers : ctxMem[w] # "live"
    BY <1>1 DEF IInv, Born, Contexts
  <2>3. ASSUME ~mainHolds PROVE sharedMem = "freed"
    <3>1. Holders = {}
      BY <2>3 DEF Holders, Sharers, Sharing
    <3>2. refs = 0
      BY <1>1, <3>1, CountHolders DEF IInv
    <3> QED
      BY <1>1, <3>2 DEF IInv, Sharing1
  <2> QED
    BY <2>1, <2>2, <2>3
<1> QED
  BY <1>1, ThreadsInvariant, PTL

-----------------------------------------------------------------------------
(* Counting behind the lock implements TicketDesk                          *)

LEMMA DeskInit == Init => Desk!Init
  BY DEF Init, Desk!Init, HasDrawn, HasReturned

LEMMA DeskStep == IInv /\ [Next]_vars => [Desk!Next]_(Desk!vars)
<1> SUFFICES ASSUME IInv, [Next]_vars PROVE [Desk!Next]_(Desk!vars)
  OBVIOUS
<1>0. /\ Exclusion /\ Born /\ Results /\ got \subseteq Workers \X Nat
      /\ payload \in Nat /\ ticket \in [Workers -> Nat]
      /\ hpc \in [Workers -> HandleSteps] /\ tpc \in [Workers -> ThreadSteps]
  BY DEF IInv, TypeOK
<1> USE DEF HandleAt, ThreadAt, HasDrawn, HasReturned
<1>1. ASSUME NEW w \in Workers, Set(w) PROVE Desk!Draw(w)
  BY <1>0, <1>1 DEF Set, Desk!Draw, Exclusion
<1>2. ASSUME NEW w \in Workers, Return(w) PROVE Desk!Finish(w)
  BY <1>0, <1>2 DEF Return, Desk!Finish
<1>3. ASSUME NEW w \in Workers, Join(w) PROVE Desk!Collect(w)
  <2>1. \A c \in got : c[1] # w
    BY <1>0, <1>3 DEF Join, Results
  <2>2. result[w] = ticket[w]
    BY <1>0, <1>3 DEF Join, Results
  <2> QED
    BY <1>0, <1>3, <2>1, <2>2 DEF Join, Desk!Collect
<1>4. ASSUME NEW w \in Workers,
             \/ Clone(w) \/ Spawn(w) \/ Detach(w) \/ HandleRelease(w) \/ HandleFree(w)
             \/ Lock(w) \/ GuardDrop(w)
             \/ Unshare(w) \/ FreeShared(w) \/ ThreadRelease(w) \/ ThreadFree(w)
      PROVE  UNCHANGED Desk!vars
  BY <1>0, <1>4 DEF Clone, Spawn, Detach, HandleRelease, HandleFree, ReleaseCtx, FreeCtx,
     Lock, GuardDrop, Unshare, FreeShared, ThreadRelease, ThreadFree, Desk!vars, Born
<1>5. ASSUME NEW w \in Workers, Get(w) \/ TryLockFails(w) PROVE UNCHANGED Desk!vars
  BY <1>0, <1>5 DEF Get, TryLockFails, Desk!vars, Exclusion
<1>6. CASE MainDrops \/ UNCHANGED vars
  BY <1>6 DEF MainDrops, vars, Desk!vars
<1> QED
  BY <1>1, <1>2, <1>3, <1>4, <1>5, <1>6 DEF Next, Thread, Handle, Desk!Next

\* For any number of threads: a worker that locks, reads, adds one and writes
\* does so in one indivisible step, and join returns what its thread ended with.
THEOREM ThreadsKeepsPromise == Spec => KeepsPromise
  BY DeskInit, DeskStep, ThreadsInvariant, PTL DEF Spec, KeepsPromise, Desk!Spec

=============================================================================
