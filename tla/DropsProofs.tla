---------------------------- MODULE DropsProofs -----------------------------
(***************************************************************************)
(* Theorems about Drops, for programs of any length, with any number of    *)
(* locals, objects and jumps, in any set of disciplined sublanguages: what *)
(* the lowerer frees on its loop edges and before assignments and what     *)
(* drop elaboration frees at the returns never meet, no run reads, frees   *)
(* or hands over what is not its own, and none leaves an object behind.    *)
(* DropsInvariants holds the invariants the proofs go by.                  *)
(***************************************************************************)
EXTENDS DropsInvariants, SequenceTheorems, FiniteSetTheorems, TLAPS

-----------------------------------------------------------------------------
(* Memory *)

LEMMA Constants ==
  /\ MaxLocals \in Nat \ {0} /\ MaxObjects \in Nat \ {0}
  /\ Locals = 1 .. MaxLocals /\ Objects = 1 .. MaxObjects
  /\ Nil \notin Objects /\ Junk \notin Objects /\ Nil # Junk
BY BoundsAssumption DEF Locals, Objects, Nil, Junk

\* The first of some objects.
LEMMA LeastObject ==
  ASSUME NEW S \in SUBSET Objects, S # {}
  PROVE  \E p \in S : \A q \in S : p <= q
<1> DEFINE Below == {ss \in Nat \X Nat : ss[1] < ss[2]}
<1>1. IsWellFoundedOn(Below, Nat)
  BY NatLessThanWellFounded DEF OpToRel
<1>2. S \subseteq Nat
  BY Constants
<1>3. PICK p \in S : \A q \in S : ~(<<q, p>> \in Below)
  <2> HIDE DEF Below
  <2> QED BY <1>1, <1>2, WFMin
<1>4. ASSUME NEW q \in S, q < p PROVE FALSE
  <2>1. <<q, p>> \in Nat \X Nat /\ <<q, p>>[1] < <<q, p>>[2]
    BY <1>2, <1>4
  <2> QED BY <1>3, <2>1
<1> HIDE DEF Below
<1> QED BY <1>2, <1>4

LEMMA GoodLess ==
  ASSUME NEW m, NEW own, NEW clean, Good(m, own, clean),
         NEW less \in SUBSET own, NEW fewer \in SUBSET (own \cup clean)
  PROVE  Good(m, less, fewer)
BY DEF Good

LEMMA MemoryParts ==
  ASSUME NEW m \in Memory
  PROVE  /\ m.env \in [Locals -> {Nil, Junk} \cup Objects]
         /\ m.heap \in [Objects -> {"unborn", "live", "freed"}]
         /\ m.kept \subseteq Objects /\ m.result \in {Nil, Junk} \cup Objects
         /\ m.fault \in Faults
BY DEF Memory

\* What the changes of a memory that the instructions make leave of it.
LEMMA BlameIs ==
  ASSUME NEW m \in Memory, NEW f \in Faults, NEW n, n = Blame(m, f)
  PROVE  /\ n \in Memory /\ n.fault = f /\ n.env = m.env /\ n.heap = m.heap
         /\ n.kept = m.kept /\ n.result = m.result
BY DEF Memory, Blame

LEMMA StoreIs ==
  ASSUME NEW m \in Memory, NEW x \in Locals, NEW v \in {Nil, Junk} \cup Objects,
         NEW n, Wrote(n, m, x, v)
  PROVE  /\ n \in Memory /\ n.fault = m.fault /\ n.heap = m.heap
         /\ n.env[x] = v /\ \A y \in Locals \ {x} : n.env[y] = m.env[y]
         /\ n.kept = m.kept /\ n.result = m.result
BY DEF Memory, Wrote

LEMMA BirthIs ==
  ASSUME NEW m \in Memory, NEW x \in Locals, NEW o \in Objects,
         NEW n, Born(n, m, x, o)
  PROVE  /\ n \in Memory /\ n.fault = m.fault
         /\ n.env[x] = o /\ \A y \in Locals \ {x} : n.env[y] = m.env[y]
         /\ n.heap[o] = "live" /\ \A p \in Objects \ {o} : n.heap[p] = m.heap[p]
         /\ n.kept = m.kept /\ n.result = m.result
BY DEF Memory, Born

LEMMA ExecAlloc ==
  ASSUME NEW m, NEW own, NEW clean, Good(m, own, clean), NEW x \in Locals
  PROVE  Sound(Exec(m, Alloc(x)), own \cup {x}, clean \cup {x})
<1> DEFINE n == Exec(m, Alloc(x))
           o == Newborn(m)
<1>0. m \in Memory /\ m.fault = "none"
  BY DEF Good
<1>1. CASE Unborn(m) = {}
  <2>1. n = Blame(m, "exhausted")
    BY <1>0, <1>1 DEF Exec, Alloc
  <2> HIDE DEF n
  <2>2. Exhausted(n)
    BY <1>0, <2>1, BlameIs DEF Faults, Exhausted
  <2> QED BY <2>2 DEF Sound, n
<1>2. CASE Unborn(m) # {}
  <2>1. o \in Unborn(m)
    <3>1. PICK p \in Unborn(m) : \A q \in Unborn(m) : p <= q
      BY <1>2, LeastObject DEF Unborn
    <3> QED BY <3>1 DEF Newborn
  <2>2. o \in Objects /\ m.heap[o] = "unborn"
    BY <2>1 DEF Unborn
  <2>3. Born(n, m, x, o)
    BY <1>0, <1>2 DEF Exec, Alloc, Born
  <2> HIDE DEF n, o
  <2>4. /\ n \in Memory /\ n.fault = "none" /\ n.kept = m.kept
        /\ n.env[x] = o /\ \A y \in Locals \ {x} : n.env[y] = m.env[y]
        /\ n.heap[o] = "live" /\ \A p \in Objects \ {o} : n.heap[p] = m.heap[p]
    BY <1>0, <2>2, <2>3, BirthIs
  <2>5. \A y \in own \cup clean : m.env[y] # o
    BY <2>2, Constants DEF Good, Owned
  <2>6. o \notin m.kept
    BY <2>2 DEF Good
  <2>9. Good(n, own \cup {x}, clean \cup {x})
    BY <2>2, <2>4, <2>5, <2>6 DEF Good, Owned, Memory
  <2> QED BY <2>9 DEF Sound, n
<1> QED BY <1>1, <1>2

LEMMA OwnedReads ==
  ASSUME NEW m \in Memory, NEW x \in Locals, Owned(m, x)
  PROVE  ReadFault(m, m.env[x]) = "none"
BY Constants DEF ReadFault, Owned

LEMMA MoveIs ==
  ASSUME NEW m \in Memory, NEW d \in Locals, NEW s \in Locals \ {d},
         NEW n, Moved(n, m, d, s)
  PROVE  /\ n \in Memory /\ n.fault = m.fault /\ n.heap = m.heap
         /\ n.env[d] = m.env[s] /\ n.env[s] = Nil
         /\ \A y \in Locals \ {d, s} : n.env[y] = m.env[y]
         /\ n.kept = m.kept /\ n.result = m.result
BY DEF Memory, Moved

LEMMA ExecMove ==
  ASSUME NEW m, NEW own, NEW clean, Good(m, own, clean),
         NEW d \in Locals, NEW s \in own \ {d}
  PROVE  Sound(Exec(m, Move(d, s)), (own \ {s}) \cup {d}, clean \cup {s, d})
<1>0. m \in Memory /\ m.fault = "none" /\ s \in Locals /\ Owned(m, s)
  BY DEF Good
<1>1. ReadFault(m, m.env[s]) = "none"
  BY <1>0, OwnedReads
<1>2. PICK n : n = Exec(m, Move(d, s)) OBVIOUS
<1>3. Moved(n, m, d, s)
  BY <1>0, <1>1, <1>2 DEF Exec, Move, Moved
<1>4. /\ n \in Memory /\ n.fault = "none" /\ n.heap = m.heap /\ n.kept = m.kept
      /\ n.env[d] = m.env[s] /\ n.env[s] = Nil
      /\ \A y \in Locals \ {d, s} : n.env[y] = m.env[y]
  BY <1>0, <1>3, MoveIs
<1>5. Owned(n, d) /\ \A y \in own \ {s, d} : Owned(n, y)
  BY <1>0, <1>4 DEF Good, Owned
<1>6. \A y \in clean \ {s, d} : n.env[y] = Nil \/ Owned(n, y)
  BY <1>4 DEF Good, Owned
<1>7. \A y \in (own \cup clean) \ {s, d} : n.env[y] # n.env[d]
  BY <1>0, <1>4, Constants DEF Good, Owned
<1>8. \A y, z \in (own \cup clean) \ {s, d} :
        y # z /\ n.env[y] = n.env[z] => n.env[y] = Nil
  BY <1>4 DEF Good
<1>9. Good(n, (own \ {s}) \cup {d}, clean \cup {s, d})
  <2>1. (own \ {s}) \cup {d} \subseteq Locals /\ clean \cup {s, d} \subseteq Locals
    BY <1>0 DEF Good
  <2>2. \A o \in n.kept : n.heap[o] = "live"
    BY <1>4 DEF Good
  <2>3. \A y, z \in ((own \ {s}) \cup {d}) \cup (clean \cup {s, d}) :
          y # z /\ n.env[y] = n.env[z] => n.env[y] = Nil
    BY <1>4, <1>7, <1>8
  <2> QED BY <1>4, <1>5, <1>6, <2>1, <2>2, <2>3 DEF Good
<1> QED BY <1>2, <1>9 DEF Sound

LEMMA ExecAssign ==
  ASSUME NEW m, NEW own, NEW clean, Good(m, own, clean),
         NEW d \in Locals, NEW s \in own \ {d}
  PROVE  Sound(Exec(m, Assign(d, s)), (own \ {s}) \cup {d}, (clean \ {s}) \cup {d})
<1>0. m \in Memory /\ m.fault = "none" /\ s \in Locals /\ Owned(m, s)
  BY DEF Good
<1>1. ReadFault(m, m.env[s]) = "none" /\ m.env[s] \in {Nil, Junk} \cup Objects
  BY <1>0, OwnedReads, MemoryParts
<1>2. PICK n : n = Exec(m, Assign(d, s)) OBVIOUS
<1>3. Wrote(n, m, d, m.env[s])
  BY <1>0, <1>1, <1>2 DEF Exec, Assign, Wrote
<1>4. /\ n \in Memory /\ n.fault = "none" /\ n.heap = m.heap /\ n.kept = m.kept
      /\ n.env[d] = m.env[s] /\ \A y \in Locals \ {d} : n.env[y] = m.env[y]
  BY <1>0, <1>1, <1>3, StoreIs
<1>5. Owned(n, d) /\ \A y \in own \ {s, d} : Owned(n, y)
  BY <1>0, <1>4 DEF Good, Owned
<1>6. \A y \in clean \ {s, d} : n.env[y] = Nil \/ Owned(n, y)
  BY <1>4 DEF Good, Owned
<1>7. \A y \in (own \cup clean) \ {s, d} : n.env[y] # n.env[d]
  BY <1>0, <1>4, Constants DEF Good, Owned
<1>8. \A y, z \in (own \cup clean) \ {s, d} :
        y # z /\ n.env[y] = n.env[z] => n.env[y] = Nil
  BY <1>4 DEF Good
<1>9. Good(n, (own \ {s}) \cup {d}, (clean \ {s}) \cup {d})
  <2>1. (own \ {s}) \cup {d} \subseteq Locals /\ (clean \ {s}) \cup {d} \subseteq Locals
    BY <1>0 DEF Good
  <2>2. \A o \in n.kept : n.heap[o] = "live"
    BY <1>4 DEF Good
  <2>3. \A y, z \in ((own \ {s}) \cup {d}) \cup ((clean \ {s}) \cup {d}) :
          y # z /\ n.env[y] = n.env[z] => n.env[y] = Nil
    BY <1>4, <1>7, <1>8
  <2> QED BY <1>4, <1>5, <1>6, <2>1, <2>2, <2>3 DEF Good
<1> QED BY <1>2, <1>9 DEF Sound

LEMMA KeepIs ==
  ASSUME NEW m \in Memory, NEW v \in Objects, NEW n, Kept(n, m, v)
  PROVE  /\ n \in Memory /\ n.fault = m.fault /\ n.heap = m.heap
         /\ n.env = m.env /\ n.kept = m.kept \cup {v} /\ n.result = m.result
BY DEF Memory, Kept

LEMMA ExecGive ==
  ASSUME NEW m, NEW own, NEW clean, Good(m, own, clean),
         NEW x \in own, NEW how \in GivingOps
  PROVE  Sound(Exec(m, Give(x, how)), own \ {x}, clean \ {x})
<1>0. m \in Memory /\ m.fault = "none" /\ x \in Locals /\ Owned(m, x)
  BY DEF Good
<1>1. ReadFault(m, m.env[x]) = "none" /\ m.env[x] \in Objects
  BY <1>0, OwnedReads DEF Owned
<1>2. PICK n : n = Exec(m, Give(x, how)) OBVIOUS
<1>3. Kept(n, m, m.env[x])
  <2>1. how \notin {"alloc", "free", "assign", "move"}
    BY DEF GivingOps
  <2> QED BY <1>0, <1>1, <1>2, <2>1 DEF Exec, Give, Kept
<1>4. /\ n \in Memory /\ n.fault = "none" /\ n.heap = m.heap /\ n.env = m.env
      /\ n.kept = m.kept \cup {m.env[x]}
  BY <1>0, <1>1, <1>3, KeepIs
<1>5. \A y \in (own \cup clean) \ {x} : m.env[y] # m.env[x]
  BY <1>0, <1>1, Constants DEF Good
<1>6. Good(n, own \ {x}, clean \ {x})
  BY <1>0, <1>4, <1>5 DEF Good, Owned
<1> QED BY <1>2, <1>6 DEF Sound

-----------------------------------------------------------------------------
(* Freeing and clearing *)

LEMMA FreeIs ==
  ASSUME NEW m \in Memory, NEW held, NEW n, FreedIn(n, m, held)
  PROVE  /\ n \in Memory /\ n.fault = m.fault /\ n.env = m.env
         /\ n.kept = m.kept /\ n.result = m.result
         /\ \A o \in Objects : n.heap[o] = IF o \in held THEN "freed" ELSE m.heap[o]
BY DEF Memory, FreedIn

LEMMA FreedGood ==
  ASSUME NEW m, NEW own, NEW clean, Good(m, own, clean),
         NEW xs \in SUBSET (own \cup clean)
  PROVE  /\ Good(Freed(m, xs), own \ xs, clean \ xs)
         /\ Freed(m, xs).env = m.env /\ Freed(m, xs).result = m.result
<1> DEFINE held == {m.env[x] : x \in xs} \ {Nil}
<1>0. m \in Memory /\ m.fault = "none" /\ xs \subseteq Locals
  BY DEF Good
<1>1. \A x \in xs : m.env[x] = Nil \/ Owned(m, x)
  BY DEF Good
<1>2. \A o \in held : o \in Objects /\ m.heap[o] = "live" /\ o \notin m.kept
  BY <1>1 DEF Owned
<1>3. ~ \E x, y \in xs : x # y /\ m.env[x] = m.env[y] /\ m.env[x] # Nil
  BY DEF Good
<1>4. PICK n : n = Freed(m, xs) OBVIOUS
<1>5. FreedIn(n, m, held)
  <2>1. Junk \notin held
    BY <1>2, Constants
  <2>2. ~ \E o \in held : m.heap[o] = "freed"
    BY <1>2
  <2> QED BY <1>0, <1>3, <1>4, <2>1, <2>2 DEF Freed, FreedIn
<1>6. /\ n \in Memory /\ n.fault = "none" /\ n.env = m.env
      /\ n.kept = m.kept /\ n.result = m.result
      /\ \A o \in Objects : n.heap[o] = IF o \in held THEN "freed" ELSE m.heap[o]
  <2> HIDE DEF held
  <2> QED BY <1>0, <1>5, FreeIs
<1>7. \A y \in (own \cup clean) \ xs : m.env[y] = Nil \/ m.env[y] \notin held
  BY DEF Good
<1>8. \A y \in (own \cup clean) \ xs : Owned(m, y) => Owned(n, y)
  <2> HIDE DEF held
  <2> QED BY <1>6, <1>7, Constants DEF Owned
<1>9. \A o \in n.kept : n.heap[o] = "live"
  <2>1. \A o \in m.kept : o \in Objects /\ o \notin held /\ m.heap[o] = "live"
    BY <1>0, <1>2, MemoryParts DEF Good
  <2> HIDE DEF held
  <2> QED BY <1>6, <2>1
<1> HIDE DEF held
<1>10. Good(n, own \ xs, clean \ xs)
  BY <1>6, <1>8, <1>9 DEF Good
<1> QED BY <1>4, <1>6, <1>10

LEMMA ClearIs ==
  ASSUME NEW m \in Memory, NEW xs, NEW n, ClearedIn(n, m, xs)
  PROVE  /\ n \in Memory /\ n.fault = m.fault /\ n.heap = m.heap
         /\ n.kept = m.kept /\ n.result = m.result
         /\ \A x \in Locals : n.env[x] = IF x \in xs THEN Nil ELSE m.env[x]
BY DEF Memory, ClearedIn

LEMMA ClearedGood ==
  ASSUME NEW m, NEW own, NEW clean, Good(m, own, clean),
         NEW xs \in SUBSET Locals, own \cap xs = {}
  PROVE  Good(Cleared(m, xs), own, clean \cup xs)
<1>0. m \in Memory /\ m.fault = "none"
  BY DEF Good
<1>1. PICK n : n = Cleared(m, xs) OBVIOUS
<1>2. ClearedIn(n, m, xs)
  BY <1>1 DEF Cleared, ClearedIn
<1>3. /\ n \in Memory /\ n.fault = "none" /\ n.heap = m.heap /\ n.kept = m.kept
      /\ \A x \in Locals : n.env[x] = IF x \in xs THEN Nil ELSE m.env[x]
  BY <1>0, <1>2, ClearIs
<1>4. Good(n, own, clean \cup xs)
  BY <1>3 DEF Good, Owned
<1> QED BY <1>1, <1>4

LEMMA ExhaustedStays ==
  ASSUME NEW m, Exhausted(m), NEW i, NEW xs
  PROVE  /\ Exec(m, i) = m /\ Freed(m, xs) = m
         /\ Exhausted(Cleared(m, xs))
<1>1. Exec(m, i) = m /\ Freed(m, xs) = m
  BY DEF Exec, Freed, Exhausted
<1>2. PICK n : n = Cleared(m, xs) OBVIOUS
<1>3. ClearedIn(n, m, xs)
  BY <1>2 DEF Cleared, ClearedIn
<1>4. Exhausted(n)
  BY <1>3, ClearIs DEF Exhausted
<1> QED BY <1>1, <1>2, <1>4

-----------------------------------------------------------------------------
(* Recursion *)

\* A set of numbers with 0 and every successor has all of them.
LEMMA NatIn ==
  ASSUME NEW K, 0 \in K, \A k \in Nat : k \in K => k + 1 \in K
  PROVE  Nat \subseteq K
<1> DEFINE Below == {ss \in Nat \X Nat : ss[1] < ss[2]}
           Out == Nat \ K
<1>1. IsWellFoundedOn(Below, Nat)
  BY NatLessThanWellFounded DEF OpToRel
<1>2. ASSUME Out # {} PROVE FALSE
  <2>1. PICK k \in Out : \A j \in Out : ~(<<j, k>> \in Below)
    <3> HIDE DEF Below
    <3>1. Out \subseteq Nat OBVIOUS
    <3> HIDE DEF Out
    <3> QED BY <1>1, <1>2, <3>1, WFMin
  <2>2. k # 0 /\ k \in Nat OBVIOUS
  <2>3. k - 1 \in Nat /\ (k - 1) + 1 = k /\ k - 1 < k
    BY <2>2
  <2>4. k - 1 \notin Out
    BY <2>1, <2>2, <2>3
  <2> QED BY <2>2, <2>3, <2>4
<1> QED BY <1>2

LEMMA ExecutedIs ==
  ASSUME NEW m, NEW b, Len(b.ins) \in Nat
  PROVE  \E f : /\ f[0] = Cleared(m, b.clears)
                /\ \A i \in 1 .. Len(b.ins) : f[i] = Exec(f[i - 1], b.ins[i])
                /\ Executed(m, b) = Cleared(Freed(f[Len(b.ins)], b.frees), b.frees)
<1> DEFINE K == {n \in Nat : \E f : States(f, m, b, n)}
<1>1. 0 \in K
  <2> DEFINE f == [i \in 0 .. 0 |-> Cleared(m, b.clears)]
  <2>1. f = [i \in 0 .. 0 |-> StateAt(f, m, b, i)]
    <3>1. \A i \in 0 .. 0 : StateAt(f, m, b, i) = Cleared(m, b.clears)
      BY DEF StateAt
    <3> QED BY <3>1
  <2> HIDE DEF f
  <2>2. States(f, m, b, 0)
    BY <2>1 DEF States
  <2> QED BY <2>2
<1>2. ASSUME NEW n \in Nat, n \in K PROVE n + 1 \in K
  <2>1. PICK f : States(f, m, b, n)
    BY <1>2
  <2> DEFINE g == [i \in 0 .. n + 1 |-> StateAt(f, m, b, i)]
  <2>2. \A i \in 0 .. n : g[i] = f[i]
    BY <2>1 DEF States
  <2>3. \A i \in 0 .. n + 1 : g[i] = StateAt(f, m, b, i) OBVIOUS
  <2>4. g = [i \in 0 .. n + 1 |-> g[i]] OBVIOUS
  <2> HIDE DEF g
  <2>5. ASSUME NEW i \in 0 .. n + 1 PROVE g[i] = StateAt(g, m, b, i)
    <3>1. CASE i = 0
      BY <2>3, <3>1 DEF StateAt
    <3>2. CASE i # 0
      <4>1. i - 1 \in 0 .. n
        BY <3>2
      <4> QED BY <2>2, <2>3, <4>1 DEF StateAt
    <3> QED BY <3>1, <3>2
  <2>6. g = [i \in 0 .. n + 1 |-> StateAt(g, m, b, i)]
    BY <2>4, <2>5
  <2>7. States(g, m, b, n + 1)
    BY <2>6 DEF States
  <2> QED BY <2>7
<1> HIDE DEF K
<1>3. Len(b.ins) \in K
  BY <1>1, <1>2, NatIn
<1>4. \E f : States(f, m, b, Len(b.ins))
  BY <1>3 DEF K
<1> DEFINE after == CHOOSE f : States(f, m, b, Len(b.ins))
<1>5. Executed(m, b) = Cleared(Freed(after[Len(b.ins)], b.frees), b.frees)
  BY DEF Executed, States, StateAt
<1> HIDE DEF after
<1>6. States(after, m, b, Len(b.ins))
  BY <1>4 DEF after
<1>7. \A i \in 0 .. Len(b.ins) : after[i] = StateAt(after, m, b, i)
  BY <1>6 DEF States
<1>8. after[0] = Cleared(m, b.clears)
  BY <1>7 DEF StateAt
<1>9. \A i \in 1 .. Len(b.ins) : after[i] = Exec(after[i - 1], b.ins[i])
  BY <1>7 DEF StateAt
<1> QED BY <1>5, <1>8, <1>9

-----------------------------------------------------------------------------
(* Blocks *)

LEMMA InstructionsAre ==
  ASSUME NEW x \in Locals, NEW y \in Locals, NEW how \in GivingOps
  PROVE  /\ Alloc(x) \in Instructions /\ Assign(x, y) \in Instructions
         /\ Move(x, y) \in Instructions /\ Dealloc(x) \in Instructions
         /\ Give(x, how) \in Instructions
BY DEF Alloc, Assign, Move, Dealloc, Give, Instructions, Ops

LEMMA BlockParts ==
  ASSUME NEW bs \in Seq(Blocks), NEW b \in DOMAIN bs
  PROVE  /\ bs[b] \in Blocks /\ bs[b].ins \in Seq(Instructions)
         /\ Len(bs[b].ins) \in Nat /\ DOMAIN bs[b].ins = 1 .. Len(bs[b].ins)
         /\ bs[b].clears \subseteq Locals /\ bs[b].frees \subseteq Locals
         /\ bs[b].term \in Terminators
<1>1. bs[b] \in Blocks
  BY ElementOfSeq
<1>2. bs[b].ins \in Seq(Instructions) /\ bs[b].clears \subseteq Locals /\ bs[b].frees \subseteq Locals
         /\ bs[b].term \in Terminators
  BY <1>1 DEF Blocks
<1> QED BY <1>1, <1>2

LEMMA EmitIs ==
  ASSUME NEW bs \in Seq(Blocks), NEW b \in DOMAIN bs,
         NEW is \in Seq(Instructions), NEW new, new = Emit(bs, b, is)
  PROVE  new \in Seq(Blocks) /\ Grows(new, bs, b, is)
<1>1. PICK old : old = bs[b].ins OBVIOUS
<1>2. old \in Seq(Instructions) /\ bs[b] \in Blocks
  BY <1>1, BlockParts
<1>3. PICK more : more = old \o is OBVIOUS
<1>4. /\ more \in Seq(Instructions) /\ Len(more) = Len(old) + Len(is)
      /\ \A i \in DOMAIN old : more[i] = old[i]
      /\ \A j \in DOMAIN is : more[Len(old) + j] = is[j]
  BY <1>2, <1>3
<1>5. PICK blk : blk = [bs[b] EXCEPT !.ins = more] OBVIOUS
<1>6. /\ blk \in Blocks /\ blk.ins = more /\ blk.clears = bs[b].clears
      /\ blk.frees = bs[b].frees /\ blk.term = bs[b].term
  BY <1>2, <1>4, <1>5 DEF Blocks
<1>7. new = [bs EXCEPT ![b] = blk]
  BY <1>1, <1>3, <1>5 DEF Emit
<1>8. /\ DOMAIN new = DOMAIN bs /\ new[b] = blk
      /\ \A c \in DOMAIN bs \ {b} : new[c] = bs[c]
  BY <1>7
<1>9. new \in Seq(Blocks)
  BY <1>6, <1>7
<1> QED BY <1>1, <1>4, <1>6, <1>8, <1>9 DEF Grows

-----------------------------------------------------------------------------
(* What a block makes of what is known where it starts *)

LEMMA LeadsOne ==
  ASSUME NEW i \in Instructions, NEW own, NEW clean, NEW own2, NEW clean2,
         \A m : Good(m, own, clean) => Sound(Exec(m, i), own2, clean2)
  PROVE  Leads(<<i>>, own, clean, own2, clean2)
<1> SUFFICES ASSUME NEW f, Sound(f[0], own, clean), Steps(f, <<i>>)
             PROVE  Sound(f[1], own2, clean2)
  BY DEF Leads
<1>1. f[1] = Exec(f[0], i)
  BY DEF Steps
<1>2. CASE Exhausted(f[0])
  BY <1>1, <1>2, ExhaustedStays DEF Sound
<1>3. CASE Good(f[0], own, clean)
  BY <1>1, <1>3
<1> QED BY <1>2, <1>3 DEF Sound

LEMMA LeadsTwo ==
  ASSUME NEW i \in Instructions, NEW j \in Instructions,
         NEW own, NEW clean, NEW own1, NEW clean1, NEW own2, NEW clean2,
         Leads(<<i>>, own, clean, own1, clean1),
         Leads(<<j>>, own1, clean1, own2, clean2)
  PROVE  Leads(<<i, j>>, own, clean, own2, clean2)
<1> SUFFICES ASSUME NEW f, Sound(f[0], own, clean), Steps(f, <<i, j>>)
             PROVE  Sound(f[2], own2, clean2)
  BY DEF Leads
<1>1. f[1] = Exec(f[0], i) /\ f[2] = Exec(f[1], j)
  BY DEF Steps
<1>2. Sound(f[1], own1, clean1)
  <2>1. Steps(f, <<i>>)
    BY <1>1 DEF Steps
  <2> QED BY <2>1 DEF Leads
<1>3. PICK g : g = [k \in 0 .. 1 |-> f[k + 1]] OBVIOUS
<1>4. g[0] = f[1] /\ g[1] = f[2]
  BY <1>3
<1>5. Steps(g, <<j>>)
  BY <1>1, <1>4 DEF Steps
<1>6. Sound(g[1], own2, clean2)
  BY <1>2, <1>4, <1>5 DEF Leads
<1> QED BY <1>4, <1>6

LEMMA LeadsLess ==
  ASSUME NEW is, NEW own, NEW clean, NEW own2, NEW clean2,
         Leads(is, own, clean, own2, clean2),
         NEW less \in SUBSET own2, NEW fewer \in SUBSET (own2 \cup clean2)
  PROVE  Leads(is, own, clean, less, fewer)
BY GoodLess DEF Leads, Sound

LEMMA SatLess ==
  ASSUME NEW m, NEW k, NEW less, NEW w, Sat(m, k, w),
         less.own \subseteq k.own, less.clean \subseteq k.own \cup k.clean
  PROVE  Sat(m, less, w)
BY GoodLess DEF Sat

LEMMA YieldsGrow ==
  ASSUME NEW bs \in Seq(Blocks), NEW new, NEW b \in DOMAIN bs, NEW is \in Seq(Instructions),
         Grows(new, bs, b, is),
         NEW k, NEW w, NEW own, NEW clean, Yields(bs[b], k, w, own, clean),
         NEW own2, NEW clean2, Leads(is, own, clean, own2, clean2)
  PROVE  Yields(new[b], k, w, own2, clean2)
<1> DEFINE L == Len(bs[b].ins)
           M == Len(is)
<1>0. L \in Nat /\ M \in Nat /\ DOMAIN bs[b].ins = 1 .. L /\ DOMAIN is = 1 .. M
  BY BlockParts
<1>1. Len(new[b].ins) = L + M
  BY DEF Grows
<1> SUFFICES ASSUME NEW f, Sat(f[0], k, w), Steps(f, new[b].ins)
             PROVE  Sound(f[L + M], own2, clean2)
  BY <1>1 DEF Yields
<1>2. Sound(f[L], own, clean)
  <2>1. Steps(f, bs[b].ins)
    <3> SUFFICES ASSUME NEW j \in 1 .. L PROVE f[j] = Exec(f[j - 1], bs[b].ins[j])
      BY DEF Steps
    <3>1. j \in 1 .. L + M
      BY <1>0
    <3>2. f[j] = Exec(f[j - 1], new[b].ins[j])
      BY <1>1, <3>1 DEF Steps
    <3>3. new[b].ins[j] = bs[b].ins[j]
      BY <1>0 DEF Grows
    <3> QED BY <3>2, <3>3
  <2> QED BY <2>1 DEF Yields
<1>3. PICK g : g = [j \in 0 .. M |-> f[L + j]] OBVIOUS
<1>4. Steps(g, is)
  <2> SUFFICES ASSUME NEW j \in 1 .. M PROVE g[j] = Exec(g[j - 1], is[j])
    BY DEF Steps
  <2>1. L + j \in 1 .. L + M /\ (L + j) - 1 = L + (j - 1) /\ j - 1 \in 0 .. M /\ j \in 0 .. M
    BY <1>0
  <2>2. f[L + j] = Exec(f[(L + j) - 1], new[b].ins[L + j])
    BY <1>1, <2>1 DEF Steps
  <2>3. new[b].ins[L + j] = is[j]
    BY <1>0 DEF Grows
  <2> HIDE DEF L, M
  <2> QED BY <1>3, <2>1, <2>2, <2>3
<1>5. g[0] = f[L] /\ g[M] = f[L + M]
  <2> HIDE DEF L, M
  <2> QED BY <1>0, <1>3
<1>6. Sound(g[M], own2, clean2)
  BY <1>2, <1>4, <1>5 DEF Leads
<1> QED BY <1>5, <1>6

\* A block of no instructions.
LEMMA YieldsNothing ==
  ASSUME NEW b, b.ins = <<>>, NEW k, NEW w, NEW a,
         a.own \subseteq k.own, a.clean \subseteq k.own \cup k.clean
  PROVE  Yields(b, k, w, a.own, a.clean \cup w.base)
<1> SUFFICES ASSUME NEW f, Sat(f[0], k, w) PROVE Sat(f[0], a, w)
  BY DEF Yields, Sound, Sat
<1> QED BY SatLess

\* What runs to the end of a block, and on.
LEMMA YieldsFlows ==
  ASSUME NEW b \in Blocks, NEW c \in Blocks, c.ins = b.ins,
         NEW k, NEW w, NEW know, NEW own, NEW clean, Yields(b, k, w, own, clean),
         \A m : Sound(m, own, clean) => Lands(Outcome(m, c), c.term, w, know)
  PROVE  Flows(c, k, w, know)
BY DEF Yields, Flows

\* A jump that frees xs on its way.
LEMMA JumpLands ==
  ASSUME NEW c \in Blocks, NEW w, NEW know, NEW own, NEW clean,
         c.frees \subseteq own \cup clean, c.term.kind # "return",
         \A k \in {know[c.term.then], know[c.term.else]} :
           k.own \subseteq own \ c.frees /\ k.clean \cup w.base \subseteq own \cup clean,
         NEW m, Sound(m, own, clean)
  PROVE  Lands(Outcome(m, c), c.term, w, know)
<1>1. CASE Exhausted(m)
  BY <1>1, ExhaustedStays DEF Lands, Outcome
<1>2. CASE Good(m, own, clean)
  <2> DEFINE xs == c.frees
             o == Outcome(m, c)
  <2>1. Good(Freed(m, xs), own \ xs, clean \ xs)
    BY <1>2, FreedGood
  <2>2. xs \subseteq Locals
    BY DEF Blocks
  <2>3. Good(o, own \ xs, (clean \ xs) \cup xs)
    <3> DEFINE rest == own \ xs
               others == clean \ xs
    <3>1. rest \cap xs = {} OBVIOUS
    <3> HIDE DEF rest, others, xs
    <3>2. Good(Cleared(Freed(m, xs), xs), rest, others \cup xs)
      BY <2>1, <2>2, <3>1, ClearedGood DEF rest, others
    <3> QED BY <3>2 DEF rest, others, Outcome, xs
  <2>4. ASSUME NEW k \in {know[c.term.then], know[c.term.else]} PROVE Sat(o, k, w)
    <3>1. k.own \subseteq own \ xs OBVIOUS
    <3>2. k.clean \cup w.base \subseteq (own \ xs) \cup ((clean \ xs) \cup xs)
      OBVIOUS
    <3> HIDE DEF o, xs
    <3> QED BY <2>3, <3>1, <3>2, GoodLess DEF Sat
  <2> QED BY <2>4 DEF Lands
<1> QED BY <1>1, <1>2 DEF Sound

\* A Return from where x is owned.
LEMMA ReturnLands ==
  ASSUME NEW c \in Blocks, c.frees = {}, c.term.kind = "return",
         NEW w, NEW know, NEW own, NEW clean,
         {c.term.value} \ {0} \subseteq own, w.drop \subseteq own \cup clean,
         NEW m, Sound(m, own, clean)
  PROVE  Lands(Outcome(m, c), c.term, w, know)
<1>1. CASE Exhausted(m)
  BY <1>1, ExhaustedStays DEF Lands, Outcome
<1>2. CASE Good(m, own, clean)
  <2>1. Good(Freed(m, {}), own \ {}, clean \ {})
    BY <1>2, FreedGood
  <2>2. Good(Freed(m, {}), own, clean)
    BY <2>1
  <2>3. Good(Cleared(Freed(m, {}), {}), own, clean \cup {})
    BY <2>2, ClearedGood
  <2>4. Good(Outcome(m, c), own, clean)
    BY <2>3 DEF Outcome
  <2>5. Good(Outcome(m, c), {c.term.value} \ {0}, w.drop)
    BY <2>4, GoodLess
  <2> QED BY <2>5 DEF Lands
<1> QED BY <1>1, <1>2 DEF Sound

\* Less known where the jumps of a block lead is still true.
LEMMA FlowsLess ==
  ASSUME NEW b, NEW k, NEW w, NEW know, NEW less, Flows(b, k, w, know),
         b.term.kind # "return" =>
           \A t \in {b.term.then, b.term.else} :
             \A m : Sat(m, know[t], w) => Sat(m, less[t], w)
  PROVE  Flows(b, k, w, less)
BY DEF Flows, Lands

LEMMA NewBlockIs ==
  NewBlock \in Blocks /\ NewBlock.ins = <<>> /\ NewBlock.term = Unreachable
  /\ NewBlock.clears = {} /\ NewBlock.frees = {}
BY DEF NewBlock, Blocks, Unreachable, Terminators

LEMMA TerminatorsAre ==
  ASSUME NEW b \in Nat, NEW c \in Nat, NEW x \in {0} \cup Locals
  PROVE  /\ Goto(b) \in Jumps /\ Branch(b, c) \in Jumps /\ Return(x) \in Jumps
         /\ Jumps \subseteq Terminators /\ Unreachable \notin Jumps
         /\ Goto(b).then = b /\ Goto(b).else = b /\ Goto(b).kind = "goto"
         /\ Branch(b, c).then = b /\ Branch(b, c).else = c
         /\ Branch(b, c).kind = "branch"
         /\ Return(x).kind = "return" /\ Return(x).value = x
BY DEF Goto, Branch, Return, Unreachable, Terminators, Jumps

LEMMA AppendedIs ==
  ASSUME NEW bs \in Seq(Blocks), NEW more \in Seq(Blocks), NEW new, new = bs \o more
  PROVE  /\ new \in Seq(Blocks) /\ Len(new) = Len(bs) + Len(more)
         /\ DOMAIN bs = 1 .. Len(bs) /\ Len(bs) \in Nat /\ Len(more) \in Nat
         /\ DOMAIN new = 1 .. Len(bs) + Len(more)
         /\ \A c \in DOMAIN bs : new[c] = bs[c]
         /\ \A j \in DOMAIN more : new[Len(bs) + j] = more[j]
OBVIOUS

LEMMA CloseIs ==
  ASSUME NEW bs \in Seq(Blocks), NEW b \in DOMAIN bs, bs[b].term = Unreachable,
         NEW t \in Terminators, NEW new, new = Close(bs, b, t)
  PROVE  new \in Seq(Blocks) /\ Opens(new, bs, b, t, bs[b].frees, <<>>)
<1>1. PICK blk : blk = [bs[b] EXCEPT !.term = t] OBVIOUS
<1>2. bs[b] \in Blocks
  BY BlockParts
<1>3. /\ blk \in Blocks /\ blk.term = t /\ blk.clears = bs[b].clears
      /\ blk.ins = bs[b].ins /\ blk.frees = bs[b].frees
  BY <1>1, <1>2 DEF Blocks
<1>4. new = [bs EXCEPT ![b] = blk]
  BY <1>1 DEF Close
<1>5. /\ DOMAIN new = DOMAIN bs /\ new[b] = blk /\ new \in Seq(Blocks)
      /\ \A c \in DOMAIN bs \ {b} : new[c] = bs[c]
  BY <1>3, <1>4
<1>6. Len(new) = Len(bs) + Len(<<>>) /\ DOMAIN <<>> = {}
  BY <1>4
<1> QED BY <1>3, <1>5, <1>6 DEF Opens

LEMMA FreesIs ==
  ASSUME NEW bs \in Seq(Blocks), NEW b \in DOMAIN bs, NEW xs \in SUBSET Locals,
         NEW new, new = FreeLoopLocals(bs, b, xs)
  PROVE  new \in Seq(Blocks) /\ Opens(new, bs, b, bs[b].term, xs, <<>>)
<1>1. PICK blk : blk = [bs[b] EXCEPT !.frees = xs] OBVIOUS
<1>2. bs[b] \in Blocks
  BY BlockParts
<1>3. /\ blk \in Blocks /\ blk.term = bs[b].term /\ blk.clears = bs[b].clears
      /\ blk.ins = bs[b].ins /\ blk.frees = xs
  BY <1>1, <1>2 DEF Blocks
<1>4. new = [bs EXCEPT ![b] = blk]
  BY <1>1 DEF FreeLoopLocals
<1>5. /\ DOMAIN new = DOMAIN bs /\ new[b] = blk /\ new \in Seq(Blocks)
      /\ \A c \in DOMAIN bs \ {b} : new[c] = bs[c]
  BY <1>3, <1>4
<1>6. Len(new) = Len(bs) + Len(<<>>) /\ DOMAIN <<>> = {}
  BY <1>4
<1> QED BY <1>3, <1>5, <1>6 DEF Opens

LEMMA ClosedAndMore ==
  ASSUME NEW bs \in Seq(Blocks), NEW b \in DOMAIN bs, bs[b].term = Unreachable,
         NEW t \in Terminators, NEW more \in Seq(Blocks),
         NEW new, new = Close(bs, b, t) \o more
  PROVE  new \in Seq(Blocks) /\ Opens(new, bs, b, t, bs[b].frees, more)
<1>1. PICK mid : mid = Close(bs, b, t) OBVIOUS
<1>2. mid \in Seq(Blocks) /\ Opens(mid, bs, b, t, bs[b].frees, <<>>)
  BY <1>1, CloseIs
<1>3. Len(mid) = Len(bs) /\ DOMAIN mid = DOMAIN bs
  BY <1>2 DEF Opens
<1>4. new = mid \o more
  BY <1>1
<1>5. /\ new \in Seq(Blocks) /\ Len(new) = Len(mid) + Len(more)
      /\ \A c \in DOMAIN mid : new[c] = mid[c]
      /\ \A j \in DOMAIN more : new[Len(mid) + j] = more[j]
  BY <1>2, <1>4, AppendedIs
<1> QED BY <1>2, <1>3, <1>5 DEF Opens

LEMMA OpensDomain ==
  ASSUME NEW bs \in Seq(Blocks), NEW new \in Seq(Blocks), NEW b, NEW t, NEW xs,
         NEW more \in Seq(Blocks), Opens(new, bs, b, t, xs, more)
  PROVE  /\ DOMAIN bs = 1 .. Len(bs) /\ DOMAIN new = 1 .. Len(bs) + Len(more)
         /\ Len(bs) \in Nat /\ Len(more) \in Nat /\ DOMAIN more = 1 .. Len(more)
         /\ DOMAIN bs \subseteq DOMAIN new
         /\ \A c \in DOMAIN new : c \in DOMAIN bs \/ c - Len(bs) \in DOMAIN more
         /\ \A c \in DOMAIN bs : new[c].ins = bs[c].ins /\ new[c].clears = bs[c].clears
         /\ \A j \in DOMAIN more : Len(bs) + j \in DOMAIN new /\ Len(bs) + j \notin DOMAIN bs
BY DEF Opens

-----------------------------------------------------------------------------
(* The shape of the state *)

LEMMA ShapeFacts ==
  ASSUME Shape
  PROVE  /\ blocks \in Seq(Blocks) /\ frames \in Seq(Frames)
         /\ DOMAIN blocks = 1 .. Len(blocks) /\ Len(blocks) \in Nat
         /\ DOMAIN frames = 1 .. Len(frames) /\ Len(frames) \in Nat
         /\ cur \in DOMAIN blocks /\ at \in DOMAIN blocks
         /\ declared \in Nat /\ declared \in 0 .. MaxLocals
         /\ visible \subseteq 1 .. declared /\ inited \subseteq 1 .. declared
         /\ moved \subseteq 1 .. declared
         /\ 1 .. declared \subseteq Locals
         /\ fragment \in Fragments
         /\ \A i \in DOMAIN frames : frames[i] \in Frames
<1>1. \A i \in DOMAIN frames : frames[i] \in Frames
  BY ElementOfSeq DEF Shape
<1> QED BY <1>1, Constants DEF Shape, StateTypes

LEMMA FrameParts ==
  ASSUME NEW f \in Frames
  PROVE  /\ f.kind \in {"then", "else", "loop"} /\ f.target \in Nat
         /\ f.exit \in Nat /\ f.entry \in Nat /\ f.locals \subseteq Locals
         /\ f.scope \subseteq Locals /\ f.moved \subseteq Locals
BY DEF Frames

LEMMA GreatestNumber ==
  ASSUME NEW n \in Nat, NEW S \in SUBSET (1 .. n), S # {}
  PROVE  \E p \in S : \A q \in S : q <= p
<1> DEFINE Below == {ss \in Nat \X Nat : ss[1] < ss[2]}
           R == {n - q : q \in S}
<1>1. IsWellFoundedOn(Below, Nat)
  BY NatLessThanWellFounded DEF OpToRel
<1>2. R \subseteq Nat /\ R # {}
  <2>1. \A q \in S : n - q \in Nat OBVIOUS
  <2> QED BY <2>1
<1>3. PICK r \in R : \A q \in R : ~(<<q, r>> \in Below)
  <2> HIDE DEF Below, R
  <2> QED BY <1>1, <1>2, WFMin
<1>4. ASSUME NEW q \in R, q < r PROVE FALSE
  <2>1. <<q, r>> \in Nat \X Nat /\ <<q, r>>[1] < <<q, r>>[2]
    BY <1>2, <1>4
  <2> QED BY <1>3, <2>1
<1>5. PICK p \in S : r = n - p OBVIOUS
<1>6. ASSUME NEW q \in S PROVE q <= p
  <2>1. n - q \in R /\ n - q \in Nat /\ r \in Nat
    BY <1>2
  <2> HIDE DEF R
  <2>2. ~(n - q < r)
    BY <1>4, <2>1
  <2> QED BY <1>5, <2>1, <2>2
<1> QED BY <1>6

LEMMA LoopAtIs ==
  ASSUME Shape, InLoop
  PROVE  /\ LoopAt \in DOMAIN frames /\ Innermost.kind = "loop"
         /\ Innermost = frames[LoopAt] /\ Innermost \in Frames
         /\ \A j \in DOMAIN frames : frames[j].kind = "loop" => j <= LoopAt
<1>1. LoopDepths \subseteq 1 .. Len(frames) /\ Len(frames) \in Nat
  BY ShapeFacts DEF LoopDepths
<1>2. PICK p \in LoopDepths : \A q \in LoopDepths : q <= p
  BY <1>1, GreatestNumber DEF InLoop
<1>3. LoopAt \in LoopDepths /\ \A q \in LoopDepths : q <= LoopAt
  BY <1>2 DEF LoopAt
<1> QED BY <1>3, ShapeFacts DEF LoopDepths, Innermost

-----------------------------------------------------------------------------
(* What the statements change *)

LEMMA DeclareIs ==
  ASSUME Shape, phase = "lower", NEW is \in Seq(Instructions), Declare(is)
  PROVE  /\ declared + 1 \in Locals /\ declared' = declared + 1
         /\ declared' \in 0 .. MaxLocals
         /\ visible' = visible \cup {declared'} /\ inited' = inited \cup {declared'}
         /\ blocks' \in Seq(Blocks) /\ Grows(blocks', blocks, cur, is)
         /\ frames' \in Seq(Frames) /\ Relisted(frames', frames)
         /\ \A i \in DOMAIN frames :
              frames'[i].locals = IF InLoop /\ i = LoopAt
                                  THEN frames[i].locals \cup {declared'}
                                  ELSE frames[i].locals
<1> DEFINE x == declared + 1
<1>1. x \in Locals /\ x \in 0 .. MaxLocals
  BY ShapeFacts, Constants DEF Declare
<1>2. declared' = x /\ visible' = visible \cup {x} /\ inited' = inited \cup {x}
  BY DEF Declare
<1>3. blocks' \in Seq(Blocks) /\ Grows(blocks', blocks, cur, is)
  BY ShapeFacts, EmitIs DEF Declare
<1>4. CASE ~InLoop
  <2>1. frames' = frames
    BY <1>4 DEF Declare
  <2> QED BY <1>1, <1>2, <1>3, <1>4, <2>1, ShapeFacts DEF Relisted
<1>5. CASE InLoop
  <2>1. PICK f : f = [frames[LoopAt] EXCEPT !.locals = frames[LoopAt].locals \cup {x}]
    OBVIOUS
  <2>2. frames[LoopAt] \in Frames /\ LoopAt \in DOMAIN frames
    BY <1>5, LoopAtIs
  <2> HIDE DEF x
  <2>3. /\ f \in Frames /\ f.kind = frames[LoopAt].kind
        /\ f.target = frames[LoopAt].target /\ f.exit = frames[LoopAt].exit
        /\ f.entry = frames[LoopAt].entry /\ f.scope = frames[LoopAt].scope
        /\ f.moved = frames[LoopAt].moved
        /\ f.locals = frames[LoopAt].locals \cup {x}
    BY <1>1, <2>1, <2>2 DEF Frames
  <2>4. frames' = [frames EXCEPT ![LoopAt] = f]
    BY <1>5, <2>1 DEF Declare, x
  <2>5. /\ DOMAIN frames' = DOMAIN frames /\ frames'[LoopAt] = f
        /\ \A i \in DOMAIN frames \ {LoopAt} : frames'[i] = frames[i]
    BY <2>2, <2>4
  <2>6. frames' \in Seq(Frames)
    <3>1. PICK fs : fs = frames OBVIOUS
    <3>2. fs \in Seq(Frames) /\ LoopAt \in DOMAIN fs
      BY <2>2, <3>1, ShapeFacts
    <3>3. PICK n : n = LoopAt OBVIOUS
    <3>4. [fs EXCEPT ![n] = f] \in Seq(Frames)
      BY <2>3, <3>2, <3>3
    <3> QED BY <2>4, <3>1, <3>3, <3>4
  <2>7. Relisted(frames', frames)
    BY <2>3, <2>5 DEF Relisted
  <2>8. \A i \in DOMAIN frames :
              frames'[i].locals = IF i = LoopAt THEN frames[i].locals \cup {x}
                                  ELSE frames[i].locals
    BY <2>3, <2>5
  <2> QED BY <1>1, <1>2, <1>3, <1>5, <2>6, <2>7, <2>8 DEF x
<1> QED BY <1>4, <1>5

LEMMA Short ==
  ASSUME NEW i \in Instructions, NEW j \in Instructions
  PROVE  /\ <<i>> \in Seq(Instructions) /\ <<i, j>> \in Seq(Instructions)
         /\ <<i>> \o <<j>> = <<i, j>>
         /\ Len(<<i>>) = 1 /\ <<i>>[1] = i /\ DOMAIN <<i>> = 1 .. 1
         /\ Len(<<i, j>>) = 2 /\ <<i, j>>[1] = i /\ <<i, j>>[2] = j
         /\ DOMAIN <<i, j>> = 1 .. 2
<1>1. <<i>> \in Seq(Instructions) /\ Len(<<i>>) = 1 /\ <<i>>[1] = i /\ DOMAIN <<i>> = 1 .. 1
  OBVIOUS
<1>2. /\ <<i, j>> \in Seq(Instructions) /\ Len(<<i, j>>) = 2
      /\ <<i, j>>[1] = i /\ <<i, j>>[2] = j /\ DOMAIN <<i, j>> = 1 .. 2
  OBVIOUS
<1>3. <<i>> \o <<j>> = <<i, j>>
  <2>1. PICK s : s = <<i>> \o <<j>> OBVIOUS
  <2>2. PICK t : t = <<i, j>> OBVIOUS
  <2>3. s \in Seq(Instructions) /\ Len(s) = 2 /\ s[1] = i /\ s[2] = j
    BY <2>1
  <2>4. t \in Seq(Instructions) /\ Len(t) = 2 /\ t[1] = i /\ t[2] = j
    BY <2>2
  <2>5. \A k \in 1 .. Len(s) : s[k] = t[k]
    BY <2>3, <2>4
  <2> QED BY <2>1, <2>2, <2>3, <2>4, <2>5, SeqEqual
<1> QED BY <1>1, <1>2, <1>3

LEMMA WriteIs ==
  ASSUME Shape, NEW kind, Write(kind)
  PROVE  /\ phase = "lower" /\ open /\ May(kind) /\ spent' \in 0 .. MaxStatements
         /\ UNCHANGED <<phase, fragment, returns, drops, running>>
<1>1. spent \in 0 .. MaxStatements /\ MaxStatements \in Nat
  BY BoundsAssumption DEF Shape, StateTypes
<1> QED BY <1>1 DEF Write

LEMMA ReadFacts ==
  ASSUME Shape
  PROVE  /\ Movable \subseteq Readable /\ Readable \subseteq visible
         /\ Readable \subseteq Settable /\ Settable \subseteq visible
         /\ visible \subseteq 1 .. declared /\ visible \subseteq Locals
         /\ Readable \cap moved = {}
BY ShapeFacts DEF Movable, Readable, Settable

LEMMA LetIs ==
  ASSUME Shape, Let
  PROVE  Lets
<1>1. phase = "lower" /\ Declare(<<Alloc(declared + 1)>>) /\ cur' = cur
      /\ moved' = moved /\ open' = open
  BY WriteIs DEF Let
<1>2. declared + 1 \in Locals
  BY <1>1, ShapeFacts, Constants DEF Declare
<1>3. <<Alloc(declared + 1)>> \in Seq(Instructions)
  <2>1. PICK i : i = Alloc(declared + 1) OBVIOUS
  <2>2. i \in Instructions
    BY <1>2, <2>1 DEF Alloc, Instructions, Ops
  <2> QED BY <2>1, <2>2, Short
<1>4. Declares /\ blocks' \in Seq(Blocks) /\ Grows(blocks', blocks, cur, <<Alloc(declared + 1)>>)
         /\ frames' \in Seq(Frames) /\ Relisted(frames', frames)
  BY <1>1, <1>3, DeclareIs DEF Declares
<1> QED BY <1>1, <1>3, <1>4, WriteIs DEF Lets, Emits, Let

LEMMA LetFromIs ==
  ASSUME Shape, LetFrom
  PROVE  \E y \in Movable : LetsFrom(y)
<1>1. PICK y \in Movable : Declare(<<Move(declared + 1, y)>>) /\ moved' = moved \cup {y}
  BY DEF LetFrom
<1>2. phase = "lower" /\ cur' = cur /\ open' = open /\ May("let_from")
  BY WriteIs DEF LetFrom
<1>3. declared + 1 \in Locals /\ y \in Locals
  BY <1>1, ReadFacts, ShapeFacts, Constants DEF Declare
<1>4. <<Move(declared + 1, y)>> \in Seq(Instructions)
  <2>1. PICK i : i = Move(declared + 1, y) OBVIOUS
  <2>2. i \in Instructions
    BY <1>3, <2>1 DEF Move, Instructions, Ops
  <2> QED BY <2>1, <2>2, Short
<1>5. Declares /\ blocks' \in Seq(Blocks) /\ Grows(blocks', blocks, cur, <<Move(declared + 1, y)>>)
         /\ frames' \in Seq(Frames) /\ Relisted(frames', frames)
  BY <1>1, <1>2, <1>4, DeclareIs DEF Declares
<1>6. Emits(<<Move(declared + 1, y)>>)
  BY <1>2, <1>4, <1>5, WriteIs DEF Emits, LetFrom
<1>7. LetsFrom(y)
  BY <1>1, <1>2, <1>5, <1>6 DEF LetsFrom
<1> QED BY <1>7

\* The frees and the store of an assignment.
LEMMA PriorIs ==
  ASSUME NEW x \in Locals, NEW i \in Instructions
  PROVE  /\ FreePrior(x) \o <<i>> \in Seq(Instructions)
         /\ FreePrior(x) \o <<i>> = IF x \in inited THEN <<Dealloc(x), i>> ELSE <<i>>
<1>1. Dealloc(x) \in Instructions
  BY DEF Dealloc, Instructions, Ops
<1>2. CASE x \in inited
  <2>1. PICK e : e = Dealloc(x) OBVIOUS
  <2>2. FreePrior(x) = <<e>>
    BY <1>2, <2>1 DEF FreePrior
  <2>3. <<e>> \o <<i>> = <<e, i>> /\ <<e, i>> \in Seq(Instructions)
    BY <1>1, <2>1, Short
  <2> QED BY <1>2, <2>1, <2>2, <2>3
<1>3. CASE x \notin inited
  BY <1>3 DEF FreePrior
<1> QED BY <1>2, <1>3

LEMMA SetIs ==
  ASSUME Shape, Set
  PROVE  \E x \in Settable : Sets(x)
<1>1. PICK x \in Settable :
        /\ blocks' = Emit(blocks, cur, FreePrior(x) \o <<Alloc(x)>>)
        /\ moved' = moved \ {x} /\ inited' = inited \cup {x}
  BY DEF Set
<1>2. /\ phase = "lower" /\ cur' = cur /\ open' = open /\ frames' = frames
      /\ declared' = declared /\ visible' = visible /\ May("set")
  BY WriteIs DEF Set
<1>3. PICK is : is = FreePrior(x) \o <<Alloc(x)>> OBVIOUS
<1>4. is \in Seq(Instructions)
  <2>1. PICK i : i = Alloc(x) OBVIOUS
  <2>2. x \in Locals
    BY ReadFacts
  <2>3. i \in Instructions
    BY <2>1, <2>2 DEF Alloc, Instructions, Ops
  <2> QED BY <1>3, <2>1, <2>2, <2>3, PriorIs
<1>5. blocks' \in Seq(Blocks) /\ Grows(blocks', blocks, cur, is)
  BY <1>1, <1>3, <1>4, ShapeFacts, EmitIs
<1>6. Emits(is)
  BY <1>2, <1>4, <1>5, WriteIs, ShapeFacts DEF Emits, Set, Relisted
<1>7. Sets(x)
  BY <1>1, <1>2, <1>3, <1>6 DEF Sets, Declared
<1> QED BY <1>7

LEMMA SetFromIs ==
  ASSUME Shape, SetFrom
  PROVE  \E y \in Movable, x \in Settable : SetsFrom(x, y)
<1>1. PICK y \in Movable, x \in Settable :
        /\ x # y /\ blocks' = Emit(blocks, cur, FreePrior(x) \o <<Assign(x, y)>>)
        /\ moved' = (moved \ {x}) \cup {y} /\ inited' = inited \cup {x}
  BY DEF SetFrom
<1>2. /\ phase = "lower" /\ cur' = cur /\ open' = open /\ frames' = frames
      /\ declared' = declared /\ visible' = visible /\ May("set_from")
  BY WriteIs DEF SetFrom
<1>3. PICK is : is = FreePrior(x) \o <<Assign(x, y)>> OBVIOUS
<1>4. is \in Seq(Instructions)
  <2>1. PICK i : i = Assign(x, y) OBVIOUS
  <2>2. x \in Locals /\ y \in Locals
    BY ReadFacts
  <2>3. i \in Instructions
    BY <2>1, <2>2 DEF Assign, Instructions, Ops
  <2> QED BY <1>3, <2>1, <2>2, <2>3, PriorIs
<1>5. blocks' \in Seq(Blocks) /\ Grows(blocks', blocks, cur, is)
  BY <1>1, <1>3, <1>4, ShapeFacts, EmitIs
<1>6. Emits(is)
  BY <1>2, <1>4, <1>5, WriteIs, ShapeFacts DEF Emits, SetFrom, Relisted
<1>7. SetsFrom(x, y)
  BY <1>1, <1>2, <1>3, <1>6 DEF SetsFrom, Declared
<1> QED BY <1>7

\* What taking a local off the loops' lists leaves of them.
LEMMA UnlistedIs ==
  ASSUME Shape, NEW x, NEW new, new = Unlisted(x)
  PROVE  /\ new \in Seq(Frames) /\ Relisted(new, frames)
         /\ \A i \in DOMAIN frames : new[i].locals = frames[i].locals \ {x}
<1>1. /\ DOMAIN new = DOMAIN frames
      /\ \A i \in DOMAIN frames : new[i] = [frames[i] EXCEPT !.locals = frames[i].locals \ {x}]
  BY DEF Unlisted
<1>2. ASSUME NEW i \in DOMAIN frames
      PROVE  /\ new[i] \in Frames /\ new[i].kind = frames[i].kind
             /\ new[i].target = frames[i].target /\ new[i].exit = frames[i].exit
             /\ new[i].entry = frames[i].entry /\ new[i].scope = frames[i].scope
             /\ new[i].moved = frames[i].moved
             /\ new[i].locals = frames[i].locals \ {x}
  <2>1. PICK f : f = frames[i] OBVIOUS
  <2>2. f \in Frames /\ new[i] = [f EXCEPT !.locals = f.locals \ {x}]
    BY <1>1, <2>1, ShapeFacts
  <2> QED BY <2>1, <2>2 DEF Frames
<1>3. new \in Seq(Frames)
  <2>1. \A i \in 1 .. Len(frames) : new[i] \in Frames
    BY <1>2, ShapeFacts
  <2>2. new = [i \in 1 .. Len(frames) |-> new[i]]
    BY ShapeFacts DEF Unlisted
  <2> QED BY <2>1, <2>2, ShapeFacts
<1> QED BY <1>1, <1>2, <1>3 DEF Relisted

LEMMA HandOverIs ==
  ASSUME Shape, HandOver
  PROVE  \E how \in GivingOps : \E x \in Movable : Gives(x, how)
<1>1. PICK how \in GivingOps :
        /\ Write(how)
        /\ \E x \in Movable :
             /\ blocks' = Emit(blocks, cur, <<Give(x, how)>>)
             /\ moved' = IF how = "store" THEN moved ELSE moved \cup {x}
             /\ IF how \in {"push", "spawn"}
                THEN inited' = inited \ {x} /\ frames' = Unlisted(x)
                ELSE UNCHANGED <<inited, frames>>
        /\ UNCHANGED <<cur, declared, visible, open>>
  BY DEF HandOver
<1>2. PICK x \in Movable :
             /\ blocks' = Emit(blocks, cur, <<Give(x, how)>>)
             /\ moved' = IF how = "store" THEN moved ELSE moved \cup {x}
             /\ IF how \in {"push", "spawn"}
                THEN inited' = inited \ {x} /\ frames' = Unlisted(x)
                ELSE UNCHANGED <<inited, frames>>
  BY <1>1
<1>3. <<Give(x, how)>> \in Seq(Instructions)
  BY ReadFacts, InstructionsAre
<1>4. blocks' \in Seq(Blocks) /\ Grows(blocks', blocks, cur, <<Give(x, how)>>)
  BY <1>2, <1>3, ShapeFacts, EmitIs
<1>5. /\ frames' \in Seq(Frames) /\ Relisted(frames', frames)
      /\ \A i \in DOMAIN frames : frames'[i].locals \subseteq frames[i].locals
      /\ how \in {"push", "spawn"} =>
           \A i \in DOMAIN frames : frames'[i].locals = frames[i].locals \ {x}
  <2>1. CASE how \in {"push", "spawn"}
    <3>1. frames' = Unlisted(x)
      BY <1>2, <2>1
    <3> QED BY <2>1, <3>1, UnlistedIs
  <2>2. CASE how \notin {"push", "spawn"}
    BY <1>2, <2>2, ShapeFacts DEF Relisted
  <2> QED BY <2>1, <2>2
<1>6. Emits(<<Give(x, how)>>)
  BY <1>1, <1>3, <1>4, <1>5, WriteIs DEF Emits
<1>7. Gives(x, how)
  BY <1>1, <1>2, <1>5, <1>6, WriteIs DEF Gives, Declared
<1> QED BY <1>7

LEMMA Openings ==
  /\ <<NewBlock>> \in Seq(Blocks) /\ Len(<<NewBlock>>) = 1
  /\ Three \in Seq(Blocks) /\ Len(Three) = 3
  /\ <<NewBlock, NewBlock>> \in Seq(Blocks) /\ Len(<<NewBlock, NewBlock>>) = 2
  /\ \A n \in Nat :
       /\ Header(n) \in Blocks /\ Header(n).ins = <<>> /\ Header(n).clears = {}
       /\ Header(n).frees = {} /\ Header(n).term = Branch(n + 2, n + 3)
       /\ <<Header(n), NewBlock, NewBlock>> \in Seq(Blocks)
       /\ Len(<<Header(n), NewBlock, NewBlock>>) = 3
<1>1. PICK nb : nb = NewBlock OBVIOUS
<1>2. nb \in Blocks
  BY <1>1, NewBlockIs
<1>3. /\ <<nb>> \in Seq(Blocks) /\ <<nb, nb>> \in Seq(Blocks)
      /\ <<nb, nb, nb>> \in Seq(Blocks)
  BY <1>2
<1>4. ASSUME NEW n \in Nat
      PROVE  /\ Header(n) \in Blocks /\ Header(n).ins = <<>> /\ Header(n).clears = {}
             /\ Header(n).frees = {} /\ Header(n).term = Branch(n + 2, n + 3)
             /\ <<Header(n), NewBlock, NewBlock>> \in Seq(Blocks)
  <2>1. PICK h : h = Header(n) OBVIOUS
  <2>2. PICK t : t = Branch(n + 2, n + 3) OBVIOUS
  <2>3. t \in Terminators
    BY <2>2 DEF Branch, Terminators, Jumps
  <2>4. h = [nb EXCEPT !.term = t]
    BY <1>1, <2>1, <2>2 DEF Header
  <2>5. /\ h \in Blocks /\ h.ins = nb.ins /\ h.clears = nb.clears
        /\ h.frees = nb.frees /\ h.term = t
    BY <1>2, <2>3, <2>4 DEF Blocks
  <2>6. <<h, nb, nb>> \in Seq(Blocks)
    BY <1>2, <2>5
  <2> QED BY <1>1, <2>1, <2>2, <2>5, <2>6, NewBlockIs
<1> QED BY <1>1, <1>3, <1>4 DEF Three

LEMMA Unfreed ==
  ASSUME Shape, phase = "lower"
  PROVE  blocks[cur].term = Unreachable /\ blocks[cur].frees = {}
BY ShapeFacts DEF Shape, Lowering

LEMMA OpeningFrames ==
  ASSUME Shape, NEW b \in Nat, NEW c \in Nat, NEW e \in Nat
  PROVE  IfFrame(b, c) \in Frames /\ LoopFrame(b, c, e) \in Frames
BY ShapeFacts DEF IfFrame, LoopFrame, Frames

LEMMA OpeningIs ==
  ASSUME Shape, phase = "lower", NEW t \in Jumps, NEW more \in Seq(Blocks), NEW f \in Frames,
         blocks' = Close(blocks, cur, t) \o more,
         frames' = Append(frames, f), spent' \in 0 .. MaxStatements,
         UNCHANGED <<phase, fragment, returns, drops, running>>,
         UNCHANGED <<declared, visible, moved, inited, open>>
  PROVE  Opening(t, more, f)
<1>1. blocks' \in Seq(Blocks) /\ Opens(blocks', blocks, cur, t, {}, more)
  <2>1. blocks \in Seq(Blocks) /\ cur \in DOMAIN blocks /\ t \in Terminators
    BY ShapeFacts DEF Terminators
  <2>2. blocks[cur].term = Unreachable /\ blocks[cur].frees = {}
    BY Unfreed
  <2>3. blocks' \in Seq(Blocks) /\ Opens(blocks', blocks, cur, t, blocks[cur].frees, more)
    BY <2>1, <2>2, ClosedAndMore
  <2> QED BY <2>2, <2>3
<1> QED BY <1>1 DEF Opening, Jumped

LEMMA IfIs ==
  ASSUME Shape, If
  PROVE  Ifs(Len(blocks))
<1> DEFINE n == Len(blocks)
<1>1. n \in Nat
  BY ShapeFacts
<1>2. Branch(n + 1, n + 2) \in Jumps
  BY <1>1 DEF Branch, Jumps
<1>3. IfFrame(n + 2, n + 3) \in Frames
  BY <1>1, OpeningFrames
<1>4. /\ blocks' = Close(blocks, cur, Branch(n + 1, n + 2)) \o Three
      /\ frames' = Append(frames, IfFrame(n + 2, n + 3)) /\ cur' = n + 1
      /\ UNCHANGED <<declared, visible, moved, inited, open>>
  BY DEF If, Three
<1>5. /\ phase = "lower" /\ May("if") /\ spent' \in 0 .. MaxStatements
      /\ UNCHANGED <<phase, fragment, returns, drops, running>>
  BY WriteIs DEF If
<1>6. Opening(Branch(n + 1, n + 2), Three, IfFrame(n + 2, n + 3))
  BY <1>2, <1>3, <1>4, <1>5, Openings, OpeningIs
<1> QED BY <1>4, <1>5, <1>6 DEF Ifs

LEMMA WhileIs ==
  ASSUME Shape, While
  PROVE  Whiles(Len(blocks))
<1> DEFINE n == Len(blocks)
           more == <<Header(n), NewBlock, NewBlock>>
<1>1. n \in Nat
  BY ShapeFacts
<1>2. Goto(n + 1) \in Jumps
  BY <1>1 DEF Goto, Jumps
<1>3. LoopFrame(n + 1, n + 3, n + 2) \in Frames
  BY <1>1, OpeningFrames
<1>4. /\ blocks' = Close(blocks, cur, Goto(n + 1)) \o more
      /\ frames' = Append(frames, LoopFrame(n + 1, n + 3, n + 2)) /\ cur' = n + 2
      /\ UNCHANGED <<declared, visible, moved, inited, open>>
  BY DEF While, Header
<1>5. /\ phase = "lower" /\ May("while") /\ spent' \in 0 .. MaxStatements
      /\ UNCHANGED <<phase, fragment, returns, drops, running>>
  BY WriteIs DEF While
<1>6. more \in Seq(Blocks)
  BY <1>1, Openings
<1>7. Opening(Goto(n + 1), more, LoopFrame(n + 1, n + 3, n + 2))
  <2> HIDE DEF more
  <2> QED BY <1>2, <1>3, <1>4, <1>5, <1>6, OpeningIs
<1> QED BY <1>4, <1>5, <1>7 DEF Whiles

LEMMA LoopIs ==
  ASSUME Shape, Loop
  PROVE  Loops(Len(blocks))
<1> DEFINE n == Len(blocks)
           more == <<NewBlock, NewBlock>>
<1>1. n \in Nat
  BY ShapeFacts
<1>2. Goto(n + 1) \in Jumps
  BY <1>1 DEF Goto, Jumps
<1>3. LoopFrame(n + 1, n + 2, n + 1) \in Frames
  BY <1>1, OpeningFrames
<1>4. /\ blocks' = Close(blocks, cur, Goto(n + 1)) \o more
      /\ frames' = Append(frames, LoopFrame(n + 1, n + 2, n + 1)) /\ cur' = n + 1
      /\ UNCHANGED <<declared, visible, moved, inited, open>>
  BY DEF Loop
<1>5. /\ phase = "lower" /\ May("loop") /\ spent' \in 0 .. MaxStatements
      /\ UNCHANGED <<phase, fragment, returns, drops, running>>
  BY WriteIs DEF Loop
<1>6. more \in Seq(Blocks)
  BY Openings
<1>7. Opening(Goto(n + 1), more, LoopFrame(n + 1, n + 2, n + 1))
  <2> HIDE DEF more
  <2> QED BY <1>2, <1>3, <1>4, <1>5, <1>6, OpeningIs
<1> QED BY <1>4, <1>5, <1>7 DEF Loops

LEMMA TopIs ==
  ASSUME Shape, frames # <<>>
  PROVE  /\ Len(frames) \in DOMAIN frames /\ Top = frames[Len(frames)] /\ Top \in Frames
         /\ {Top.target, Top.exit, Top.entry} \subseteq DOMAIN blocks
<1>1. Len(frames) \in DOMAIN frames
  BY ShapeFacts
<1> QED BY <1>1, ShapeFacts DEF Top, Shape

LEMMA WithinIs ==
  ASSUME Shape, NEW kinds, Within(kinds)
  PROVE  /\ phase = "lower" /\ frames # <<>> /\ Top.kind \in kinds
         /\ spent' \in 0 .. MaxStatements
         /\ UNCHANGED <<phase, fragment, returns, declared, inited, drops, running>>
BY DEF Within, Shape, StateTypes

LEMMA GotoExit ==
  ASSUME Shape, phase = "lower", frames # <<>>
  PROVE  Goto(Top.exit) \in Jumps /\ Goto(Top.target) \in Jumps
BY TopIs, ShapeFacts DEF Goto, Jumps

LEMMA JustClosed ==
  ASSUME Shape, phase = "lower", NEW t \in Jumps, NEW new, new = Close(blocks, cur, t)
  PROVE  new \in Seq(Blocks) /\ Opens(new, blocks, cur, t, {}, <<>>)
<1>1. blocks \in Seq(Blocks) /\ cur \in DOMAIN blocks /\ t \in Terminators
  BY ShapeFacts DEF Terminators
<1>2. blocks[cur].term = Unreachable /\ blocks[cur].frees = {}
  BY Unfreed
<1>3. new \in Seq(Blocks) /\ Opens(new, blocks, cur, t, blocks[cur].frees, <<>>)
  BY <1>1, <1>2, CloseIs
<1> QED BY <1>2, <1>3

LEMMA ElseIs ==
  ASSUME Shape, Else
  PROVE  Elses
<1>1. /\ phase = "lower" /\ frames # <<>> /\ Top.kind = "then"
      /\ spent' \in 0 .. MaxStatements
      /\ UNCHANGED <<phase, fragment, returns, declared, inited, drops, running>>
  BY WithinIs DEF Else
<1>2. blocks' \in Seq(Blocks) /\ Opens(blocks', blocks, cur, Goto(Top.exit), {}, <<>>)
  BY <1>1, JustClosed, GotoExit DEF Else
<1>3. Jumped(Goto(Top.exit), {}, <<>>)
  BY <1>1, <1>2, GotoExit DEF Jumped
<1>4. PICK f : f = [Top EXCEPT !.kind = "else", !.moved = moved] OBVIOUS
<1>5. /\ f \in Frames /\ f.kind = "else" /\ f.target = Top.target /\ f.exit = Top.exit
      /\ f.entry = Top.entry /\ f.locals = Top.locals
      /\ f.scope = Top.scope /\ f.moved = moved
  <2>1. PICK t : t = Top OBVIOUS
  <2>2. t \in Frames /\ moved \subseteq Locals /\ f = [t EXCEPT !.kind = "else", !.moved = moved]
    BY <1>1, <1>4, <2>1, TopIs, ShapeFacts
  <2>3. /\ f \in Frames /\ f.kind = "else" /\ f.target = t.target /\ f.exit = t.exit
        /\ f.entry = t.entry /\ f.locals = t.locals
        /\ f.scope = t.scope /\ f.moved = moved
    BY <2>2 DEF Frames
  <2> QED BY <2>1, <2>3
<1>6. PICK fs : fs = frames OBVIOUS
<1>7. PICK n : n = Len(frames) OBVIOUS
<1>8. fs \in Seq(Frames) /\ n \in DOMAIN fs
  BY <1>1, <1>6, <1>7, TopIs, ShapeFacts
<1>9. frames' = [fs EXCEPT ![n] = f]
  BY <1>4, <1>6, <1>7, <1>8 DEF Else, Top
<1>10. /\ frames' \in Seq(Frames) /\ DOMAIN frames' = DOMAIN fs /\ frames'[n] = f
       /\ \A i \in DOMAIN fs \ {n} : frames'[i] = fs[i]
  BY <1>5, <1>8, <1>9
<1>11. cur' = Top.target /\ visible' = Top.scope /\ moved' = Top.moved /\ open'
  BY DEF Else
<1> QED BY <1>1, <1>3, <1>5, <1>6, <1>7, <1>10, <1>11 DEF Elses

LEMMA EndIfIs ==
  ASSUME Shape, EndIf
  PROVE  EndsIf
<1>1. /\ phase = "lower" /\ frames # <<>> /\ Top.kind = "else"
      /\ spent' \in 0 .. MaxStatements
      /\ UNCHANGED <<phase, fragment, returns, declared, inited, drops, running>>
  BY WithinIs DEF EndIf
<1>2. blocks' \in Seq(Blocks) /\ Opens(blocks', blocks, cur, Goto(Top.exit), {}, <<>>)
  BY <1>1, JustClosed, GotoExit DEF EndIf
<1>3. Jumped(Goto(Top.exit), {}, <<>>)
  BY <1>1, <1>2, GotoExit DEF Jumped
<1> QED BY <1>1, <1>3 DEF EndIf, EndsIf, Pops, MovedOnABranch

LEMMA EndLoopIs ==
  ASSUME Shape, EndLoop
  PROVE  EndsLoop
<1>1. /\ phase = "lower" /\ frames # <<>> /\ Top.kind = "loop"
      /\ spent' \in 0 .. MaxStatements
      /\ UNCHANGED <<phase, fragment, returns, declared, inited, drops, running>>
  BY WithinIs DEF EndLoop
<1>2. PICK mid : mid = Close(FreeLoopLocals(blocks, cur, Top.locals), cur, Goto(Top.target))
  OBVIOUS
<1>3. PICK free : free = FreeLoopLocals(blocks, cur, Top.locals) OBVIOUS
<1>4. Top.locals \subseteq Locals /\ Top.entry \in DOMAIN blocks
  BY <1>1, TopIs DEF Frames
<1>5. free \in Seq(Blocks) /\ Opens(free, blocks, cur, Unreachable, Top.locals, <<>>)
  BY <1>1, <1>3, <1>4, FreesIs, Unfreed, ShapeFacts
<1>6. /\ DOMAIN free = DOMAIN blocks /\ free[cur].term = Unreachable
      /\ free[cur].frees = Top.locals
  BY <1>5, ShapeFacts DEF Opens
<1>7. /\ mid \in Seq(Blocks)
      /\ Opens(mid, free, cur, Goto(Top.target), Top.locals, <<>>)
  <2>1. mid = Close(free, cur, Goto(Top.target)) /\ Goto(Top.target) \in Terminators
    BY <1>1, <1>2, <1>3, GotoExit DEF Terminators
  <2>2. cur \in DOMAIN free
    BY <1>6, ShapeFacts
  <2>3. mid \in Seq(Blocks) /\ Opens(mid, free, cur, Goto(Top.target), free[cur].frees, <<>>)
    BY <1>5, <1>6, <2>1, <2>2, CloseIs
  <2> QED BY <1>6, <2>3
<1>8. DOMAIN mid = DOMAIN blocks
  BY <1>6, <1>7 DEF Opens
<1>9. ASSUME NEW c \in DOMAIN blocks
      PROVE  /\ mid[c].ins = blocks[c].ins /\ mid[c].clears = blocks[c].clears
             /\ mid[c].frees = IF c = cur THEN Top.locals ELSE blocks[c].frees
             /\ mid[c].term = IF c = cur THEN Goto(Top.target) ELSE blocks[c].term
  BY <1>5, <1>6, <1>7 DEF Opens
<1>10. PICK e : e = Top.entry OBVIOUS
<1>11. PICK blk : blk = [mid[e] EXCEPT !.clears = Top.locals] OBVIOUS
<1>12. mid[e] \in Blocks /\ e \in DOMAIN mid
  BY <1>4, <1>7, <1>8, <1>10, BlockParts
<1>13. /\ blk \in Blocks /\ blk.ins = mid[e].ins /\ blk.frees = mid[e].frees
       /\ blk.term = mid[e].term /\ blk.clears = Top.locals
  BY <1>4, <1>11, <1>12 DEF Blocks
<1>14. blocks' = [mid EXCEPT ![e] = blk]
  BY <1>2, <1>10, <1>11 DEF EndLoop
<1>15. /\ DOMAIN blocks' = DOMAIN mid /\ blocks'[e] = blk
       /\ \A c \in DOMAIN mid \ {e} : blocks'[c] = mid[c]
  BY <1>12, <1>14
<1>16. blocks' \in Seq(Blocks)
  BY <1>7, <1>12, <1>13, <1>14
<1>17. ASSUME NEW c \in DOMAIN blocks
       PROVE  /\ blocks'[c].ins = mid[c].ins /\ blocks'[c].frees = mid[c].frees
              /\ blocks'[c].term = mid[c].term
              /\ blocks'[c].clears = IF c = e THEN Top.locals ELSE mid[c].clears
  BY <1>8, <1>13, <1>15
<1>18. Pops /\ moved' = moved
  BY <1>1 DEF EndLoop, Pops
<1> QED
  BY <1>1, <1>8, <1>9, <1>10, <1>15, <1>16, <1>17, <1>18, GotoExit DEF EndsLoop

LEMMA LeavesIs ==
  ASSUME Shape, phase = "lower", NEW t \in Jumps, NEW xs \in SUBSET Locals,
         NEW bs, bs \in Seq(Blocks), Opens(bs, blocks, cur, t, xs, <<>>),
         JumpWith(bs), spent' \in 0 .. MaxStatements,
         UNCHANGED <<phase, fragment, returns, drops, running>>
  PROVE  Leaves(t, xs)
<1>1. /\ blocks' = Append(bs, NewBlock) /\ cur' = Len(bs) + 1 /\ open' = FALSE
      /\ UNCHANGED <<frames, declared, visible, moved, inited>>
  BY DEF JumpWith
<1>2. blocks' = bs \o <<NewBlock>>
  BY <1>1, NewBlockIs, AppendIsConcat
<1>3. /\ blocks' \in Seq(Blocks) /\ Len(blocks') = Len(bs) + 1
      /\ \A c \in DOMAIN bs : blocks'[c] = bs[c]
      /\ \A j \in DOMAIN <<NewBlock>> : blocks'[Len(bs) + j] = <<NewBlock>>[j]
  <2>1. PICK more : more = <<NewBlock>> OBVIOUS
  <2>2. more \in Seq(Blocks) /\ Len(more) = 1 /\ blocks' = bs \o more
    BY <1>2, <2>1, Openings
  <2>3. PICK new : new = blocks' OBVIOUS
  <2>4. new = bs \o more
    BY <2>2, <2>3
  <2>6. bs \in Seq(Blocks) /\ more \in Seq(Blocks)
    BY <2>2
  <2>5. /\ new \in Seq(Blocks) /\ Len(new) = Len(bs) + Len(more)
        /\ \A c \in DOMAIN bs : new[c] = bs[c]
        /\ \A j \in DOMAIN more : new[Len(bs) + j] = more[j]
    BY ONLY <2>4, <2>6, AppendedIs
  <2> QED BY <2>1, <2>2, <2>3, <2>5
<1>4. Len(bs) = Len(blocks) /\ DOMAIN bs = DOMAIN blocks
  BY ShapeFacts DEF Opens
<1>5. Opens(blocks', blocks, cur, t, xs, <<NewBlock>>)
  <2>1. Len(<<NewBlock>>) = 1
    BY Openings
  <2> QED BY <1>3, <1>4, <2>1, ShapeFacts DEF Opens
<1> QED BY <1>1, <1>3, <1>4, <1>5, Openings DEF Leaves, Jumped

LEMMA BreakOrContinueIs ==
  ASSUME Shape, BreakOrContinue
  PROVE  /\ InLoop
         /\ \E b \in {Innermost.exit, Innermost.target} : Leaves(Goto(b), Innermost.locals)
<1>1. PICK how \in {"break", "continue"} :
        /\ Write(how) /\ InLoop
        /\ JumpWith(Close(FreeLoopLocals(blocks, cur, Innermost.locals), cur,
                      Goto(IF how = "break" THEN Innermost.exit
                           ELSE Innermost.target)))
  BY DEF BreakOrContinue
<1>2. PICK b \in {Innermost.exit, Innermost.target} :
        JumpWith(Close(FreeLoopLocals(blocks, cur, Innermost.locals), cur, Goto(b)))
  BY <1>1
<1>3. /\ phase = "lower" /\ spent' \in 0 .. MaxStatements
      /\ UNCHANGED <<phase, fragment, returns, drops, running>>
  BY <1>1, WriteIs
<1>4. Innermost \in Frames
  BY <1>1, LoopAtIs
<1>5. b \in Nat /\ Innermost.locals \subseteq Locals
  BY <1>4 DEF Frames
<1>6. Goto(b) \in Jumps
  BY <1>5 DEF Goto, Jumps
<1>7. PICK free : free = FreeLoopLocals(blocks, cur, Innermost.locals) OBVIOUS
<1>8. PICK bs : bs = Close(free, cur, Goto(b)) OBVIOUS
<1>9. free \in Seq(Blocks) /\ Opens(free, blocks, cur, Unreachable, Innermost.locals, <<>>)
  BY <1>3, <1>5, <1>7, FreesIs, Unfreed, ShapeFacts
<1>10. /\ DOMAIN free = DOMAIN blocks /\ free[cur].term = Unreachable
       /\ free[cur].frees = Innermost.locals /\ Len(free) = Len(blocks)
  BY <1>9, ShapeFacts DEF Opens
<1>11. /\ bs \in Seq(Blocks)
       /\ Opens(bs, free, cur, Goto(b), Innermost.locals, <<>>)
  <2>1. Goto(b) \in Terminators /\ cur \in DOMAIN free
    BY <1>6, <1>10, ShapeFacts DEF Terminators
  <2>2. bs \in Seq(Blocks) /\ Opens(bs, free, cur, Goto(b), free[cur].frees, <<>>)
    BY <1>8, <1>9, <1>10, <2>1, CloseIs
  <2> QED BY <1>10, <2>2
<1>12. Opens(bs, blocks, cur, Goto(b), Innermost.locals, <<>>)
  BY <1>9, <1>10, <1>11 DEF Opens
<1>13. JumpWith(bs)
  BY <1>2, <1>7, <1>8
<1>14. Leaves(Goto(b), Innermost.locals)
  BY <1>3, <1>5, <1>6, <1>11, <1>12, <1>13, LeavesIs
<1> QED BY <1>1, <1>14

LEMMA ReturnedValue ==
  ASSUME Shape, NEW x \in Readable \cup {0}
  PROVE  Return(x) \in Jumps
<1>1. x \in {0} \cup Locals
  BY ReadFacts
<1> QED BY <1>1 DEF Return, Jumps

LEMMA ReturnEarlyIs ==
  ASSUME Shape, ReturnEarly
  PROVE  /\ May("return")
         /\ \E x \in Readable \cup {0} : Leaves(Return(x), {})
<1>1. PICK x \in Readable \cup {0} : JumpWith(Close(blocks, cur, Return(x)))
  BY DEF ReturnEarly
<1>2. /\ phase = "lower" /\ spent' \in 0 .. MaxStatements /\ May("return")
      /\ UNCHANGED <<phase, fragment, returns, drops, running>>
  BY WriteIs DEF ReturnEarly
<1>3. PICK bs : bs = Close(blocks, cur, Return(x)) OBVIOUS
<1>4. bs \in Seq(Blocks) /\ Opens(bs, blocks, cur, Return(x), {}, <<>>)
  BY <1>2, <1>3, JustClosed, ReturnedValue
<1>5. JumpWith(bs)
  BY <1>1, <1>3
<1>6. Leaves(Return(x), {})
  BY <1>2, <1>4, <1>5, LeavesIs, ReturnedValue
<1> QED BY <1>2, <1>6

LEMMA EndBodyIs ==
  ASSUME Shape, EndBody
  PROVE  EndsBody
<1>1. PICK x \in Readable \cup {0} : blocks' = Close(blocks, cur, Return(x))
  BY DEF EndBody
<1>2. /\ phase = "lower" /\ frames = <<>> /\ phase' = "elaborate"
      /\ UNCHANGED <<fragment, returns, cur, frames, declared, visible, moved,
                 inited, open, spent, drops, running>>
  BY DEF EndBody
<1>3. blocks' \in Seq(Blocks) /\ Opens(blocks', blocks, cur, Return(x), {}, <<>>)
  BY <1>1, <1>2, JustClosed, ReturnedValue
<1>4. spent' \in 0 .. MaxStatements
  BY <1>2 DEF Shape, StateTypes
<1>5. Jumped(Return(x), {}, <<>>)
  BY <1>2, <1>3, <1>4, ReturnedValue DEF Jumped
<1> QED BY <1>2, <1>5 DEF EndsBody

-----------------------------------------------------------------------------
(* The shape is kept *)

LEMMA ShapeInit ==
  ASSUME Init
  PROVE  Shape
<1>1. blocks \in Seq(Blocks) /\ Len(blocks) = 1 /\ blocks[1] = NewBlock /\ DOMAIN blocks = 1 .. 1
  <2>1. PICK nb : nb = NewBlock OBVIOUS
  <2>2. blocks = <<nb>> /\ nb \in Blocks
    BY <2>1, NewBlockIs DEF Init
  <2> QED BY <2>1, <2>2
<1>2. mem \in Memory
  BY Constants DEF Init, Memory, Unset, Faults
<1>3. StateTypes
  BY <1>1, <1>2, BoundsAssumption DEF Init, StateTypes
<1>4. frames \in Seq(Frames) /\ DOMAIN frames = {} /\ cur = 1 /\ phase = "lower"
  BY DEF Init
<1>5. Targets(blocks) /\ Lowering
  BY <1>1, <1>4, NewBlockIs, TerminatorsAre DEF Targets, Lowering
<1> QED BY <1>1, <1>3, <1>4, <1>5 DEF Shape

LEMMA RelistedPending ==
  ASSUME NEW new, NEW old, Relisted(new, old)
  PROVE  \A i \in DOMAIN old : Pending(new[i]) = Pending(old[i])
BY DEF Relisted, Pending

LEMMA ShapeEmits ==
  ASSUME Shape, NEW is, Emits(is), declared' \in 0 .. MaxLocals, declared <= declared',
         visible' \cup inited' \cup moved' \subseteq 1 .. declared',
         \A i \in DOMAIN frames : frames'[i].locals \subseteq 1 .. declared'
  PROVE  Shape'
<1>1. /\ phase = "lower" /\ phase' = phase /\ fragment' = fragment /\ returns' = returns
      /\ mem' = mem /\ at' = at /\ jumps' = jumps /\ cur' = cur /\ open' = open
      /\ blocks' \in Seq(Blocks) /\ frames' \in Seq(Frames) /\ spent' \in 0 .. MaxStatements
  BY DEF Emits, running
<1>2. /\ DOMAIN blocks' = DOMAIN blocks
      /\ \A b \in DOMAIN blocks : /\ blocks'[b].term = blocks[b].term
                                  /\ blocks'[b].frees = blocks[b].frees
                                  /\ b # cur => blocks'[b].ins = blocks[b].ins
  BY DEF Emits, Grows
<1>3. /\ DOMAIN frames' = DOMAIN frames
      /\ \A i \in DOMAIN frames :
           /\ frames'[i].kind = frames[i].kind /\ frames'[i].target = frames[i].target
           /\ frames'[i].exit = frames[i].exit /\ frames'[i].entry = frames[i].entry
           /\ frames'[i].scope = frames[i].scope /\ frames'[i].moved = frames[i].moved
           /\ Pending(frames'[i]) = Pending(frames[i])
  BY RelistedPending DEF Emits, Relisted
<1>4. StateTypes'
  BY <1>1, <1>2 DEF Shape, StateTypes
<1>5. Targets(blocks')
  BY <1>2 DEF Shape, Targets
<1>6. \A i \in DOMAIN frames' :
       /\ {frames'[i].target, frames'[i].exit, frames'[i].entry} \subseteq DOMAIN blocks'
       /\ frames'[i].locals \cup frames'[i].scope \cup frames'[i].moved \subseteq 1 .. declared'
  <2>1. 1 .. declared \subseteq 1 .. declared'
    BY ShapeFacts
  <2> QED BY <1>2, <1>3, <2>1, SMTT(30) DEF Shape
<1>7. Lowering'
  <2>1. Lowering
    BY <1>1 DEF Shape
  <2>2. cur \in DOMAIN blocks /\ blocks'[cur'].term = Unreachable
    BY <1>1, <1>2, <2>1, ShapeFacts DEF Lowering
  <2>3. \A b \in DOMAIN blocks' : blocks'[b].term = Unreachable =>
       /\ blocks'[b].frees = {}
       /\ b = cur' \/ \E i \in DOMAIN frames' : b \in Pending(frames'[i])
    BY <1>1, <1>2, <1>3, <2>1 DEF Lowering
  <2>4. ASSUME NEW i \in DOMAIN frames'
        PROVE  /\ cur' \notin Pending(frames'[i])
               /\ frames'[i].kind = "then" => frames'[i].target # frames'[i].exit
               /\ \A p \in Pending(frames'[i]) :
                    blocks'[p].ins = <<>> /\ blocks'[p].term = Unreachable
    <3>1. \A p \in Pending(frames[i]) : p \in DOMAIN blocks /\ p # cur
      BY <1>3, <2>1 DEF Shape, Pending, Lowering
    <3> QED BY <1>1, <1>2, <1>3, <2>1, <3>1 DEF Lowering
  <2>5. \A i, j \in DOMAIN frames' :
       /\ i # j => Pending(frames'[i]) \cap Pending(frames'[j]) = {}
       /\ frames'[j].kind = "loop" =>
            {frames'[j].target, frames'[j].entry} \cap Pending(frames'[i]) = {}
    BY <1>3, <2>1 DEF Lowering
  <2> QED BY <2>2, <2>3, <2>4, <2>5 DEF Lowering
<1> QED BY <1>1, <1>4, <1>5, <1>6, <1>7 DEF Shape

LEMMA JumpsEnd ==
  \A t \in Jumps : t # Unreachable
BY DEF Jumps, Unreachable

LEMMA FrameTypes ==
  ASSUME Shape, NEW i \in DOMAIN frames
  PROVE  /\ {frames[i].target, frames[i].exit, frames[i].entry} \subseteq DOMAIN blocks
         /\ frames[i].locals \cup frames[i].scope \cup frames[i].moved \subseteq 1 .. declared
BY DEF Shape

\* Blocks in which no construct is under way: what a jump leaves of them.
LEMMA JumpedBlocks ==
  ASSUME Shape, NEW t, NEW xs, NEW more, Jumped(t, xs, more), NEW n, n = Len(blocks)
  PROVE  /\ phase = "lower" /\ n \in Nat /\ cur \in 1 .. n /\ DOMAIN blocks = 1 .. n
         /\ blocks' \in Seq(Blocks) /\ DOMAIN blocks' = 1 .. n + Len(more)
         /\ Len(more) \in Nat /\ DOMAIN more = 1 .. Len(more)
         /\ blocks'[cur].term = t /\ blocks'[cur].frees = xs
         /\ \A b \in 1 .. n : /\ blocks'[b].ins = blocks[b].ins
                              /\ blocks'[b].clears = blocks[b].clears
                              /\ b # cur => /\ blocks'[b].term = blocks[b].term
                                            /\ blocks'[b].frees = blocks[b].frees
         /\ \A b \in 1 .. n + Len(more) : b \notin 1 .. n =>
              /\ b - n \in 1 .. Len(more) /\ blocks'[b] = more[b - n]
         /\ t # Unreachable
<1>1. /\ phase = "lower" /\ t \in Jumps /\ more \in Seq(Blocks)
      /\ blocks' \in Seq(Blocks) /\ Opens(blocks', blocks, cur, t, xs, more)
  BY DEF Jumped
<1>2. blocks \in Seq(Blocks) /\ cur \in DOMAIN blocks
  BY ShapeFacts
<1>3. t # Unreachable
  BY <1>1, JumpsEnd
<1>4. PICK new : new = blocks' OBVIOUS
<1>5. /\ DOMAIN blocks = 1 .. Len(blocks) /\ DOMAIN new = 1 .. Len(blocks) + Len(more)
      /\ Len(blocks) \in Nat /\ Len(more) \in Nat /\ DOMAIN more = 1 .. Len(more)
      /\ \A c \in DOMAIN blocks : new[c].ins = blocks[c].ins /\ new[c].clears = blocks[c].clears
  BY <1>1, <1>2, <1>4, OpensDomain
<1>6. ASSUME NEW b \in 1 .. n + Len(more), b \notin 1 .. n
      PROVE  b - n \in 1 .. Len(more) /\ new[b] = more[b - n]
  <2>1. b - n \in 1 .. Len(more) /\ n + (b - n) = b
    BY <1>5, <1>6
  <2> QED BY <1>1, <1>4, <1>5, <2>1 DEF Opens
<1>7. /\ new[cur].term = t /\ new[cur].frees = xs
      /\ \A b \in 1 .. n \ {cur} : new[b] = blocks[b]
  BY <1>1, <1>4, <1>5 DEF Opens
<1> QED BY <1>1, <1>2, <1>3, <1>4, <1>5, <1>6, <1>7

\* The types of a state that a jump leads to.
LEMMA JumpedTypes ==
  ASSUME Shape, NEW t, NEW xs, NEW more, Jumped(t, xs, more),
         phase' \in {"lower", "elaborate"}, cur' \in DOMAIN blocks', open' \in BOOLEAN,
         visible' \cup moved' \subseteq 1 .. declared
  PROVE  StateTypes'
<1>1. DOMAIN blocks \subseteq DOMAIN blocks'
  <2>1. PICK n : n = Len(blocks) OBVIOUS
  <2>2. /\ n \in Nat /\ DOMAIN blocks = 1 .. n /\ Len(more) \in Nat
        /\ DOMAIN blocks' = 1 .. n + Len(more)
    BY <2>1, JumpedBlocks
  <2> QED BY <2>2
<1>2. /\ spent' \in 0 .. MaxStatements
      /\ UNCHANGED <<fragment, returns, declared, inited, drops, at, jumps, mem>>
  BY DEF Jumped, running
<1> QED BY <1>1, <1>2 DEF Shape, StateTypes

LEMMA JumpedTargets ==
  ASSUME Shape, NEW t, NEW xs, NEW more, Jumped(t, xs, more), NEW n, n = Len(blocks),
         t.kind # "return" => {t.then, t.else} \subseteq 1 .. n + Len(more),
         \A j \in DOMAIN more :
           more[j].term \in Jumps => {more[j].term.then, more[j].term.else}
                                       \subseteq 1 .. n + Len(more)
  PROVE  Targets(blocks')
<1> SUFFICES ASSUME NEW b \in DOMAIN blocks', blocks'[b].term \in Jumps,
                    blocks'[b].term.kind # "return"
             PROVE  {blocks'[b].term.then, blocks'[b].term.else} \subseteq DOMAIN blocks'
  BY DEF Targets
<1>1. CASE b = cur
  BY <1>1, JumpedBlocks
<1>2. CASE b \in 1 .. n /\ b # cur
  <2>1. blocks'[b].term = blocks[b].term /\ DOMAIN blocks \subseteq DOMAIN blocks'
         /\ b \in DOMAIN blocks
    BY <1>2, JumpedBlocks
  <2> QED BY <2>1 DEF Shape, Targets
<1>3. CASE b \notin 1 .. n
  <2>1. /\ b \in 1 .. n + Len(more) /\ DOMAIN more = 1 .. Len(more)
        /\ DOMAIN blocks' = 1 .. n + Len(more)
    BY JumpedBlocks
  <2>2. b - n \in DOMAIN more /\ blocks'[b] = more[b - n]
    BY <1>3, <2>1, JumpedBlocks
  <2> QED BY <2>1, <2>2
<1> QED BY <1>1, <1>2, <1>3

LEMMA AppendedIsOne ==
  ASSUME NEW fs \in Seq(Frames), NEW f \in Frames, NEW new, new = Append(fs, f)
  PROVE  /\ new \in Seq(Frames) /\ DOMAIN new = 1 .. Len(fs) + 1
         /\ DOMAIN fs = 1 .. Len(fs) /\ Len(fs) \in Nat
         /\ new[Len(fs) + 1] = f
         /\ \A i \in DOMAIN fs : new[i] = fs[i]
         /\ \A i \in DOMAIN new : i \in DOMAIN fs \/ new[i] = f
OBVIOUS

LEMMA ShapeOpening ==
  ASSUME Shape, NEW t, NEW more, NEW f, Opening(t, more, f), NEW n, n = Len(blocks),
         Opened(n, t, more, f)
  PROVE  Shape'
<1>1. /\ Jumped(t, {}, more) /\ f \in Frames /\ frames' = Append(frames, f)
      /\ phase' = phase /\ visible' = visible /\ moved' = moved /\ open' = open
      /\ declared' = declared
  BY DEF Opening, Jumped
<1>2. /\ phase = "lower" /\ n \in Nat /\ cur \in 1 .. n /\ DOMAIN blocks = 1 .. n
      /\ blocks' \in Seq(Blocks) /\ DOMAIN blocks' = 1 .. n + Len(more)
      /\ Len(more) \in Nat /\ DOMAIN more = 1 .. Len(more)
      /\ blocks'[cur].term # Unreachable
      /\ \A b \in 1 .. n : /\ blocks'[b].ins = blocks[b].ins
                           /\ b # cur => /\ blocks'[b].term = blocks[b].term
                                         /\ blocks'[b].frees = blocks[b].frees
      /\ \A b \in 1 .. n + Len(more) : b \notin 1 .. n =>
           b - n \in 1 .. Len(more) /\ blocks'[b] = more[b - n]
  BY <1>1, JumpedBlocks, SMTT(30)
<1>3. cur' \in DOMAIN blocks' /\ cur' \notin 1 .. n /\ cur' - n \in 1 .. Len(more)
  BY <1>2 DEF Opened
<1>4. StateTypes'
  BY <1>1, <1>2, <1>3, JumpedTypes, ShapeFacts DEF Shape, StateTypes
<1>5. Targets(blocks')
  <2>1. /\ {t.then, t.else} \subseteq 1 .. n + Len(more)
        /\ \A j \in DOMAIN more :
             more[j].term \in Jumps => {more[j].term.then, more[j].term.else}
                                         \subseteq 1 .. n + Len(more)
    BY DEF Opened
  <2> QED BY <1>1, <2>1, JumpedTargets
<1>6. /\ frames' \in Seq(Frames) /\ DOMAIN frames \subseteq DOMAIN frames'
      /\ \A i \in DOMAIN frames : frames'[i] = frames[i]
      /\ \A i \in DOMAIN frames' : i \in DOMAIN frames \/ frames'[i] = f
      /\ \A i, j \in DOMAIN frames' : i \notin DOMAIN frames /\ j \notin DOMAIN frames => i = j
      /\ \E i \in DOMAIN frames' : frames'[i] = f
  <2>1. PICK new : new = frames' OBVIOUS
  <2>2. /\ new \in Seq(Frames) /\ DOMAIN new = 1 .. Len(frames) + 1
        /\ DOMAIN frames = 1 .. Len(frames) /\ Len(frames) \in Nat
        /\ new[Len(frames) + 1] = f
        /\ \A i \in DOMAIN frames : new[i] = frames[i]
        /\ \A i \in DOMAIN new : i \in DOMAIN frames \/ new[i] = f
    <3>1. PICK fs : fs = frames OBVIOUS
    <3>2. new = Append(fs, f) /\ f \in Frames /\ fs \in Seq(Frames)
      BY <1>1, <2>1, <3>1, ShapeFacts
    <3>3. /\ new \in Seq(Frames) /\ DOMAIN new = 1 .. Len(fs) + 1
          /\ DOMAIN fs = 1 .. Len(fs) /\ Len(fs) \in Nat
          /\ new[Len(fs) + 1] = f
          /\ \A i \in DOMAIN fs : new[i] = fs[i]
          /\ \A i \in DOMAIN new : i \in DOMAIN fs \/ new[i] = f
      BY ONLY <3>2, AppendedIsOne
    <3> QED BY <3>1, <3>3
  <2> QED BY <2>1, <2>2
<1>7. \A i \in DOMAIN frames' :
       /\ {frames'[i].target, frames'[i].exit, frames'[i].entry} \subseteq DOMAIN blocks'
       /\ frames'[i].locals \cup frames'[i].scope \cup frames'[i].moved \subseteq 1 .. declared'
  <2> SUFFICES ASSUME NEW i \in DOMAIN frames'
               PROVE  /\ {frames'[i].target, frames'[i].exit, frames'[i].entry} \subseteq DOMAIN blocks'
                      /\ frames'[i].locals \cup frames'[i].scope \cup frames'[i].moved
                           \subseteq 1 .. declared'
    OBVIOUS
  <2>1. CASE i \in DOMAIN frames
    BY <1>1, <1>2, <1>6, <2>1, FrameTypes, SMTT(30)
  <2>2. CASE frames'[i] = f
    <3>1. {f.target, f.exit, f.entry} \subseteq 1 .. n + Len(more)
      <4>1. /\ f.target \in n + 1 .. n + Len(more) /\ f.exit \in n + 1 .. n + Len(more)
            /\ f.entry \in 1 .. n + Len(more)
        BY DEF Opened
      <4> QED BY <1>2, <4>1
    <3>2. f.locals \cup f.scope \cup f.moved \subseteq 1 .. declared
      BY DEF Opened
    <3> QED BY <1>1, <1>2, <2>2, <3>1, <3>2
  <2> QED BY <1>6, <2>1, <2>2
<1>8. Lowering'
  <2>1. Lowering
    BY <1>2 DEF Shape
  <2>2. blocks'[cur'].term = Unreachable
    <3>1. PICK c : c = cur' OBVIOUS
    <3>2. c \in 1 .. n + Len(more) /\ c \notin 1 .. n
      BY <1>2, <1>3, <3>1
    <3>3. n + (c - n) = c /\ c - n \in DOMAIN more
      <4>1. n \in Nat /\ Len(more) \in Nat /\ DOMAIN more = 1 .. Len(more)
        BY <1>2
      <4> QED BY ONLY <3>2, <4>1
    <3>4. blocks'[c] = more[c - n]
      BY <1>2, <3>2
    <3>5. \A j \in DOMAIN more : n + j = c => more[j].term = Unreachable
      BY <3>1 DEF Opened
    <3> QED BY <3>1, <3>3, <3>4, <3>5
  <2>3. ASSUME NEW b \in DOMAIN blocks', blocks'[b].term = Unreachable
        PROVE  /\ blocks'[b].frees = {}
               /\ b = cur' \/ \E i \in DOMAIN frames' : b \in Pending(frames'[i])
    <3>1. CASE b \in 1 .. n
      <4>1. b # cur /\ blocks[b].term = Unreachable /\ blocks'[b].frees = blocks[b].frees
        BY <1>2, <2>3, <3>1
      <4>2. PICK i \in DOMAIN frames : b \in Pending(frames[i])
        BY <1>2, <2>1, <3>1, <4>1 DEF Lowering
      <4>3. blocks[b].frees = {}
        BY <1>2, <2>1, <3>1, <4>1 DEF Lowering
      <4> QED BY <1>6, <4>1, <4>2, <4>3
    <3>2. CASE b \notin 1 .. n
      <4>1. b - n \in 1 .. Len(more) /\ blocks'[b] = more[b - n] /\ n + (b - n) = b
        BY <1>2, <3>2
      <4>2. more[b - n].frees = {} /\ (b = cur' \/ b \in Pending(f))
        BY <1>2, <2>3, <4>1 DEF Opened
      <4> QED BY <1>6, <4>1, <4>2
    <3> QED BY <3>1, <3>2
  <2>4. ASSUME NEW i \in DOMAIN frames, NEW p \in Pending(frames[i])
        PROVE  p \in 1 .. n /\ p # cur /\ p # cur' /\ p \notin Pending(f)
    <3>1. p \in 1 .. n /\ p # cur
      BY <1>2, <2>1 DEF Shape, Pending, Lowering
    <3> QED BY <1>2, <1>3, <3>1 DEF Opened
  <2>5. ASSUME NEW i \in DOMAIN frames'
        PROVE  /\ cur' \notin Pending(frames'[i])
               /\ frames'[i].kind = "then" => frames'[i].target # frames'[i].exit
               /\ \A p \in Pending(frames'[i]) :
                    blocks'[p].ins = <<>> /\ blocks'[p].term = Unreachable
    <3>1. CASE i \in DOMAIN frames
      <4>1. /\ frames[i].kind = "then" => frames[i].target # frames[i].exit
            /\ \A p \in Pending(frames[i]) :
                 blocks[p].ins = <<>> /\ blocks[p].term = Unreachable
        BY <2>1, <3>1 DEF Lowering
      <4> QED BY <1>2, <1>6, <2>4, <3>1, <4>1
    <3>2. CASE frames'[i] = f
      <4>1. ASSUME NEW p \in Pending(f)
            PROVE  blocks'[p].ins = <<>> /\ blocks'[p].term = Unreachable
        <5>1. p \in 1 .. n + Len(more) /\ p \notin 1 .. n /\ n + (p - n) = p
          BY <1>2 DEF Opened
        <5>2. p - n \in DOMAIN more /\ blocks'[p] = more[p - n]
          BY <1>2, <5>1
        <5>3. \A j \in DOMAIN more : more[j].ins = <<>> /\
                (n + j \in Pending(f) => more[j].term = Unreachable)
          BY DEF Opened
        <5> QED BY <5>1, <5>2, <5>3
      <4> QED BY <3>2, <4>1 DEF Opened
    <3> QED BY <1>6, <3>1, <3>2
  <2>6. ASSUME NEW i \in DOMAIN frames', NEW j \in DOMAIN frames'
        PROVE  /\ i # j => Pending(frames'[i]) \cap Pending(frames'[j]) = {}
               /\ frames'[j].kind = "loop" =>
                    {frames'[j].target, frames'[j].entry} \cap Pending(frames'[i]) = {}
    <3>1. CASE i \in DOMAIN frames /\ j \in DOMAIN frames
      BY <1>6, <2>1, <3>1 DEF Lowering
    <3>2. CASE i \in DOMAIN frames /\ j \notin DOMAIN frames
      <4>1. frames'[i] = frames[i] /\ frames'[j] = f
        BY <1>6, <3>2
      <4>2. f.kind = "loop" => {f.target, f.entry} \cap 1 .. n = {}
        BY <1>2 DEF Opened
      <4> QED BY <2>4, <3>2, <4>1, <4>2
    <3>3. CASE i \notin DOMAIN frames /\ j \in DOMAIN frames
      <4>1. frames'[j] = frames[j] /\ frames'[i] = f
        BY <1>6, <3>3
      <4>2. {frames[j].target, frames[j].entry} \subseteq 1 .. n
        BY <1>2, <3>3 DEF Shape
      <4>3. Pending(f) \cap 1 .. n = {}
        BY <1>2 DEF Opened
      <4> QED BY <2>4, <3>3, <4>1, <4>2, <4>3
    <3>4. CASE i \notin DOMAIN frames /\ j \notin DOMAIN frames
      <4>1. i = j /\ frames'[i] = f
        BY <1>6, <3>4
      <4> QED BY <4>1 DEF Opened
    <3> QED BY <3>1, <3>2, <3>3, <3>4
  <2> QED BY <2>2, <2>3, <2>5, <2>6 DEF Lowering
<1> QED BY <1>1, <1>2, <1>4, <1>5, <1>6, <1>7, <1>8 DEF Shape

LEMMA ThreeIs ==
  ASSUME NEW n \in Nat
  PROVE  /\ \A j \in DOMAIN Three : Three[j] = NewBlock
         /\ DOMAIN Three = 1 .. 3 /\ Len(Three) = 3
         /\ LET more == <<Header(n), NewBlock, NewBlock>>
            IN /\ DOMAIN more = 1 .. 3 /\ Len(more) = 3
               /\ more[1] = Header(n) /\ more[2] = NewBlock /\ more[3] = NewBlock
         /\ LET more == <<NewBlock, NewBlock>>
            IN /\ DOMAIN more = 1 .. 2 /\ Len(more) = 2
               /\ more[1] = NewBlock /\ more[2] = NewBlock
BY DEF Three

LEMMA BranchIs ==
  ASSUME NEW b \in Nat, NEW c \in Nat
  PROVE  /\ Goto(b).kind = "goto" /\ Goto(b).then = b /\ Goto(b).else = b
         /\ Branch(b, c).kind = "branch" /\ Branch(b, c).then = b /\ Branch(b, c).else = c
         /\ Goto(b) \in Jumps /\ Branch(b, c) \in Jumps
         /\ Goto(b) # Unreachable /\ Branch(b, c) # Unreachable
BY DEF Goto, Branch, Unreachable, Jumps

LEMMA FramesAre ==
  ASSUME NEW b, NEW c, NEW e
  PROVE  /\ LET f == IfFrame(b, c)
            IN /\ f.kind = "then" /\ f.target = b /\ f.exit = c /\ f.entry = cur
               /\ f.locals = {} /\ f.scope = visible /\ f.moved = moved
               /\ Pending(f) = {b, c}
         /\ LET f == LoopFrame(b, c, e)
            IN /\ f.kind = "loop" /\ f.target = b /\ f.exit = c /\ f.entry = e
               /\ f.locals = {} /\ f.scope = visible /\ f.moved = moved
               /\ Pending(f) = {c}
BY DEF IfFrame, LoopFrame, Pending

LEMMA IfOpened ==
  ASSUME Shape, NEW n, n = Len(blocks), Ifs(n)
  PROVE  Opened(n, Branch(n + 1, n + 2), Three, IfFrame(n + 2, n + 3))
<1>1. n \in Nat /\ cur \in 1 .. n /\ visible \cup moved \subseteq 1 .. declared
  BY ShapeFacts
<1>2. cur' = n + 1
  BY DEF Ifs
<1>3. PICK f : f = IfFrame(n + 2, n + 3) OBVIOUS
<1>4. PICK t : t = Branch(n + 1, n + 2) OBVIOUS
<1>5. /\ f.kind = "then" /\ f.target = n + 2 /\ f.exit = n + 3 /\ f.entry = cur
      /\ f.locals = {} /\ f.scope = visible /\ f.moved = moved
      /\ Pending(f) = {n + 2, n + 3}
  BY <1>3 DEF IfFrame, Pending
<1>6. t.then = n + 1 /\ t.else = n + 2
  BY <1>1, <1>4, BranchIs
<1>7. DOMAIN Three = 1 .. 3 /\ Len(Three) = 3 /\ \A j \in 1 .. 3 : Three[j] = NewBlock
  BY <1>1, ThreeIs
<1>8. /\ NewBlock.ins = <<>> /\ NewBlock.term = Unreachable
      /\ NewBlock.clears = {} /\ NewBlock.frees = {} /\ Unreachable \notin Jumps
  BY NewBlockIs, JumpsEnd
<1>9. ASSUME NEW j \in 1 .. 3
      PROVE  n + j = cur' \/ n + j \in Pending(f)
  BY <1>1, <1>2, <1>5
<1>10. Opened(n, t, Three, f)
  BY <1>1, <1>2, <1>5, <1>6, <1>7, <1>8, <1>9 DEF Opened
<1> QED BY <1>3, <1>4, <1>10

LEMMA WhileOpened ==
  ASSUME Shape, NEW n, n = Len(blocks), Whiles(n)
  PROVE  Opened(n, Goto(n + 1), <<Header(n), NewBlock, NewBlock>>,
                LoopFrame(n + 1, n + 3, n + 2))
<1>1. n \in Nat /\ cur \in 1 .. n /\ visible \cup moved \subseteq 1 .. declared
  BY ShapeFacts
<1>2. cur' = n + 2
  BY DEF Whiles
<1>3. PICK f : f = LoopFrame(n + 1, n + 3, n + 2) OBVIOUS
<1>4. PICK t : t = Goto(n + 1) OBVIOUS
<1>5. /\ f.kind = "loop" /\ f.target = n + 1 /\ f.exit = n + 3 /\ f.entry = n + 2
      /\ f.locals = {} /\ f.scope = visible /\ f.moved = moved
      /\ Pending(f) = {n + 3}
  BY <1>3, FramesAre
<1>6. t.then = n + 1 /\ t.else = n + 1
  BY <1>1, <1>4, BranchIs
<1>7. PICK more : more = <<Header(n), NewBlock, NewBlock>> OBVIOUS
<1>8. /\ DOMAIN more = 1 .. 3 /\ Len(more) = 3
      /\ more[1] = Header(n) /\ more[2] = NewBlock /\ more[3] = NewBlock
  BY <1>1, <1>7, ThreeIs
<1>9. /\ NewBlock.ins = <<>> /\ NewBlock.term = Unreachable
      /\ NewBlock.clears = {} /\ NewBlock.frees = {} /\ Unreachable \notin Jumps
      /\ Header(n).ins = <<>> /\ Header(n).clears = {} /\ Header(n).frees = {}
      /\ Header(n).term.then = n + 2 /\ Header(n).term.else = n + 3
      /\ Header(n).term # Unreachable
  <2>1. /\ Header(n).ins = <<>> /\ Header(n).clears = {} /\ Header(n).frees = {}
        /\ Header(n).term = Branch(n + 2, n + 3)
    BY <1>1, Openings
  <2>2. n + 2 \in Nat /\ n + 3 \in Nat
    BY <1>1
  <2>3. /\ Branch(n + 2, n + 3).then = n + 2 /\ Branch(n + 2, n + 3).else = n + 3
        /\ Branch(n + 2, n + 3) # Unreachable
    BY <2>2, BranchIs
  <2> QED BY <2>1, <2>3, NewBlockIs, JumpsEnd
<1>10. ASSUME NEW j \in 1 .. 3
       PROVE  /\ more[j].frees = {} /\ more[j].ins = <<>> /\ more[j].clears = {}
              /\ more[j].term \in Jumps => {more[j].term.then, more[j].term.else}
                                             \subseteq 1 .. n + 3
              /\ more[j].term = Unreachable <=> n + j = cur' \/ n + j \in Pending(f)
  <2>1. CASE j = 1
    <3>1. ~(n + j = cur' \/ n + j \in Pending(f)) /\ {n + 2, n + 3} \subseteq 1 .. n + 3
      BY <1>1, <1>2, <1>5, <2>1
    <3> QED BY <1>8, <1>9, <2>1, <3>1
  <2>2. CASE j # 1
    <3>1. n + j = cur' \/ n + j \in Pending(f)
      BY <1>1, <1>2, <1>5, <2>2
    <3>2. more[j] = NewBlock
      BY <1>8, <2>2
    <3> QED BY <1>9, <3>1, <3>2
  <2> QED BY <2>1, <2>2
<1>11. Opened(n, t, more, f)
  BY <1>1, <1>2, <1>5, <1>6, <1>8, <1>10 DEF Opened
<1> QED BY <1>3, <1>4, <1>7, <1>11

LEMMA LoopOpened ==
  ASSUME Shape, NEW n, n = Len(blocks), Loops(n)
  PROVE  Opened(n, Goto(n + 1), <<NewBlock, NewBlock>>, LoopFrame(n + 1, n + 2, n + 1))
<1>1. n \in Nat /\ cur \in 1 .. n /\ visible \cup moved \subseteq 1 .. declared
  BY ShapeFacts
<1>2. cur' = n + 1
  BY DEF Loops
<1>3. PICK f : f = LoopFrame(n + 1, n + 2, n + 1) OBVIOUS
<1>4. PICK t : t = Goto(n + 1) OBVIOUS
<1>5. /\ f.kind = "loop" /\ f.target = n + 1 /\ f.exit = n + 2 /\ f.entry = n + 1
      /\ f.locals = {} /\ f.scope = visible /\ f.moved = moved
      /\ Pending(f) = {n + 2}
  BY <1>3, FramesAre
<1>6. t.then = n + 1 /\ t.else = n + 1
  BY <1>1, <1>4, BranchIs
<1>7. PICK more : more = <<NewBlock, NewBlock>> OBVIOUS
<1>8. DOMAIN more = 1 .. 2 /\ Len(more) = 2 /\ \A j \in 1 .. 2 : more[j] = NewBlock
  BY <1>1, <1>7, ThreeIs
<1>9. /\ NewBlock.ins = <<>> /\ NewBlock.term = Unreachable
      /\ NewBlock.clears = {} /\ NewBlock.frees = {} /\ Unreachable \notin Jumps
  BY NewBlockIs, JumpsEnd
<1>10. ASSUME NEW j \in 1 .. 2
       PROVE  n + j = cur' \/ n + j \in Pending(f)
  BY <1>1, <1>2, <1>5
<1>11. Opened(n, t, more, f)
  BY <1>1, <1>2, <1>5, <1>6, <1>8, <1>9, <1>10 DEF Opened
<1> QED BY <1>3, <1>4, <1>7, <1>11

\* What jumps out of the text or to the end of a construct leave of the blocks
\* still to be written.
LEMMA JumpedLowering ==
  ASSUME Shape, NEW t, NEW xs, Jumped(t, xs, <<>>),
         NEW b \in DOMAIN blocks', blocks'[b].term = Unreachable
  PROVE  /\ b \in DOMAIN blocks /\ b # cur /\ blocks[b].term = Unreachable
         /\ blocks'[b].frees = {} /\ \E i \in DOMAIN frames : b \in Pending(frames[i])
<1>1. PICK n : n = Len(blocks) OBVIOUS
<1>2. /\ phase = "lower" /\ n \in Nat /\ cur \in 1 .. n /\ DOMAIN blocks = 1 .. n
      /\ DOMAIN blocks' = 1 .. n + Len(<<>>) /\ blocks'[cur].term = t /\ t # Unreachable
      /\ \A c \in 1 .. n : c # cur => /\ blocks'[c].term = blocks[c].term
                                      /\ blocks'[c].frees = blocks[c].frees
  BY <1>1, JumpedBlocks
<1>3. b \in 1 .. n /\ b # cur
  BY <1>2
<1>4. blocks[b].term = Unreachable /\ blocks'[b].frees = blocks[b].frees
  BY <1>2, <1>3
<1>5. blocks[b].frees = {} /\ \E i \in DOMAIN frames : b \in Pending(frames[i])
  BY <1>2, <1>3, <1>4 DEF Shape, Lowering
<1> QED BY <1>2, <1>3, <1>4, <1>5

LEMMA FrontIs ==
  ASSUME NEW fs \in Seq(Frames), fs # <<>>, NEW new, new = Front(fs)
  PROVE  /\ new \in Seq(Frames) /\ DOMAIN new = DOMAIN fs \ {Len(fs)}
         /\ DOMAIN fs = 1 .. Len(fs) /\ Len(fs) \in Nat /\ Len(fs) \in DOMAIN fs
         /\ \A i \in DOMAIN new : new[i] = fs[i]
<1>1. Len(fs) \in Nat /\ Len(fs) # 0 /\ DOMAIN fs = 1 .. Len(fs)
  BY EmptySeq
<1>2. new = SubSeq(fs, 1, Len(fs) - 1)
  BY DEF Front
<1>3. /\ new \in Seq(Frames) /\ Len(new) = Len(fs) - 1
      /\ \A i \in 1 .. Len(new) : new[i] = fs[i]
  BY <1>1, <1>2
<1>4. DOMAIN new = 1 .. Len(fs) - 1
  BY <1>3
<1> QED BY <1>1, <1>3, <1>4

LEMMA ShapeElse ==
  ASSUME Shape, Elses
  PROVE  Shape'
<1>1. /\ frames # <<>> /\ Top.kind = "then" /\ Jumped(Goto(Top.exit), {}, <<>>)
      /\ cur' = Top.target /\ frames' \in Seq(Frames) /\ DOMAIN frames' = DOMAIN frames
      /\ \A i \in DOMAIN frames \ {Len(frames)} : frames'[i] = frames[i]
      /\ visible' = Top.scope /\ moved' = Top.moved /\ open' /\ phase' = phase
  BY DEF Elses
<1>2. PICK top : top = Len(frames) OBVIOUS
<1>3. /\ top \in DOMAIN frames /\ Top = frames[top]
      /\ {Top.target, Top.exit, Top.entry} \subseteq DOMAIN blocks
      /\ Top.locals \cup Top.scope \cup Top.moved \subseteq 1 .. declared
  BY <1>1, <1>2, TopIs, FrameTypes
<1>4. LET new == frames'[top]
      IN /\ new.kind = "else" /\ new.target = Top.target /\ new.exit = Top.exit
         /\ new.entry = Top.entry /\ new.locals = Top.locals
         /\ new.scope = Top.scope /\ new.moved = moved
  BY <1>2 DEF Elses
<1>5. PICK n : n = Len(blocks) OBVIOUS
<1>6. /\ phase = "lower" /\ n \in Nat /\ cur \in 1 .. n /\ DOMAIN blocks = 1 .. n
      /\ blocks' \in Seq(Blocks) /\ DOMAIN blocks' = DOMAIN blocks
      /\ \A b \in DOMAIN blocks : /\ blocks'[b].ins = blocks[b].ins
                                  /\ b # cur => blocks'[b].term = blocks[b].term
  <2>1. /\ phase = "lower" /\ n \in Nat /\ cur \in 1 .. n /\ DOMAIN blocks = 1 .. n
        /\ blocks' \in Seq(Blocks) /\ DOMAIN blocks' = 1 .. n + Len(<<>>)
        /\ \A b \in 1 .. n : /\ blocks'[b].ins = blocks[b].ins
                             /\ b # cur => blocks'[b].term = blocks[b].term
    BY <1>1, <1>5, JumpedBlocks
  <2>2. 1 .. n + Len(<<>>) = 1 .. n
    BY <2>1
  <2> QED BY <2>1, <2>2
<1>7. declared' = declared /\ declared \in Nat
  BY <1>1, ShapeFacts DEF Jumped
<1>8. StateTypes'
  BY <1>1, <1>3, <1>6, JumpedTypes
<1>9. Targets(blocks')
  <2>1. PICK t : t = Goto(Top.exit) OBVIOUS
  <2>2. t.then = Top.exit /\ t.else = Top.exit
    BY <2>1 DEF Goto
  <2>3. {t.then, t.else} \subseteq 1 .. n + Len(<<>>)
    BY <1>3, <1>6, <2>2
  <2> QED BY <1>1, <1>5, <2>1, <2>3, JumpedTargets
<1>10. \A i \in DOMAIN frames' :
       /\ {frames'[i].target, frames'[i].exit, frames'[i].entry} \subseteq DOMAIN blocks'
       /\ frames'[i].locals \cup frames'[i].scope \cup frames'[i].moved \subseteq 1 .. declared'
  <2> SUFFICES ASSUME NEW i \in DOMAIN frames'
               PROVE  /\ {frames'[i].target, frames'[i].exit, frames'[i].entry} \subseteq DOMAIN blocks'
                      /\ frames'[i].locals \cup frames'[i].scope \cup frames'[i].moved
                           \subseteq 1 .. declared'
    OBVIOUS
  <2>1. CASE i = top
    BY <1>3, <1>4, <1>6, <1>7, <2>1, ShapeFacts
  <2>2. CASE i # top
    BY <1>1, <1>2, <1>6, <1>7, <2>2, FrameTypes
  <2> QED BY <2>1, <2>2
<1>11. \A i \in DOMAIN frames :
         Pending(frames'[i]) = IF i = top THEN {Top.exit} ELSE Pending(frames[i])
  BY <1>1, <1>2, <1>4 DEF Pending
<1>12. Pending(frames[top]) = {Top.target, Top.exit}
  BY <1>1, <1>3 DEF Pending
<1>13. Lowering'
  <2>1. Lowering
    BY <1>6 DEF Shape
  <2>2. /\ cur' \in Pending(frames[top]) /\ cur' # Top.exit /\ cur' \in DOMAIN blocks
        /\ cur # cur' /\ cur # Top.exit
    BY <1>1, <1>3, <1>12, <2>1 DEF Lowering
  <2>3. blocks'[cur'].term = Unreachable
    <3>1. PICK c : c = cur' OBVIOUS
    <3>2. blocks[c].term = Unreachable
      BY <1>3, <2>1, <2>2, <3>1 DEF Lowering
    <3> QED BY <1>6, <2>2, <3>1, <3>2
  <2>4. ASSUME NEW b \in DOMAIN blocks', blocks'[b].term = Unreachable
        PROVE  /\ blocks'[b].frees = {}
               /\ b = cur' \/ \E i \in DOMAIN frames' : b \in Pending(frames'[i])
    <3>1. /\ blocks'[b].frees = {} /\ \E i \in DOMAIN frames : b \in Pending(frames[i])
      BY <1>1, <2>4, JumpedLowering
    <3> QED BY <1>1, <1>11, <1>12, <3>1
  <2>5. ASSUME NEW i \in DOMAIN frames, NEW p \in Pending(frames'[i])
        PROVE  p \in Pending(frames[i]) /\ p \in DOMAIN blocks /\ p # cur /\ p # cur'
    <3>1. p \in Pending(frames[i])
      BY <1>11, <1>12, <2>5
    <3>2. p \in DOMAIN blocks /\ p # cur
      BY <2>1, <3>1, FrameTypes DEF Pending, Lowering
    <3>3. p # cur'
      <4>1. CASE i = top
        BY <1>11, <2>2, <2>5, <4>1
      <4>2. CASE i # top
        <5>1. Pending(frames[i]) \cap Pending(frames[top]) = {}
          BY <1>3, <2>1, <4>2 DEF Lowering
        <5> QED BY <2>2, <3>1, <5>1
      <4> QED BY <4>1, <4>2
    <3> QED BY <3>1, <3>2, <3>3
  <2>6. ASSUME NEW i \in DOMAIN frames'
        PROVE  /\ cur' \notin Pending(frames'[i])
               /\ frames'[i].kind = "then" => frames'[i].target # frames'[i].exit
               /\ \A p \in Pending(frames'[i]) :
                    blocks'[p].ins = <<>> /\ blocks'[p].term = Unreachable
    <3>1. frames'[i].kind = "then" => frames'[i].target # frames'[i].exit
      BY <1>1, <1>2, <1>4, <2>1 DEF Lowering
    <3>2. \A p \in Pending(frames[i]) :
            blocks[p].ins = <<>> /\ blocks[p].term = Unreachable
      BY <1>1, <2>1 DEF Lowering
    <3>3. cur' \notin Pending(frames'[i])
      BY <1>1, <2>5
    <3>4. ASSUME NEW p \in Pending(frames'[i])
          PROVE  blocks'[p].ins = <<>> /\ blocks'[p].term = Unreachable
      <4>1. p \in Pending(frames[i]) /\ p \in DOMAIN blocks /\ p # cur
        BY <1>1, <2>5, <3>4
      <4> QED BY <1>6, <3>2, <4>1
    <3> QED BY <3>1, <3>3, <3>4
  <2>7. ASSUME NEW i \in DOMAIN frames', NEW j \in DOMAIN frames'
        PROVE  /\ i # j => Pending(frames'[i]) \cap Pending(frames'[j]) = {}
               /\ frames'[j].kind = "loop" =>
                    {frames'[j].target, frames'[j].entry} \cap Pending(frames'[i]) = {}
    <3>1. i # j => Pending(frames[i]) \cap Pending(frames[j]) = {}
      BY <1>1, <2>1 DEF Lowering
    <3>2. frames'[j].kind = "loop" =>
            /\ frames'[j] = frames[j]
            /\ {frames[j].target, frames[j].entry} \cap Pending(frames[i]) = {}
      BY <1>1, <1>2, <1>4, <2>1 DEF Lowering
    <3> QED BY <1>1, <2>5, <3>1, <3>2
  <2> QED BY <2>3, <2>4, <2>6, <2>7 DEF Lowering
<1> QED BY <1>1, <1>6, <1>8, <1>9, <1>10, <1>13 DEF Shape

\* The frames that stay open when the innermost construct ends.
LEMMA PopsFrames ==
  ASSUME Shape, Pops, phase = "lower", NEW top, top = Len(frames)
  PROVE  /\ top \in DOMAIN frames /\ Top = frames[top] /\ Top \in Frames
         /\ {Top.target, Top.exit, Top.entry} \subseteq DOMAIN blocks
         /\ Top.locals \cup Top.scope \cup Top.moved \subseteq 1 .. declared
         /\ frames' \in Seq(Frames) /\ DOMAIN frames' = DOMAIN frames \ {top}
         /\ \A i \in DOMAIN frames' : frames'[i] = frames[i]
         /\ cur' = Top.exit /\ visible' = Top.scope /\ open' /\ phase' = phase
         /\ cur' # cur /\ cur' \in DOMAIN blocks
         /\ blocks[cur'].ins = <<>> /\ blocks[cur'].term = Unreachable
         /\ blocks[cur'].frees = {}
<1>1. /\ frames # <<>> /\ frames' = Front(frames) /\ cur' = Top.exit
      /\ visible' = Top.scope /\ open' /\ phase' = phase
  BY DEF Pops
<1>2. /\ top \in DOMAIN frames /\ Top = frames[top] /\ Top \in Frames
      /\ {Top.target, Top.exit, Top.entry} \subseteq DOMAIN blocks
      /\ Top.locals \cup Top.scope \cup Top.moved \subseteq 1 .. declared
  BY <1>1, TopIs, FrameTypes
<1>3. PICK fs : fs = frames OBVIOUS
<1>4. PICK new : new = frames' OBVIOUS
<1>5. fs \in Seq(Frames) /\ fs # <<>> /\ new = Front(fs)
  BY <1>1, <1>3, <1>4, ShapeFacts
<1>6. /\ new \in Seq(Frames) /\ DOMAIN new = DOMAIN fs \ {Len(fs)}
      /\ \A i \in DOMAIN new : new[i] = fs[i]
  BY ONLY <1>5, FrontIs, ZenonT(30)
<1>7. Top.exit \in Pending(Top)
  BY DEF Pending
<1>8. /\ Top.exit # cur /\ blocks[Top.exit].ins = <<>> /\ blocks[Top.exit].term = Unreachable
      /\ blocks[Top.exit].frees = {}
  BY <1>2, <1>7, SMTT(30) DEF Shape, Lowering
<1> QED BY <1>1, <1>2, <1>3, <1>4, <1>6, <1>8

\* What an open construct has still to write, without the innermost.
LEMMA PopsLowering ==
  ASSUME Shape, Pops, phase = "lower", NEW top, top = Len(frames), Top.kind # "then",
         DOMAIN blocks' = DOMAIN blocks,
         \A b \in DOMAIN blocks : /\ blocks'[b].ins = blocks[b].ins
                                  /\ b # cur => /\ blocks'[b].term = blocks[b].term
                                                /\ blocks'[b].frees = blocks[b].frees,
         blocks'[cur].term # Unreachable
  PROVE  Lowering'
<1>1. /\ top \in DOMAIN frames /\ Top = frames[top] /\ DOMAIN frames' = DOMAIN frames \ {top}
      /\ \A i \in DOMAIN frames' : frames'[i] = frames[i]
      /\ cur' = Top.exit /\ cur' # cur /\ cur' \in DOMAIN blocks
      /\ blocks[cur'].term = Unreachable /\ blocks[cur'].frees = {}
  BY PopsFrames
<1>2. Lowering
  BY DEF Shape
<1>3. Pending(frames[top]) = {cur'}
  BY <1>1 DEF Pending
<1>4. PICK c : c = cur' OBVIOUS
<1>5. blocks'[c].term = Unreachable
  BY <1>1, <1>4
<1>6. ASSUME NEW b \in DOMAIN blocks', blocks'[b].term = Unreachable
      PROVE  /\ blocks'[b].frees = {}
             /\ b = c \/ \E i \in DOMAIN frames' : b \in Pending(frames'[i])
  <2>1. b \in DOMAIN blocks /\ b # cur /\ blocks[b].term = Unreachable
        /\ blocks'[b].frees = blocks[b].frees
    BY <1>6
  <2>2. PICK i \in DOMAIN frames : b \in Pending(frames[i])
    BY <1>2, <2>1 DEF Lowering
  <2>3. blocks[b].frees = {}
    BY <1>2, <2>1 DEF Lowering
  <2> QED BY <1>1, <1>3, <1>4, <2>1, <2>2, <2>3
<1>7. ASSUME NEW i \in DOMAIN frames'
      PROVE  /\ c \notin Pending(frames'[i])
             /\ frames'[i].kind = "then" => frames'[i].target # frames'[i].exit
             /\ \A p \in Pending(frames'[i]) :
                  blocks'[p].ins = <<>> /\ blocks'[p].term = Unreachable
  <2>1. i \in DOMAIN frames /\ i # top /\ frames'[i] = frames[i]
    BY <1>1
  <2>2. Pending(frames[i]) \cap Pending(frames[top]) = {}
    BY <1>1, <1>2, <2>1 DEF Lowering
  <2>3. /\ cur \notin Pending(frames[i])
        /\ frames[i].kind = "then" => frames[i].target # frames[i].exit
        /\ \A p \in Pending(frames[i]) :
             blocks[p].ins = <<>> /\ blocks[p].term = Unreachable
    BY <1>2, <2>1 DEF Lowering
  <2>4. \A p \in Pending(frames[i]) : p \in DOMAIN blocks
    BY <2>1, FrameTypes DEF Pending
  <2> QED BY <1>3, <1>4, <2>1, <2>2, <2>3, <2>4
<1>8. \A i, j \in DOMAIN frames' :
        /\ i # j => Pending(frames'[i]) \cap Pending(frames'[j]) = {}
        /\ frames'[j].kind = "loop" =>
             {frames'[j].target, frames'[j].entry} \cap Pending(frames'[i]) = {}
  BY <1>1, <1>2 DEF Lowering
<1> QED BY <1>4, <1>5, <1>6, <1>7, <1>8 DEF Lowering

LEMMA PopsTypes ==
  ASSUME Shape, Pops, phase = "lower", DOMAIN blocks' = DOMAIN blocks, declared' = declared
  PROVE  /\ frames' \in Seq(Frames)
         /\ \A i \in DOMAIN frames' :
              /\ {frames'[i].target, frames'[i].exit, frames'[i].entry} \subseteq DOMAIN blocks'
              /\ frames'[i].locals \cup frames'[i].scope \cup frames'[i].moved
                   \subseteq 1 .. declared'
<1>1. PICK top : top = Len(frames) OBVIOUS
<1>2. /\ frames' \in Seq(Frames) /\ DOMAIN frames' = DOMAIN frames \ {top}
      /\ \A i \in DOMAIN frames' : frames'[i] = frames[i]
  BY <1>1, PopsFrames
<1> QED BY <1>2, FrameTypes

\* A jump that makes no block.
LEMMA JumpedOnly ==
  ASSUME Shape, NEW t, NEW xs, Jumped(t, xs, <<>>)
  PROVE  /\ blocks' \in Seq(Blocks) /\ DOMAIN blocks' = DOMAIN blocks /\ cur \in DOMAIN blocks
         /\ blocks'[cur].term = t /\ blocks'[cur].frees = xs /\ t # Unreachable
         /\ phase = "lower"
         /\ \A b \in DOMAIN blocks : /\ blocks'[b].ins = blocks[b].ins
                                     /\ blocks'[b].clears = blocks[b].clears
                                     /\ b # cur => /\ blocks'[b].term = blocks[b].term
                                                   /\ blocks'[b].frees = blocks[b].frees
<1>1. PICK n : n = Len(blocks) OBVIOUS
<1>2. n \in Nat /\ DOMAIN blocks = 1 .. n /\ DOMAIN blocks' = 1 .. n + Len(<<>>)
  BY <1>1, JumpedBlocks
<1>3. DOMAIN blocks' = DOMAIN blocks
  BY <1>2
<1> QED BY <1>1, <1>3, JumpedBlocks

\* The only block that a jump without new blocks gives targets is the current one.
LEMMA JumpedOnlyTargets ==
  ASSUME Shape, NEW t, NEW xs, Jumped(t, xs, <<>>),
         t.kind # "return" => {t.then, t.else} \subseteq DOMAIN blocks
  PROVE  Targets(blocks')
<1>1. /\ DOMAIN blocks' = DOMAIN blocks /\ blocks'[cur].term = t
      /\ \A b \in DOMAIN blocks : b # cur => blocks'[b].term = blocks[b].term
  BY JumpedOnly
<1>2. Targets(blocks)
  BY DEF Shape
<1> QED BY <1>1, <1>2 DEF Targets

LEMMA ShapeEndIf ==
  ASSUME Shape, EndsIf
  PROVE  Shape'
<1>1. /\ Top.kind = "else" /\ Jumped(Goto(Top.exit), {}, <<>>) /\ Pops
      /\ moved' = moved \cup Top.moved
  BY DEF EndsIf
<1>2. PICK top : top = Len(frames) OBVIOUS
<1>3. PICK t : t = Goto(Top.exit) OBVIOUS
<1>4. /\ blocks' \in Seq(Blocks) /\ DOMAIN blocks' = DOMAIN blocks /\ cur \in DOMAIN blocks
      /\ blocks'[cur].term = t /\ t # Unreachable /\ phase = "lower"
      /\ \A b \in DOMAIN blocks : /\ blocks'[b].ins = blocks[b].ins
                                  /\ b # cur => /\ blocks'[b].term = blocks[b].term
                                                /\ blocks'[b].frees = blocks[b].frees
  BY <1>1, <1>3, JumpedOnly
<1>5. /\ {Top.target, Top.exit, Top.entry} \subseteq DOMAIN blocks
      /\ Top.locals \cup Top.scope \cup Top.moved \subseteq 1 .. declared
      /\ cur' = Top.exit /\ visible' = Top.scope /\ open' /\ phase' = phase
      /\ cur' \in DOMAIN blocks
  BY <1>1, <1>2, <1>4, PopsFrames
<1>6. declared' = declared /\ moved \subseteq 1 .. declared
  BY <1>1, ShapeFacts DEF Jumped
<1>7. StateTypes'
  BY <1>1, <1>4, <1>5, <1>6, JumpedTypes
<1>8. Targets(blocks')
  <2>1. {t.then, t.else} \subseteq DOMAIN blocks
    BY <1>3, <1>5 DEF Goto
  <2> QED BY <1>1, <1>3, <2>1, JumpedOnlyTargets
<1>9. Lowering'
  BY <1>1, <1>2, <1>4, PopsLowering
<1> QED BY <1>1, <1>4, <1>5, <1>6, <1>7, <1>8, <1>9, PopsTypes DEF Shape

LEMMA ShapeEndLoop ==
  ASSUME Shape, EndsLoop
  PROVE  Shape'
<1>1. /\ phase = "lower" /\ Top.kind = "loop" /\ Pops
      /\ UNCHANGED <<fragment, returns, declared, inited, drops, running, moved>>
      /\ blocks' \in Seq(Blocks) /\ DOMAIN blocks' = DOMAIN blocks
      /\ \A c \in DOMAIN blocks :
           /\ blocks'[c].ins = blocks[c].ins
           /\ c # cur => /\ blocks'[c].frees = blocks[c].frees
                         /\ blocks'[c].term = blocks[c].term
      /\ cur \in DOMAIN blocks /\ blocks'[cur].term = Goto(Top.target)
      /\ Goto(Top.target) \in Jumps /\ spent' \in 0 .. MaxStatements
  BY ShapeFacts DEF EndsLoop
<1>2. PICK top : top = Len(frames) OBVIOUS
<1>3. /\ {Top.target, Top.exit, Top.entry} \subseteq DOMAIN blocks
      /\ Top.locals \cup Top.scope \cup Top.moved \subseteq 1 .. declared
      /\ cur' = Top.exit /\ visible' = Top.scope /\ open' /\ phase' = phase
      /\ cur' \in DOMAIN blocks
  BY <1>1, <1>2, PopsFrames
<1>4. StateTypes'
  <2>1. UNCHANGED <<fragment, returns, declared, inited, at, jumps, mem, moved>>
    BY <1>1 DEF running
  <2> QED BY <1>1, <1>3, <2>1 DEF Shape, StateTypes
<1>5. Targets(blocks')
  <2>1. PICK t : t = Goto(Top.target) OBVIOUS
  <2>2. t.then = Top.target /\ t.else = Top.target
    BY <2>1 DEF Goto
  <2>3. Targets(blocks)
    BY DEF Shape
  <2> QED BY <1>1, <1>3, <2>1, <2>2, <2>3 DEF Targets
<1>6. Lowering'
  <2>1. blocks'[cur].term # Unreachable
    BY <1>1, JumpsEnd
  <2> QED BY <1>1, <1>2, <2>1, PopsLowering
<1> QED BY <1>1, <1>3, <1>4, <1>5, <1>6, PopsTypes DEF Shape

LEMMA ShapeLeaves ==
  ASSUME Shape, NEW t, NEW xs, Leaves(t, xs),
         t.kind # "return" => {t.then, t.else} \subseteq DOMAIN blocks
  PROVE  Shape'
<1>1. PICK n : n = Len(blocks) OBVIOUS
<1>2. PICK more : more = <<NewBlock>> OBVIOUS
<1>3. /\ Jumped(t, xs, more) /\ cur' = n + 1 /\ open' \in BOOLEAN /\ phase' = phase
      /\ frames' = frames /\ visible' = visible /\ moved' = moved /\ declared' = declared
  BY <1>1, <1>2 DEF Leaves, Jumped
<1>4. Len(more) = 1 /\ DOMAIN more = 1 .. 1 /\ more[1] = NewBlock
  BY <1>2
<1>5. /\ phase = "lower" /\ n \in Nat /\ cur \in 1 .. n /\ DOMAIN blocks = 1 .. n
      /\ blocks' \in Seq(Blocks) /\ DOMAIN blocks' = 1 .. n + 1
      /\ blocks'[cur].term # Unreachable
      /\ \A b \in 1 .. n : /\ blocks'[b].ins = blocks[b].ins
                           /\ b # cur => /\ blocks'[b].term = blocks[b].term
                                         /\ blocks'[b].frees = blocks[b].frees
      /\ \A b \in 1 .. n + 1 : b \notin 1 .. n => blocks'[b] = more[b - n]
  <2>1. /\ phase = "lower" /\ n \in Nat /\ cur \in 1 .. n /\ DOMAIN blocks = 1 .. n
        /\ blocks' \in Seq(Blocks) /\ DOMAIN blocks' = 1 .. n + Len(more)
        /\ Len(more) \in Nat /\ DOMAIN more = 1 .. Len(more)
        /\ blocks'[cur].term = t /\ blocks'[cur].frees = xs
        /\ \A b \in 1 .. n : /\ blocks'[b].ins = blocks[b].ins
                             /\ blocks'[b].clears = blocks[b].clears
                             /\ b # cur => /\ blocks'[b].term = blocks[b].term
                                           /\ blocks'[b].frees = blocks[b].frees
        /\ \A b \in 1 .. n + Len(more) : b \notin 1 .. n =>
             /\ b - n \in 1 .. Len(more) /\ blocks'[b] = more[b - n]
        /\ t # Unreachable
    <3>1. Jumped(t, xs, more)
      BY <1>3
    <3> QED BY <1>1, <3>1, JumpedBlocks, SMTT(30)
  <2> QED BY <1>4, <2>1
<1>6. blocks'[n + 1] = NewBlock
  <2>1. n + 1 \in 1 .. n + 1 /\ n + 1 \notin 1 .. n /\ (n + 1) - n = 1
    BY <1>5
  <2>2. blocks'[n + 1] = more[(n + 1) - n]
    BY <1>5, <2>1
  <2> QED BY <1>4, <2>1, <2>2
<1>7. StateTypes'
  BY <1>3, <1>5, JumpedTypes, ShapeFacts
<1>8. Targets(blocks')
  <2>1. t.kind # "return" => {t.then, t.else} \subseteq 1 .. n + Len(more)
    BY <1>4, <1>5
  <2>2. \A j \in DOMAIN more : more[j].term \notin Jumps
    BY <1>4, NewBlockIs, JumpsEnd
  <2> QED BY <1>1, <1>3, <2>1, <2>2, JumpedTargets
<1>9. Lowering'
  <2>1. Lowering
    BY <1>5 DEF Shape
  <2>2. blocks'[n + 1].term = Unreachable /\ blocks'[n + 1].frees = {}
    BY <1>6, NewBlockIs
  <2>3. \A i \in DOMAIN frames : \A p \in Pending(frames[i]) : p \in 1 .. n /\ p # cur
    BY <1>5, <2>1, FrameTypes DEF Pending, Lowering
  <2>4. ASSUME NEW b \in DOMAIN blocks', blocks'[b].term = Unreachable
        PROVE  /\ blocks'[b].frees = {}
               /\ b = n + 1 \/ \E i \in DOMAIN frames : b \in Pending(frames[i])
    <3>1. CASE b = n + 1
      BY <2>2, <3>1
    <3>2. CASE b # n + 1
      <4>1. b \in 1 .. n /\ b # cur
        <5>1. b \in 1 .. n + 1 /\ n \in Nat
          BY <1>5
        <5>2. b \in 1 .. n
          BY <3>2, <5>1
        <5> QED BY <1>5, <2>4, <5>2
      <4>2. blocks[b].term = Unreachable /\ blocks'[b].frees = blocks[b].frees
        BY <1>5, <2>4, <4>1
      <4> QED BY <1>5, <2>1, <4>1, <4>2 DEF Lowering
    <3> QED BY <3>1, <3>2
  <2>5. ASSUME NEW i \in DOMAIN frames
        PROVE  /\ n + 1 \notin Pending(frames[i])
               /\ frames[i].kind = "then" => frames[i].target # frames[i].exit
               /\ \A p \in Pending(frames[i]) :
                    blocks'[p].ins = <<>> /\ blocks'[p].term = Unreachable
    <3>1. n + 1 \notin Pending(frames[i])
      BY <1>5, <2>3
    <3>2. /\ frames[i].kind = "then" => frames[i].target # frames[i].exit
          /\ \A p \in Pending(frames[i]) :
               blocks[p].ins = <<>> /\ blocks[p].term = Unreachable
      BY <2>1 DEF Lowering
    <3> QED BY <1>5, <2>3, <3>1, <3>2
  <2>6. \A i, j \in DOMAIN frames :
       /\ i # j => Pending(frames[i]) \cap Pending(frames[j]) = {}
       /\ frames[j].kind = "loop" =>
            {frames[j].target, frames[j].entry} \cap Pending(frames[i]) = {}
    BY <2>1 DEF Lowering
  <2> QED BY <1>3, <2>2, <2>4, <2>5, <2>6 DEF Lowering
<1>10. \A i \in DOMAIN frames' :
         /\ {frames'[i].target, frames'[i].exit, frames'[i].entry} \subseteq DOMAIN blocks'
         /\ frames'[i].locals \cup frames'[i].scope \cup frames'[i].moved
              \subseteq 1 .. declared'
  BY <1>3, <1>5, FrameTypes
<1> QED BY <1>3, <1>5, <1>7, <1>8, <1>9, <1>10, ShapeFacts DEF Shape

LEMMA ShapeEndsBody ==
  ASSUME Shape, EndsBody
  PROVE  Shape'
<1>1. PICK x \in Readable \cup {0} : Jumped(Return(x), {}, <<>>)
  BY DEF EndsBody
<1>2. PICK t : t = Return(x) OBVIOUS
<1>3. /\ frames = <<>> /\ phase' = "elaborate" /\ cur' = cur /\ frames' = frames
      /\ visible' = visible /\ moved' = moved /\ open' = open /\ declared' = declared
  BY <1>1 DEF EndsBody, Jumped
<1>4. /\ blocks' \in Seq(Blocks) /\ DOMAIN blocks' = DOMAIN blocks /\ cur \in DOMAIN blocks
      /\ blocks'[cur].term = t /\ phase = "lower" /\ t \in Jumps
      /\ \A b \in DOMAIN blocks : b # cur => blocks'[b].term = blocks[b].term
  BY <1>1, <1>2, JumpedOnly, ReturnedValue
<1>5. StateTypes'
  <2>1. open \in BOOLEAN /\ visible \cup moved \subseteq 1 .. declared
    BY DEF Shape, StateTypes
  <2> QED BY <1>1, <1>3, <1>4, <2>1, JumpedTypes
<1>6. Targets(blocks')
  <2>1. t.kind = "return"
    BY <1>2 DEF Return
  <2> QED BY <1>1, <1>2, <2>1, JumpedOnlyTargets
<1>7. Lowered'
  <2>1. DOMAIN frames = {}
    BY <1>3
  <2>2. ASSUME NEW b \in DOMAIN blocks, b # cur PROVE blocks[b].term \in Jumps
    <3>1. blocks[b].term \in Terminators
      BY BlockParts, ShapeFacts
    <3>2. blocks[b].term # Unreachable
      BY <1>4, <2>1, <2>2 DEF Shape, Lowering
    <3> QED BY <3>1, <3>2 DEF Terminators
  <2> QED BY <1>3, <1>4, <2>2 DEF Lowered
<1> QED BY <1>3, <1>4, <1>5, <1>6, <1>7, ShapeFacts DEF Shape

LEMMA ShapeInsertDrops ==
  ASSUME Shape, InsertDrops
  PROVE  Shape'
<1>1. /\ phase = "elaborate" /\ phase' = "run" /\ fragment' = fragment
      /\ UNCHANGED <<lowering, running>>
  BY DEF InsertDrops
<1>2. UNCHANGED <<returns, blocks, cur, frames, declared, visible, moved, inited,
              open, spent, at, jumps, mem>>
  BY <1>1 DEF lowering, running
<1>3. StateTypes'
  BY <1>1, <1>2 DEF Shape, StateTypes
<1>4. Lowered'
  BY <1>1, <1>2 DEF Shape, Lowered
<1> QED BY <1>1, <1>2, <1>3, <1>4 DEF Shape, Targets

\* What the instructions of a run leave is a memory.
LEMMA ReadFaultIs ==
  ASSUME NEW m \in Memory, NEW v \in {Nil, Junk} \cup Objects
  PROVE  /\ ReadFault(m, v) \in Faults
         /\ ReadFault(m, v) = "none" => v \in Objects
BY DEF ReadFault, Faults

LEMMA FreedType ==
  ASSUME NEW m \in Memory, NEW xs
  PROVE  Freed(m, xs) \in Memory
<1> DEFINE held == {m.env[x] : x \in xs} \ {Nil}
<1>1. PICK n : n = Freed(m, xs) OBVIOUS
<1>2. n = m \/ n = Blame(m, "free_of_junk") \/ n = Blame(m, "double_free") \/ FreedIn(n, m, held)
  BY <1>1 DEF Freed, FreedIn
<1> HIDE DEF held
<1>3. CASE n = Blame(m, "free_of_junk") \/ n = Blame(m, "double_free")
  BY <1>1, <1>3, BlameIs DEF Faults
<1>4. CASE FreedIn(n, m, held)
  <2>1. n \in Memory
    BY <1>4, FreeIs
  <2> QED BY <1>1, <2>1
<1>5. CASE n = m
  BY <1>1, <1>5
<1> QED BY <1>2, <1>3, <1>4, <1>5

LEMMA ClearedType ==
  ASSUME NEW m \in Memory, NEW xs
  PROVE  Cleared(m, xs) \in Memory
<1>1. PICK n : n = Cleared(m, xs) OBVIOUS
<1>2. ClearedIn(n, m, xs)
  BY <1>1 DEF Cleared, ClearedIn
<1> QED BY <1>1, <1>2, ClearIs

LEMMA ExecType ==
  ASSUME NEW m \in Memory, NEW i \in Instructions
  PROVE  Exec(m, i) \in Memory
<1>0. i.op \in Ops /\ i.to \in Locals /\ i.from \in Locals
  BY DEF Instructions
<1>1. PICK v : v = m.env[i.from] OBVIOUS
<1>2. v \in {Nil, Junk} \cup Objects
  BY <1>0, <1>1, MemoryParts
<1>3. PICK n : n = Exec(m, i) OBVIOUS
<1>4. ReadFault(m, v) \in Faults /\ (ReadFault(m, v) = "none" => v \in Objects)
  BY <1>2, ReadFaultIs
<1>5. CASE m.fault # "none"
  BY <1>3, <1>5 DEF Exec
<1>6. CASE m.fault = "none" /\ i.op = "alloc"
  <2>1. CASE Unborn(m) = {}
    BY <1>3, <1>6, <2>1, BlameIs DEF Exec, Faults
  <2>2. CASE Unborn(m) # {}
    <3>1. PICK o : o = Newborn(m) OBVIOUS
    <3>2. o \in Objects
      <4>1. PICK p \in Unborn(m) : \A q \in Unborn(m) : p <= q
        BY <2>2, LeastObject DEF Unborn
      <4> QED BY <3>1, <4>1 DEF Newborn, Unborn
    <3>3. Born(n, m, i.to, o)
      BY <1>3, <1>6, <2>2, <3>1 DEF Exec, Born
    <3> QED BY <1>0, <1>3, <3>2, <3>3, BirthIs
  <2> QED BY <2>1, <2>2
<1>7. CASE m.fault = "none" /\ i.op = "free"
  BY <1>3, <1>7, FreedType DEF Exec
<1>8. CASE m.fault = "none" /\ i.op \notin {"alloc", "free"} /\ ReadFault(m, v) # "none"
  <2>1. n = Blame(m, ReadFault(m, v))
    <3>1. PICK r : r = ReadFault(m, v) OBVIOUS
    <3>2. n = Blame(m, r)
      BY <1>1, <1>3, <1>8, <3>1 DEF Exec
    <3> QED BY <3>1, <3>2
  <2> QED BY <1>3, <1>4, <2>1, BlameIs
<1>9. CASE m.fault = "none" /\ i.op \notin {"alloc", "free"} /\ ReadFault(m, v) = "none"
  <2>1. CASE i.op = "assign"
    <3>1. Wrote(n, m, i.to, v)
      BY <1>1, <1>3, <1>9, <2>1 DEF Exec, Wrote
    <3> QED BY <1>0, <1>2, <1>3, <3>1, StoreIs
  <2>2. CASE i.op = "move"
    <3>1. PICK mid : Wrote(mid, m, i.to, v)
      BY DEF Wrote
    <3>2. mid \in Memory
      BY <1>0, <1>2, <3>1, StoreIs
    <3>3. Wrote(n, mid, i.from, Nil)
      BY <1>1, <1>3, <1>9, <2>2, <3>1 DEF Exec, Wrote
    <3> QED BY <1>0, <1>3, <3>2, <3>3, StoreIs
  <2>3. CASE i.op \notin {"assign", "move"}
    <3>1. Kept(n, m, v)
      BY <1>1, <1>3, <1>9, <2>3 DEF Exec, Kept
    <3> QED BY <1>3, <1>4, <1>9, <3>1, KeepIs
  <2> QED BY <2>1, <2>2, <2>3
<1> QED BY <1>5, <1>6, <1>7, <1>8, <1>9

LEMMA ExecutedType ==
  ASSUME NEW m \in Memory, NEW b \in Blocks
  PROVE  Executed(m, b) \in Memory
<1>0. b.ins \in Seq(Instructions)
  BY DEF Blocks
<1>1. Len(b.ins) \in Nat /\ \A i \in 1 .. Len(b.ins) : b.ins[i] \in Instructions
  BY <1>0
<1>2. PICK f : /\ f[0] = Cleared(m, b.clears)
               /\ \A i \in 1 .. Len(b.ins) : f[i] = Exec(f[i - 1], b.ins[i])
               /\ Executed(m, b) = Cleared(Freed(f[Len(b.ins)], b.frees), b.frees)
  BY <1>1, ExecutedIs
<1> DEFINE K == {k \in Nat : k <= Len(b.ins) => f[k] \in Memory}
<1>3. 0 \in K
  BY <1>2, ClearedType
<1>4. ASSUME NEW k \in Nat, k \in K PROVE k + 1 \in K
  <2>1. CASE k + 1 <= Len(b.ins)
    <3>1. k <= Len(b.ins) /\ k + 1 \in 1 .. Len(b.ins) /\ (k + 1) - 1 = k
      BY <1>1, <2>1
    <3>2. f[k] \in Memory /\ b.ins[k + 1] \in Instructions
      BY <1>1, <1>4, <3>1
    <3>3. f[k + 1] = Exec(f[k], b.ins[k + 1])
      BY <1>2, <3>1
    <3> QED BY <3>2, <3>3, ExecType
  <2>2. CASE ~(k + 1 <= Len(b.ins))
    BY <2>2
  <2> QED BY <2>1, <2>2
<1> HIDE DEF K
<1>5. Len(b.ins) \in K
  BY <1>1, <1>3, <1>4, NatIn
<1>6. f[Len(b.ins)] \in Memory
  BY <1>1, <1>5 DEF K
<1> QED BY <1>2, <1>6, FreedType, ClearedType

LEMMA LeaveType ==
  ASSUME NEW m \in Memory, NEW x \in {0} \cup Locals
  PROVE  Leave(m, x) \in Memory
<1>1. PICK v : v = IF x = 0 THEN Nil ELSE m.env[x] OBVIOUS
<1>2. v \in {Nil, Junk} \cup Objects
  BY <1>1, MemoryParts
<1>3. PICK read : read = IF m.fault = "none" /\ x # 0 THEN ReadFault(m, v) ELSE m.fault
  OBVIOUS
<1>4. read \in Faults
  BY <1>2, <1>3, ReadFaultIs, MemoryParts
<1>5. [m EXCEPT !.result = v, !.fault = read] \in Memory
  BY <1>2, <1>4 DEF Memory
<1>6. Leave(m, x) = Freed([m EXCEPT !.result = v, !.fault = read], drops)
  BY <1>1, <1>3 DEF Leave
<1> QED BY <1>5, <1>6, FreedType

LEMMA ShapeRunBlock ==
  ASSUME Shape, RunBlock
  PROVE  Shape'
<1>1. /\ phase = "run" /\ jumps < MaxJumps /\ jumps' = jumps + 1
      /\ UNCHANGED <<fragment, lowering, drops>>
  BY DEF RunBlock
<1>2. UNCHANGED <<fragment, returns, blocks, cur, frames, declared, visible, moved, inited,
              open, spent>>
  BY <1>1 DEF lowering
<1>3. /\ blocks \in Seq(Blocks) /\ at \in DOMAIN blocks /\ blocks[at] \in Blocks
      /\ mem \in Memory /\ frames = <<>> /\ \A b \in DOMAIN blocks : blocks[b].term \in Jumps
      /\ Targets(blocks)
  BY <1>1, ShapeFacts, BlockParts DEF Shape, StateTypes, Lowered
<1>4. PICK after : after = Executed(mem, blocks[at]) OBVIOUS
<1>5. after \in Memory
  BY <1>3, <1>4, ExecutedType
<1>6. mem' \in Memory /\ phase' \in {"run", "done"} /\ at' \in DOMAIN blocks
  <2>1. CASE blocks[at].term.kind = "return"
    <3>1. mem' = Leave(after, blocks[at].term.value) /\ phase' = "done" /\ at' = at
      BY <1>4, <2>1 DEF RunBlock
    <3>2. blocks[at].term.value \in {0} \cup Locals
      BY <1>3 DEF Jumps
    <3> QED BY <1>3, <1>5, <3>1, <3>2, LeaveType
  <2>2. CASE blocks[at].term.kind # "return"
    <3>1. /\ mem' = after /\ phase' \in {"run", "done"}
          /\ at' \in {blocks[at].term.then, blocks[at].term.else}
      BY <1>4, <2>2 DEF RunBlock
    <3> QED BY <1>3, <1>5, <2>2, <3>1 DEF Targets
  <2> QED BY <2>1, <2>2
<1>7. jumps' \in 0 .. MaxJumps
  BY <1>1, BoundsAssumption DEF Shape, StateTypes
<1>8. StateTypes'
  BY <1>2, <1>6, <1>7 DEF Shape, StateTypes
<1>9. Lowered'
  BY <1>2, <1>3 DEF Lowered
<1> QED BY <1>2, <1>3, <1>6, <1>8, <1>9 DEF Shape, Targets

LEMMA ShapeDeclares ==
  ASSUME Shape, NEW is, Emits(is), Declares, moved' \subseteq 1 .. declared
  PROVE  Shape'
<1>1. /\ declared \in Nat /\ declared' = declared + 1 /\ declared' \in 0 .. MaxLocals
      /\ visible' = visible \cup {declared'} /\ inited' = inited \cup {declared'}
      /\ visible \cup inited \subseteq 1 .. declared
  BY ShapeFacts DEF Declares
<1>2. 1 .. declared \subseteq 1 .. declared' /\ declared' \in 1 .. declared' /\ declared <= declared'
  BY <1>1
<1>3. \A i \in DOMAIN frames : frames'[i].locals \subseteq 1 .. declared'
  BY <1>2, FrameTypes DEF Declares
<1> QED BY <1>1, <1>2, <1>3, ShapeEmits

LEMMA ShapeDeclared ==
  ASSUME Shape, NEW is, Emits(is), Declared, moved' \cup inited' \subseteq 1 .. declared
  PROVE  Shape'
<1>1. /\ declared \in Nat /\ declared' = declared /\ declared \in 0 .. MaxLocals
      /\ visible' = visible /\ visible \subseteq 1 .. declared /\ declared <= declared'
  BY ShapeFacts DEF Declared
<1>2. \A i \in DOMAIN frames : frames'[i].locals \subseteq 1 .. declared'
  BY <1>1, FrameTypes DEF Declared
<1> QED BY <1>1, <1>2, ShapeEmits

LEMMA ShapeStatement ==
  ASSUME Shape,
         \/ Lets \/ \E y \in Movable : LetsFrom(y)
         \/ \E x \in Settable : Sets(x) \/ \E y \in Movable : SetsFrom(x, y)
         \/ \E how \in GivingOps : \E x \in Movable : Gives(x, how)
  PROVE  Shape'
<1>0. /\ Movable \subseteq 1 .. declared /\ Settable \subseteq 1 .. declared
      /\ moved \subseteq 1 .. declared /\ inited \subseteq 1 .. declared
  BY ReadFacts, ShapeFacts
<1>1. CASE Lets
  BY <1>0, <1>1, ShapeDeclares DEF Lets
<1>2. CASE \E y \in Movable : LetsFrom(y)
  BY <1>0, <1>2, ShapeDeclares DEF LetsFrom
<1>3. ASSUME NEW x \in Settable, Sets(x)
      PROVE  Shape'
  <2>1. moved' \cup inited' \subseteq 1 .. declared
    BY <1>0, <1>3 DEF Sets
  <2> QED BY <1>3, <2>1, ShapeDeclared DEF Sets
<1>4. ASSUME NEW x \in Settable, NEW y \in Movable, SetsFrom(x, y)
      PROVE  Shape'
  <2>1. moved' \cup inited' \subseteq 1 .. declared
    BY <1>0, <1>4 DEF SetsFrom
  <2> QED BY <1>4, <2>1, ShapeDeclared DEF SetsFrom
<1>5. ASSUME NEW how \in GivingOps, NEW x \in Movable, Gives(x, how)
      PROVE  Shape'
  <2>1. moved' \cup inited' \subseteq 1 .. declared
    BY <1>0, <1>5 DEF Gives
  <2> QED BY <1>5, <2>1, ShapeDeclared DEF Gives
<1> QED BY <1>1, <1>2, <1>3, <1>4, <1>5

LEMMA NextIs ==
  ASSUME Shape, [Next]_vars
  PROVE  Lowers \/ InsertDrops \/ RunBlock \/ UNCHANGED vars
<1>1. CASE Let
  BY <1>1, LetIs DEF Lowers
<1>2. CASE LetFrom
  BY <1>2, LetFromIs DEF Lowers
<1>3. CASE Set
  BY <1>3, SetIs DEF Lowers
<1>4. CASE SetFrom
  BY <1>4, SetFromIs DEF Lowers
<1>5. CASE HandOver
  BY <1>5, HandOverIs DEF Lowers
<1>6. CASE If
  BY <1>6, IfIs DEF Lowers
<1>7. CASE Else
  BY <1>7, ElseIs DEF Lowers
<1>8. CASE EndIf
  BY <1>8, EndIfIs DEF Lowers
<1>9. CASE While
  BY <1>9, WhileIs DEF Lowers
<1>10. CASE Loop
  BY <1>10, LoopIs DEF Lowers
<1>11. CASE EndLoop
  BY <1>11, EndLoopIs DEF Lowers
<1>12. CASE BreakOrContinue
  BY <1>12, BreakOrContinueIs DEF Lowers
<1>13. CASE ReturnEarly
  BY <1>13, ReturnEarlyIs DEF Lowers
<1>14. CASE EndBody
  BY <1>14, EndBodyIs DEF Lowers
<1> QED
  BY <1>1, <1>2, <1>3, <1>4, <1>5, <1>6, <1>7, <1>8, <1>9, <1>10, <1>11, <1>12,
     <1>13, <1>14 DEF Next

LEMMA ShapeLowers ==
  ASSUME Shape, Lowers
  PROVE  Shape'
<1>1. CASE \/ Lets \/ \E y \in Movable : LetsFrom(y)
           \/ \E x \in Settable : Sets(x) \/ \E y \in Movable : SetsFrom(x, y)
           \/ \E how \in GivingOps : \E x \in Movable : Gives(x, how)
  BY <1>1, ShapeStatement
<1>2. ASSUME NEW n \in {Len(blocks)}, Ifs(n)
      PROVE  Shape'
  <2>1. Opening(Branch(n + 1, n + 2), Three, IfFrame(n + 2, n + 3))
    BY <1>2 DEF Ifs
  <2>2. Opened(n, Branch(n + 1, n + 2), Three, IfFrame(n + 2, n + 3))
    BY <1>2, IfOpened
  <2> QED BY <2>1, <2>2, ShapeOpening
<1>3. ASSUME NEW n \in {Len(blocks)}, Whiles(n)
      PROVE  Shape'
  <2>1. Opening(Goto(n + 1), <<Header(n), NewBlock, NewBlock>>, LoopFrame(n + 1, n + 3, n + 2))
    BY <1>3 DEF Whiles
  <2>2. Opened(n, Goto(n + 1), <<Header(n), NewBlock, NewBlock>>,
               LoopFrame(n + 1, n + 3, n + 2))
    BY <1>3, WhileOpened
  <2> QED BY <2>1, <2>2, ShapeOpening
<1>4. ASSUME NEW n \in {Len(blocks)}, Loops(n)
      PROVE  Shape'
  <2>1. Opening(Goto(n + 1), <<NewBlock, NewBlock>>, LoopFrame(n + 1, n + 2, n + 1))
    BY <1>4 DEF Loops
  <2>2. Opened(n, Goto(n + 1), <<NewBlock, NewBlock>>, LoopFrame(n + 1, n + 2, n + 1))
    BY <1>4, LoopOpened
  <2> QED BY <2>1, <2>2, ShapeOpening
<1>5. CASE Elses \/ EndsIf \/ EndsLoop \/ EndsBody
  BY <1>5, ShapeElse, ShapeEndIf, ShapeEndLoop, ShapeEndsBody
<1>6. ASSUME InLoop, NEW b \in {Innermost.exit, Innermost.target},
             Leaves(Goto(b), Innermost.locals)
      PROVE  Shape'
  <2>1. PICK t : t = Goto(b) OBVIOUS
  <2>2. t.then = b /\ t.else = b
    BY <2>1 DEF Goto
  <2>3. b \in DOMAIN blocks
    BY <1>6, LoopAtIs, FrameTypes
  <2> QED BY <1>6, <2>1, <2>2, <2>3, ShapeLeaves
<1>7. ASSUME NEW x \in Readable \cup {0}, Leaves(Return(x), {})
      PROVE  Shape'
  <2>1. PICK t : t = Return(x) OBVIOUS
  <2>2. t.kind = "return"
    BY <2>1 DEF Return
  <2> QED BY <1>7, <2>1, <2>2, ShapeLeaves
<1> QED BY <1>1, <1>2, <1>3, <1>4, <1>5, <1>6, <1>7 DEF Lowers

LEMMA ShapeStutter ==
  ASSUME Shape, UNCHANGED vars
  PROVE  Shape'
<1>1. UNCHANGED <<phase, fragment, returns, blocks, cur, frames, declared, visible,
                  moved, inited, open, spent, at, jumps, mem>>
  BY DEF vars, lowering, running
<1>2. StateTypes'
  BY <1>1 DEF Shape, StateTypes
<1>3. (IF phase = "lower" THEN Lowering ELSE Lowered)'
  BY <1>1 DEF Shape, Lowering, Lowered
<1> QED BY <1>1, <1>2, <1>3 DEF Shape, Targets

\* The blocks and the constructs are well formed in every state.
THEOREM DropsShape == Spec => []Shape
<1>1. Init => Shape
  BY ShapeInit
<1>2. Shape /\ [Next]_vars => Shape'
  BY NextIs, ShapeLowers, ShapeInsertDrops, ShapeRunBlock, ShapeStutter
<1> QED BY <1>1, <1>2, PTL DEF Spec

-----------------------------------------------------------------------------
(* The locals given up, and the scopes *)

LEMMA LostGrows ==
  ASSUME NEW bs \in Seq(Blocks), NEW b \in DOMAIN bs, NEW is \in Seq(Instructions),
         NEW new \in Seq(Blocks), Grows(new, bs, b, is)
  PROVE  LostIn(new) = LostIn(bs) \cup Gone(is)
<1>0. /\ DOMAIN bs[b].ins = 1 .. Len(bs[b].ins) /\ Len(bs[b].ins) \in Nat
      /\ DOMAIN is = 1 .. Len(is) /\ Len(is) \in Nat
  BY BlockParts
<1>1. /\ DOMAIN new = DOMAIN bs /\ \A c \in DOMAIN bs \ {b} : new[c] = bs[c]
      /\ Len(new[b].ins) = Len(bs[b].ins) + Len(is)
      /\ \A i \in DOMAIN bs[b].ins : new[b].ins[i] = bs[b].ins[i]
      /\ \A j \in DOMAIN is : new[b].ins[Len(bs[b].ins) + j] = is[j]
  BY DEF Grows
<1>2. DOMAIN new[b].ins = 1 .. Len(bs[b].ins) + Len(is)
  <2>1. b \in DOMAIN new
    BY <1>1
  <2> QED BY <1>1, <2>1, BlockParts
<1>3. ASSUME NEW x \in LostIn(new)
      PROVE  x \in LostIn(bs) \cup Gone(is)
  <2>1. PICK c \in DOMAIN new : \E i \in DOMAIN new[c].ins :
                    new[c].ins[i].op \in Losing /\ new[c].ins[i].from = x
    BY DEF LostIn
  <2>2. PICK i \in DOMAIN new[c].ins : new[c].ins[i].op \in Losing /\ new[c].ins[i].from = x
    BY <2>1
  <2>3. x \in Locals
    BY DEF LostIn
  <2>4. CASE c # b
    BY <1>1, <2>1, <2>2, <2>3, <2>4 DEF LostIn
  <2>5. CASE c = b /\ i \in DOMAIN bs[b].ins
    BY <1>1, <2>2, <2>3, <2>5 DEF LostIn
  <2>6. CASE c = b /\ i \notin DOMAIN bs[b].ins
    <3>1. i - Len(bs[b].ins) \in DOMAIN is /\ Len(bs[b].ins) + (i - Len(bs[b].ins)) = i
      BY <1>0, <1>2, <2>2, <2>6
    <3>2. new[b].ins[i] = is[i - Len(bs[b].ins)]
      BY <1>1, <3>1
    <3> QED BY <2>2, <2>3, <2>6, <3>1, <3>2 DEF Gone
  <2> QED BY <2>4, <2>5, <2>6
<1>4. ASSUME NEW x \in LostIn(bs)
      PROVE  x \in LostIn(new)
  <2>1. PICK c \in DOMAIN bs : \E i \in DOMAIN bs[c].ins :
                    bs[c].ins[i].op \in Losing /\ bs[c].ins[i].from = x
    BY DEF LostIn
  <2>2. PICK i \in DOMAIN bs[c].ins : bs[c].ins[i].op \in Losing /\ bs[c].ins[i].from = x
    BY <2>1
  <2>3. new[c].ins[i] = bs[c].ins[i] /\ i \in DOMAIN new[c].ins /\ c \in DOMAIN new
    <3>1. CASE c = b
      <4>1. i \in DOMAIN bs[b].ins /\ b \in DOMAIN new
        BY <1>1, <2>2, <3>1
      <4>2. i \in 1 .. Len(bs[b].ins) + Len(is)
        BY <1>0, <4>1
      <4> QED BY <1>1, <1>2, <3>1, <4>1, <4>2
    <3>2. CASE c # b
      <4>1. new[c] = bs[c] /\ c \in DOMAIN new
        BY <1>1, <3>2
      <4> QED BY <2>2, <4>1
    <3> QED BY <3>1, <3>2
  <2> QED BY <2>2, <2>3 DEF LostIn
<1>5. ASSUME NEW x \in Gone(is)
      PROVE  x \in LostIn(new)
  <2>1. PICK j \in DOMAIN is : is[j].op \in Losing /\ is[j].from = x
    BY DEF Gone
  <2>2. Len(bs[b].ins) + j \in DOMAIN new[b].ins /\ new[b].ins[Len(bs[b].ins) + j] = is[j]
    BY <1>0, <1>1, <1>2
  <2> QED BY <1>1, <2>1, <2>2 DEF LostIn, Gone
<1> QED BY <1>3, <1>4, <1>5

LEMMA LostSame ==
  ASSUME NEW bs, NEW new, DOMAIN bs \subseteq DOMAIN new,
         \A b \in DOMAIN new :
           new[b].ins = IF b \in DOMAIN bs THEN bs[b].ins ELSE <<>>
  PROVE  LostIn(new) = LostIn(bs)
BY DEF LostIn

\* What the five statements give up.
LEMMA GoneIs ==
  ASSUME NEW x \in Locals, NEW y \in Locals, NEW how \in GivingOps
  PROVE  /\ Gone(<<Alloc(x)>>) = {} /\ Gone(<<Move(x, y)>>) = {}
         /\ Gone(<<Give(x, how)>>) = {x}
         /\ Gone(FreePrior(x) \o <<Alloc(x)>>) = {}
         /\ Gone(FreePrior(x) \o <<Assign(x, y)>>) = {y}
<1>1. PICK a : a = Alloc(x) OBVIOUS
<1>2. PICK s : s = Assign(x, y) OBVIOUS
<1>3. PICK m : m = Move(x, y) OBVIOUS
<1>4. PICK g : g = Give(x, how) OBVIOUS
<1>5. PICK d : d = Dealloc(x) OBVIOUS
<1>6. /\ a \in Instructions /\ a.op \notin Losing
      /\ s \in Instructions /\ s.op \in Losing /\ s.from = y
      /\ m \in Instructions /\ m.op \notin Losing
      /\ g \in Instructions /\ g.op \in Losing /\ g.from = x
      /\ d \in Instructions /\ d.op \notin Losing
  BY <1>1, <1>2, <1>3, <1>4, <1>5, InstructionsAre
     DEF Alloc, Assign, Move, Give, Dealloc, Losing, GivingOps
<1>7. ASSUME NEW i \in Instructions
      PROVE  Gone(<<i>>) = IF i.op \in Losing THEN {i.from} ELSE {}
  <2>1. PICK is : is = <<i>> OBVIOUS
  <2>2. DOMAIN is = {1} /\ is[1] = i /\ i.from \in Locals
    BY <2>1 DEF Instructions
  <2> QED BY <2>1, <2>2 DEF Gone
<1>8. ASSUME NEW i \in Instructions
      PROVE  Gone(<<d, i>>) = IF i.op \in Losing THEN {i.from} ELSE {}
  <2>1. PICK is : is = <<d, i>> OBVIOUS
  <2>2. DOMAIN is = {1, 2} /\ is[1] = d /\ is[2] = i /\ i.from \in Locals
    BY <2>1 DEF Instructions
  <2> QED BY <1>6, <2>1, <2>2 DEF Gone
<1>9. ASSUME NEW i \in Instructions
      PROVE  Gone(FreePrior(x) \o <<i>>) = IF i.op \in Losing THEN {i.from} ELSE {}
  <2>1. FreePrior(x) \o <<i>> = IF x \in inited THEN <<d, i>> ELSE <<i>>
    BY <1>5, PriorIs
  <2> QED BY <1>7, <1>8, <2>1
<1> QED BY <1>1, <1>2, <1>3, <1>4, <1>6, <1>7, <1>9

LEMMA LostEmits ==
  ASSUME Shape, NEW is, Emits(is)
  PROVE  Lost' = Lost \cup Gone(is)
<1>1. PICK new : new = blocks' OBVIOUS
<1>2. new \in Seq(Blocks) /\ Grows(new, blocks, cur, is) /\ is \in Seq(Instructions)
  BY <1>1 DEF Emits
<1>3. LostIn(new) = LostIn(blocks) \cup Gone(is)
  BY <1>2, ShapeFacts, LostGrows
<1> QED BY <1>1, <1>3 DEF Lost

LEMMA LostJumped ==
  ASSUME Shape, NEW t, NEW xs, NEW more, Jumped(t, xs, more),
         \A j \in DOMAIN more : more[j].ins = <<>>
  PROVE  Lost' = Lost
<1>1. PICK new : new = blocks' OBVIOUS
<1>2. PICK n : n = Len(blocks) OBVIOUS
<1>3. /\ DOMAIN blocks = 1 .. n /\ DOMAIN new = 1 .. n + Len(more) /\ n \in Nat
      /\ Len(more) \in Nat /\ DOMAIN more = 1 .. Len(more)
      /\ \A b \in 1 .. n : new[b].ins = blocks[b].ins
      /\ \A b \in 1 .. n + Len(more) : b \notin 1 .. n =>
           b - n \in 1 .. Len(more) /\ new[b] = more[b - n]
  BY <1>1, <1>2, JumpedBlocks
<1>4. DOMAIN blocks \subseteq DOMAIN new
  BY <1>3
<1>5. ASSUME NEW b \in DOMAIN new
      PROVE  new[b].ins = IF b \in DOMAIN blocks THEN blocks[b].ins ELSE <<>>
  BY <1>3
<1>6. LostIn(new) = LostIn(blocks)
  BY <1>4, <1>5, LostSame
<1> QED BY <1>1, <1>6 DEF Lost

\* What a disciplined fragment may do where.
LEMMA MayFacts ==
  ASSUME Disciplined(fragment)
  PROVE  /\ ~May("store")
         /\ InLoop => ~May("call") /\ ~May("set_from") /\ ~May("revive") /\ ~May("outer_move")
         /\ Branchless(fragment) /\ ~InLoop =>
              /\ ~May("if") /\ ~May("while") /\ ~May("loop") /\ ~May("return")
              /\ ~May("call") /\ ~May("set_from")
         /\ "revive" \in fragment.outside /\ ~Branchless(fragment) =>
              ~May("push") /\ ~May("spawn") /\ ~May("call") /\ ~May("set_from")
         /\ fragment.backend = "llvm" => Branchless(fragment)
<1>1. ~May("store")
  BY DEF Disciplined, May
<1>2. InLoop => ~May("call") /\ ~May("set_from") /\ ~May("revive") /\ ~May("outer_move")
  BY DEF Disciplined, May
<1>3. Branchless(fragment) /\ ~InLoop =>
              /\ ~May("if") /\ ~May("while") /\ ~May("loop") /\ ~May("return")
              /\ ~May("call") /\ ~May("set_from")
  BY DEF Branchless, May
<1>4. "revive" \in fragment.outside /\ ~Branchless(fragment) =>
              ~May("push") /\ ~May("spawn") /\ ~May("call") /\ ~May("set_from")
  BY DEF Disciplined, May
<1> QED BY <1>1, <1>2, <1>3, <1>4 DEF Disciplined

\* What a loop lets a statement move and set.
LEMMA LoopReach ==
  ASSUME Shape, Scoped, Disciplined(fragment), NEW i \in DOMAIN frames, frames[i].kind = "loop"
  PROVE  /\ InLoop /\ Movable \cap frames[i].scope = {} /\ Settable \cap moved = {}
<1>1. InLoop
  BY DEF InLoop, LoopDepths
<1>2. LoopAt \in DOMAIN frames /\ i <= LoopAt /\ Innermost = frames[LoopAt]
  BY <1>1, LoopAtIs
<1>3. frames[i].scope \subseteq Innermost.scope
  BY <1>2, ShapeFacts DEF Scoped
<1>4. Movable = Readable \ Innermost.scope /\ Settable = Readable
  BY <1>1, MayFacts DEF Movable, Settable
<1> QED BY <1>1, <1>3, <1>4, ReadFacts

LEMMA ScopedEmits ==
  ASSUME Shape, Scoped, NEW is, Emits(is), visible \subseteq visible',
         Lost' \subseteq 1 .. declared',
         \A i \in DOMAIN frames : frames[i].kind = "loop" =>
           /\ frames'[i].locals \cap (frames[i].scope \cup Lost') = {}
           /\ moved' \cap frames[i].scope = moved \cap frames[i].scope,
         Branchless(fragment) => (1 .. declared') \ Lost' \subseteq inited',
         "revive" \in fragment.outside /\ ~Branchless(fragment) => Lost' = {}
  PROVE  Scoped'
<1>1. fragment' = fragment /\ DOMAIN blocks' = DOMAIN blocks /\ blocks' \in Seq(Blocks)
      /\ blocks \in Seq(Blocks) /\ frames \in Seq(Frames) /\ frames' \in Seq(Frames)
  BY ShapeFacts DEF Emits, Grows
<1>2. Len(blocks') = Len(blocks)
  <2>1. PICK new : new = blocks' OBVIOUS
  <2>2. DOMAIN new = 1 .. Len(new) /\ Len(new) \in Nat
    BY <1>1, <2>1
  <2> QED BY <1>1, <2>1, <2>2, ShapeFacts
<1>3. /\ DOMAIN frames' = DOMAIN frames
      /\ \A i \in DOMAIN frames :
           /\ frames'[i].kind = frames[i].kind
           /\ frames'[i].scope = frames[i].scope /\ frames'[i].moved = frames[i].moved
  BY DEF Emits, Relisted
<1>4. \A i \in DOMAIN frames' : frames'[i].scope \subseteq visible'
  BY <1>3 DEF Scoped
<1>5. \A i, j \in DOMAIN frames' : i < j => frames'[i].scope \subseteq frames'[j].scope
  BY <1>3 DEF Scoped
<1>6. ASSUME NEW i \in DOMAIN frames', frames'[i].kind = "loop"
      PROVE  LoopScope(i)'
  BY <1>3, <1>6 DEF Scoped, LoopScope
<1>7. Branchless(fragment') =>
        frames' = <<>> /\ Len(blocks') = 1 /\ (1 .. declared') \ Lost' \subseteq inited'
  <2>1. ASSUME frames = <<>> PROVE frames' = <<>>
    <3>1. PICK fs : fs = frames' OBVIOUS
    <3>2. DOMAIN fs = {} /\ fs \in Seq(Frames)
      BY <1>1, <1>3, <2>1, <3>1
    <3> QED BY <3>1, <3>2
  <2> QED BY <1>1, <1>2, <2>1 DEF Scoped
<1> QED BY <1>1, <1>4, <1>5, <1>6, <1>7 DEF Scoped

LEMMA ScopedDeclares ==
  ASSUME Shape, Scoped, NEW is, Emits(is), Declares, Lost' = Lost,
         \A i \in DOMAIN frames : frames[i].kind = "loop" =>
           moved' \cap frames[i].scope = moved \cap frames[i].scope
  PROVE  Scoped'
<1>1. /\ declared \in Nat /\ declared' = declared + 1 /\ Lost \subseteq 1 .. declared
      /\ visible' = visible \cup {declared'} /\ inited' = inited \cup {declared'}
  BY ShapeFacts DEF Declares, Scoped
<1>2. declared' \notin Lost /\ Lost \subseteq 1 .. declared'
      /\ 1 .. declared' = (1 .. declared) \cup {declared'}
  BY <1>1
<1>3. ASSUME NEW i \in DOMAIN frames, frames[i].kind = "loop"
      PROVE  frames'[i].locals \cap (frames[i].scope \cup Lost') = {}
  <2>1. declared' \notin frames[i].scope
    BY <1>1, FrameTypes
  <2>2. frames'[i].locals \subseteq frames[i].locals \cup {declared'}
    BY DEF Declares
  <2>3. frames[i].locals \cap (frames[i].scope \cup Lost) = {}
    BY <1>3 DEF Scoped, LoopScope
  <2> QED BY <1>2, <2>1, <2>2, <2>3
<1>4. Branchless(fragment) => (1 .. declared') \ Lost' \subseteq inited'
  BY <1>1, <1>2 DEF Scoped
<1>5. "revive" \in fragment.outside /\ ~Branchless(fragment) => Lost' = {}
  BY DEF Scoped
<1> QED BY <1>1, <1>2, <1>3, <1>4, <1>5, ScopedEmits

LEMMA ScopedStatement ==
  ASSUME Shape, Scoped, Disciplined(fragment),
         \/ Lets \/ \E y \in Movable : LetsFrom(y)
         \/ \E x \in Settable : Sets(x) \/ \E y \in Movable : SetsFrom(x, y)
         \/ \E how \in GivingOps : \E x \in Movable : Gives(x, how)
  PROVE  Scoped'
<1>0. /\ Movable \subseteq 1 .. declared /\ Settable \subseteq 1 .. declared
      /\ Movable \subseteq Locals /\ Settable \subseteq Locals
      /\ Lost \subseteq 1 .. declared
  BY ReadFacts, ShapeFacts DEF Scoped
<1>1. CASE Lets
  <2>1. declared + 1 \in Locals /\ Emits(<<Alloc(declared + 1)>>) /\ Declares /\ moved' = moved
    BY <1>1 DEF Lets, Declares
  <2>2. Lost' = Lost
    <3>1. PICK x \in Locals : x = declared + 1
      BY <2>1
    <3>2. Gone(<<Alloc(x)>>) = {}
      BY GoneIs DEF GivingOps
    <3> QED BY <2>1, <3>1, <3>2, LostEmits
  <2> QED BY <2>1, <2>2, ScopedDeclares
<1>2. ASSUME NEW y \in Movable, LetsFrom(y)
      PROVE  Scoped'
  <2>1. declared + 1 \in Locals /\ Emits(<<Move(declared + 1, y)>>) /\ Declares
        /\ moved' = moved \cup {y}
    BY <1>2 DEF LetsFrom, Declares
  <2>2. Lost' = Lost
    <3>1. PICK x \in Locals : x = declared + 1
      BY <2>1
    <3>2. Gone(<<Move(x, y)>>) = {}
      BY <1>0, GoneIs DEF GivingOps
    <3> QED BY <2>1, <3>1, <3>2, LostEmits
  <2>3. \A i \in DOMAIN frames : frames[i].kind = "loop" =>
           moved' \cap frames[i].scope = moved \cap frames[i].scope
    BY <2>1, LoopReach
  <2> QED BY <2>1, <2>2, <2>3, ScopedDeclares
<1>3. ASSUME NEW x \in Settable, Sets(x)
      PROVE  Scoped'
  <2>1. /\ Emits(FreePrior(x) \o <<Alloc(x)>>) /\ Declared
        /\ moved' = moved \ {x} /\ inited' = inited \cup {x}
    BY <1>3 DEF Sets
  <2>2. Lost' = Lost
    <3>1. Gone(FreePrior(x) \o <<Alloc(x)>>) = {}
      BY <1>0, GoneIs DEF GivingOps
    <3> QED BY <2>1, <3>1, LostEmits
  <2>3. \A i \in DOMAIN frames : frames[i].kind = "loop" =>
          /\ frames'[i].locals \cap (frames[i].scope \cup Lost') = {}
          /\ moved' \cap frames[i].scope = moved \cap frames[i].scope
    <3> SUFFICES ASSUME NEW i \in DOMAIN frames, frames[i].kind = "loop"
                 PROVE  /\ frames'[i].locals \cap (frames[i].scope \cup Lost') = {}
                        /\ moved' \cap frames[i].scope = moved \cap frames[i].scope
      OBVIOUS
    <3>1. x \notin moved
      BY LoopReach
    <3>2. frames'[i].locals \subseteq frames[i].locals
      BY <2>1 DEF Declared
    <3>3. frames[i].locals \cap (frames[i].scope \cup Lost) = {}
      BY DEF Scoped, LoopScope
    <3> QED BY <2>1, <2>2, <3>1, <3>2, <3>3
  <2>4. declared' = declared /\ visible' = visible
    BY <2>1 DEF Declared
  <2>5. Branchless(fragment) => (1 .. declared') \ Lost' \subseteq inited'
    BY <2>1, <2>2, <2>4 DEF Scoped
  <2>6. "revive" \in fragment.outside /\ ~Branchless(fragment) => Lost' = {}
    BY <2>2 DEF Scoped
  <2> QED BY <1>0, <2>1, <2>2, <2>3, <2>4, <2>5, <2>6, ScopedEmits
<1>4. ASSUME NEW x \in Settable, NEW y \in Movable, SetsFrom(x, y)
      PROVE  Scoped'
  <2>1. /\ Emits(FreePrior(x) \o <<Assign(x, y)>>) /\ Declared /\ May("set_from")
        /\ inited' = inited \cup {x}
    BY <1>4 DEF SetsFrom
  <2>2. Lost' = Lost \cup {y}
    <3>1. Gone(FreePrior(x) \o <<Assign(x, y)>>) = {y}
      BY <1>0, GoneIs DEF GivingOps
    <3> QED BY <2>1, <3>1, LostEmits
  <2>3. \A i \in DOMAIN frames : frames[i].kind # "loop"
    BY <2>1, LoopReach, MayFacts
  <2>4. declared' = declared /\ visible' = visible
    BY <2>1 DEF Declared
  <2>5. ~InLoop
    BY <2>1, MayFacts
  <2>6. ~Branchless(fragment) /\ "revive" \notin fragment.outside
    BY <2>1, <2>5, MayFacts
  <2> QED BY <1>0, <2>1, <2>2, <2>3, <2>4, <2>6, ScopedEmits
<1>5. ASSUME NEW how \in GivingOps, NEW x \in Movable, Gives(x, how)
      PROVE  Scoped'
  <2>1. /\ Emits(<<Give(x, how)>>) /\ Declared /\ May(how) /\ how # "store"
        /\ moved' = moved \cup {x}
        /\ inited' = IF how \in {"push", "spawn"} THEN inited \ {x} ELSE inited
        /\ how \in {"push", "spawn"} =>
             \A i \in DOMAIN frames : frames'[i].locals = frames[i].locals \ {x}
    <3>1. how # "store"
      BY <1>5, MayFacts DEF Gives
    <3> QED BY <1>5, <3>1 DEF Gives
  <2>2. Lost' = Lost \cup {x}
    <3>1. Gone(<<Give(x, how)>>) = {x}
      BY <1>0, GoneIs
    <3> QED BY <2>1, <3>1, LostEmits
  <2>3. how \notin {"push", "spawn"} => how = "call"
    BY <2>1 DEF GivingOps
  <2>4. \A i \in DOMAIN frames : frames[i].kind = "loop" =>
          /\ frames'[i].locals \cap (frames[i].scope \cup Lost') = {}
          /\ moved' \cap frames[i].scope = moved \cap frames[i].scope
    <3> SUFFICES ASSUME NEW i \in DOMAIN frames, frames[i].kind = "loop"
                 PROVE  /\ frames'[i].locals \cap (frames[i].scope \cup Lost') = {}
                        /\ moved' \cap frames[i].scope = moved \cap frames[i].scope
      OBVIOUS
    <3>1. x \notin frames[i].scope /\ InLoop
      BY LoopReach
    <3>2. how \in {"push", "spawn"}
      BY <2>1, <2>3, <3>1, MayFacts
    <3>3. frames'[i].locals = frames[i].locals \ {x}
      BY <2>1, <3>2
    <3>4. frames[i].locals \cap (frames[i].scope \cup Lost) = {}
      BY DEF Scoped, LoopScope
    <3> QED BY <2>1, <2>2, <3>1, <3>3, <3>4
  <2>5. declared' = declared /\ visible' = visible
    BY <2>1 DEF Declared
  <2>6. Branchless(fragment) => (1 .. declared') \ Lost' \subseteq inited'
    <3> SUFFICES ASSUME Branchless(fragment) PROVE (1 .. declared') \ Lost' \subseteq inited'
      OBVIOUS
    <3>1. (1 .. declared) \ Lost \subseteq inited
      BY DEF Scoped
    <3> QED BY <2>1, <2>2, <2>5, <3>1
  <2>7. ~("revive" \in fragment.outside /\ ~Branchless(fragment))
    BY <2>1, <2>3, MayFacts
  <2> QED BY <1>0, <2>1, <2>2, <2>4, <2>5, <2>6, <2>7, ScopedEmits
<1> QED BY <1>1, <1>2, <1>3, <1>4, <1>5

\* An open construct: something branches here.
LEMMA Branching ==
  ASSUME Shape, Scoped, Disciplined(fragment),
         frames # <<>> \/ May("if") \/ May("while") \/ May("loop") \/ May("return")
  PROVE  ~Branchless(fragment)
<1> SUFFICES ASSUME Branchless(fragment) PROVE FALSE OBVIOUS
<1>1. frames = <<>>
  BY DEF Scoped
<1>2. ~InLoop
  BY <1>1 DEF InLoop, LoopDepths
<1> QED BY <1>1, <1>2, MayFacts

\* The construct that opens takes over the scope and the moves.
LEMMA ScopedOpening ==
  ASSUME Shape, Scoped, NEW t, NEW more, NEW f, Opening(t, more, f), ~Branchless(fragment),
         \A j \in DOMAIN more : more[j].ins = <<>>,
         f.scope = visible, f.moved = moved, f.locals = {}
  PROVE  Scoped'
<1>1. /\ Jumped(t, {}, more) /\ f \in Frames /\ frames' = Append(frames, f)
      /\ visible' = visible /\ moved' = moved /\ declared' = declared
      /\ fragment' = fragment
  BY DEF Opening, Jumped
<1>2. Lost' = Lost
  BY <1>1, LostJumped
<1>3. PICK fs : fs = frames OBVIOUS
<1>4. PICK new : new = frames' OBVIOUS
<1>5. PICK n : n = Len(frames) OBVIOUS
<1>6. /\ DOMAIN new = 1 .. n + 1 /\ DOMAIN fs = 1 .. n /\ n \in Nat
      /\ new[n + 1] = f /\ \A i \in 1 .. n : new[i] = fs[i]
  <2>1. fs \in Seq(Frames) /\ new = Append(fs, f)
    BY <1>1, <1>3, <1>4, ShapeFacts
  <2> QED BY <1>1, <1>3, <1>5, <2>1, AppendedIsOne
<1>7. \A i \in DOMAIN new : i \in 1 .. n \/ i = n + 1
  BY <1>6
<1>8. \A i \in DOMAIN new : new[i].scope \subseteq visible
  BY <1>3, <1>6, <1>7 DEF Scoped
<1>9. ASSUME NEW i \in DOMAIN new, NEW j \in DOMAIN new, i < j
      PROVE  new[i].scope \subseteq new[j].scope
  <2>1. i \in 1 .. n
    BY <1>6, <1>9
  <2>2. CASE j \in 1 .. n
    BY <1>3, <1>6, <1>9, <2>1, <2>2 DEF Scoped
  <2>3. CASE j = n + 1
    BY <1>3, <1>6, <2>1, <2>3 DEF Scoped
  <2> QED BY <1>7, <2>2, <2>3
<1>10. ASSUME NEW i \in DOMAIN new, new[i].kind = "loop"
       PROVE  /\ new[i].locals \cap (new[i].scope \cup Lost) = {}
              /\ moved \cap new[i].scope = new[i].moved \cap new[i].scope
              /\ \A j \in DOMAIN new : i < j =>
                   new[j].moved \cap new[i].scope = new[i].moved \cap new[i].scope
  <2>1. CASE i = n + 1
    <3>1. \A j \in DOMAIN new : ~(i < j)
      BY <1>6, <2>1
    <3> QED BY <1>6, <2>1, <3>1
  <2>2. CASE i \in 1 .. n
    <3>1. new[i] = frames[i] /\ LoopScope(i)
      BY <1>3, <1>6, <1>10, <2>2 DEF Scoped
    <3>2. ASSUME NEW j \in DOMAIN new, i < j
          PROVE  new[j].moved \cap new[i].scope = new[i].moved \cap new[i].scope
      <4>1. CASE j \in 1 .. n
        BY <1>3, <1>6, <3>1, <3>2, <4>1 DEF LoopScope
      <4>2. CASE j = n + 1
        BY <1>6, <3>1, <4>2 DEF LoopScope
      <4> QED BY <1>7, <4>1, <4>2
    <3> QED BY <3>1, <3>2 DEF LoopScope
  <2> QED BY <1>7, <2>1, <2>2
<1>11. \A i \in DOMAIN frames' : frames'[i].kind = "loop" => LoopScope(i)'
  BY <1>1, <1>2, <1>4, <1>10 DEF LoopScope
<1>12. Lost \subseteq 1 .. declared /\ ("revive" \in fragment.outside /\ ~Branchless(fragment) => Lost = {})
  BY DEF Scoped
<1> QED BY <1>1, <1>2, <1>4, <1>8, <1>9, <1>11, <1>12 DEF Scoped

LEMMA ScopedInit ==
  ASSUME Init
  PROVE  Scoped
<1>1. blocks = <<NewBlock>> /\ frames = <<>> /\ declared = 0
  BY DEF Init
<1>2. DOMAIN blocks = {1} /\ blocks[1].ins = <<>> /\ Len(blocks) = 1
  BY <1>1, NewBlockIs
<1>3. Lost = {}
  BY <1>2 DEF Lost, LostIn
<1> QED BY <1>1, <1>2, <1>3 DEF Scoped

\* Constructs close or turn to their else branch; nothing new is given up.
LEMMA ScopedKeeps ==
  ASSUME Scoped, Lost' = Lost, UNCHANGED <<fragment, declared>>, ~Branchless(fragment),
         DOMAIN frames' \subseteq DOMAIN frames,
         \A i \in DOMAIN frames' :
           /\ frames'[i].scope = frames[i].scope /\ frames'[i].locals = frames[i].locals
           /\ frames[i].scope \subseteq visible'
           /\ frames'[i].kind = "loop" =>
                /\ frames[i].kind = "loop" /\ frames'[i].moved = frames[i].moved
                /\ moved' \cap frames[i].scope = frames[i].moved \cap frames[i].scope
                /\ \A j \in DOMAIN frames' : i < j =>
                     frames'[j].moved \cap frames[i].scope
                       = frames[i].moved \cap frames[i].scope
  PROVE  Scoped'
<1>1. \A i \in DOMAIN frames' : frames'[i].scope \subseteq visible' OBVIOUS
<1>2. \A i, j \in DOMAIN frames' : i < j => frames'[i].scope \subseteq frames'[j].scope
  BY DEF Scoped
<1>3. ASSUME NEW i \in DOMAIN frames', frames'[i].kind = "loop"
      PROVE  LoopScope(i)'
  <2>1. LoopScope(i)
    BY <1>3 DEF Scoped
  <2> QED BY <1>3, <2>1 DEF LoopScope
<1>4. /\ Lost' \subseteq 1 .. declared' /\ ~Branchless(fragment')
      /\ "revive" \in fragment'.outside /\ ~Branchless(fragment') => Lost' = {}
  BY DEF Scoped
<1> QED BY <1>1, <1>2, <1>3, <1>4 DEF Scoped

LEMMA ScopedJumped ==
  ASSUME Shape, NEW t, NEW xs, NEW more, Jumped(t, xs, more),
         more = <<>> \/ more = <<NewBlock>>
  PROVE  Lost' = Lost /\ UNCHANGED <<fragment, declared>>
<1>1. \A j \in DOMAIN more : more[j].ins = <<>>
  <2>1. CASE more = <<>>
    BY <2>1
  <2>2. CASE more = <<NewBlock>>
    BY <2>2, NewBlockIs
  <2> QED BY <2>1, <2>2
<1>2. Lost' = Lost
  BY <1>1, LostJumped
<1> QED BY <1>2 DEF Jumped

LEMMA ScopedElse ==
  ASSUME Shape, Scoped, Disciplined(fragment), Elses
  PROVE  Scoped'
<1>1. PICK top : top = Len(frames) OBVIOUS
<1>2. /\ Top.kind = "then" /\ DOMAIN frames' = DOMAIN frames /\ frames # <<>>
      /\ \A i \in DOMAIN frames \ {top} : frames'[i] = frames[i]
      /\ frames'[top].kind = "else" /\ frames'[top].locals = Top.locals
      /\ frames'[top].scope = Top.scope /\ frames'[top].moved = moved
      /\ visible' = Top.scope /\ moved' = Top.moved
  BY <1>1 DEF Elses
<1>3. top \in DOMAIN frames /\ Top = frames[top]
  BY <1>1, <1>2, TopIs
<1>4. \A i \in DOMAIN frames : i = top \/ i < top
  BY <1>1, ShapeFacts
<1>5. Lost' = Lost /\ UNCHANGED <<fragment, declared>>
  BY ScopedJumped DEF Elses
<1>6. ASSUME NEW i \in DOMAIN frames
      PROVE  /\ frames'[i].scope = frames[i].scope /\ frames'[i].locals = frames[i].locals
             /\ frames[i].scope \subseteq visible'
             /\ frames'[i].kind = "loop" =>
                  /\ frames[i].kind = "loop" /\ frames'[i].moved = frames[i].moved
                  /\ moved' \cap frames[i].scope = frames[i].moved \cap frames[i].scope
                  /\ \A j \in DOMAIN frames' : i < j =>
                       frames'[j].moved \cap frames[i].scope
                         = frames[i].moved \cap frames[i].scope
  <2>1. CASE i = top
    BY <1>2, <1>3, <2>1
  <2>2. CASE i # top
    <3>1. frames'[i] = frames[i] /\ i < top
      BY <1>2, <1>4, <2>2
    <3>2. frames[i].scope \subseteq visible'
      BY <1>2, <1>3, <3>1 DEF Scoped
    <3>3. ASSUME frames[i].kind = "loop"
          PROVE  /\ moved' \cap frames[i].scope = frames[i].moved \cap frames[i].scope
                 /\ \A j \in DOMAIN frames' : i < j =>
                      frames'[j].moved \cap frames[i].scope
                        = frames[i].moved \cap frames[i].scope
      <4>1. LoopScope(i)
        BY <3>3 DEF Scoped
      <4>2. moved' \cap frames[i].scope = frames[i].moved \cap frames[i].scope
        BY <1>2, <1>3, <3>1, <4>1 DEF LoopScope
      <4>3. ASSUME NEW j \in DOMAIN frames', i < j
            PROVE  frames'[j].moved \cap frames[i].scope
                     = frames[i].moved \cap frames[i].scope
        <5>1. CASE j = top
          BY <1>2, <4>1, <5>1 DEF LoopScope
        <5>2. CASE j # top
          BY <1>2, <4>1, <4>3, <5>2 DEF LoopScope
        <5> QED BY <5>1, <5>2
      <4> QED BY <4>2, <4>3
    <3> QED BY <3>1, <3>2, <3>3
  <2> QED BY <2>1, <2>2
<1>7. ~Branchless(fragment)
  BY <1>2, Branching
<1> QED BY <1>2, <1>5, <1>6, <1>7, ScopedKeeps

\* A construct closes over moves its scope agrees with.
LEMMA ScopedPops ==
  ASSUME Shape, Scoped, Disciplined(fragment), Pops, phase = "lower", Lost' = Lost,
         UNCHANGED <<fragment, declared>>,
         moved' \in {moved, moved \cup Top.moved}
  PROVE  Scoped'
<1>1. PICK top : top = Len(frames) OBVIOUS
<1>2. /\ top \in DOMAIN frames /\ Top = frames[top]
      /\ DOMAIN frames' = DOMAIN frames \ {top}
      /\ \A i \in DOMAIN frames' : frames'[i] = frames[i]
      /\ visible' = Top.scope
  BY <1>1, PopsFrames
<1>3. \A i \in DOMAIN frames' : i < top
  BY <1>1, <1>2, ShapeFacts
<1>4. ASSUME NEW i \in DOMAIN frames'
      PROVE  /\ frames'[i].scope = frames[i].scope /\ frames'[i].locals = frames[i].locals
             /\ frames[i].scope \subseteq visible'
             /\ frames'[i].kind = "loop" =>
                  /\ frames[i].kind = "loop" /\ frames'[i].moved = frames[i].moved
                  /\ moved' \cap frames[i].scope = frames[i].moved \cap frames[i].scope
                  /\ \A j \in DOMAIN frames' : i < j =>
                       frames'[j].moved \cap frames[i].scope
                         = frames[i].moved \cap frames[i].scope
  <2>1. frames[i].scope \subseteq visible'
    BY <1>2, <1>3 DEF Scoped
  <2>2. ASSUME frames[i].kind = "loop"
        PROVE  /\ moved' \cap frames[i].scope = frames[i].moved \cap frames[i].scope
               /\ \A j \in DOMAIN frames' : i < j =>
                    frames'[j].moved \cap frames[i].scope
                      = frames[i].moved \cap frames[i].scope
    <3>1. LoopScope(i)
      BY <1>2, <2>2 DEF Scoped
    <3>2. Top.moved \cap frames[i].scope = frames[i].moved \cap frames[i].scope
      BY <1>2, <1>3, <3>1 DEF LoopScope
    <3>3. moved \cap frames[i].scope = frames[i].moved \cap frames[i].scope
      BY <3>1 DEF LoopScope
    <3>4. moved' \cap frames[i].scope = frames[i].moved \cap frames[i].scope
      BY <3>2, <3>3
    <3> QED BY <1>2, <3>1, <3>4 DEF LoopScope
  <2> QED BY <1>2, <2>1, <2>2
<1>5. ~Branchless(fragment)
  BY <1>1, <1>2, Branching DEF Pops
<1> QED BY <1>2, <1>4, <1>5, ScopedKeeps

LEMMA LostEndsLoop ==
  ASSUME Shape, EndsLoop
  PROVE  Lost' = Lost
<1>1. PICK new : new = blocks' OBVIOUS
<1>2. DOMAIN new = DOMAIN blocks /\ \A b \in DOMAIN blocks : new[b].ins = blocks[b].ins
  BY <1>1 DEF EndsLoop
<1>3. LostIn(new) = LostIn(blocks)
  BY <1>2, LostSame
<1> QED BY <1>1, <1>3 DEF Lost

LEMMA ScopedLeaves ==
  ASSUME Shape, Scoped, NEW t, NEW xs, Leaves(t, xs), ~Branchless(fragment)
  PROVE  Scoped'
<1>1. Lost' = Lost /\ UNCHANGED <<fragment, declared>>
  BY ScopedJumped DEF Leaves
<1>2. UNCHANGED <<frames, visible, moved>>
  BY DEF Leaves
<1> QED BY <1>1, <1>2, ScopedKeeps DEF Scoped, LoopScope

LEMMA ScopedEndsBody ==
  ASSUME Shape, Scoped, EndsBody
  PROVE  Scoped'
<1>1. PICK x : Jumped(Return(x), {}, <<>>)
  BY DEF EndsBody
<1>2. Lost' = Lost /\ UNCHANGED <<fragment, declared>>
  BY <1>1, ScopedJumped
<1>3. UNCHANGED <<frames, visible, moved, inited>>
  BY <1>1 DEF EndsBody, Jumped
<1>4. Len(blocks') = Len(blocks)
  <2>1. PICK new : new = blocks' OBVIOUS
  <2>2. DOMAIN new = DOMAIN blocks /\ new \in Seq(Blocks)
    BY <1>1, <2>1, JumpedOnly
  <2> QED BY <2>1, <2>2, ShapeFacts
<1> QED BY <1>2, <1>3, <1>4 DEF Scoped, LoopScope

LEMMA ScopedSame ==
  ASSUME Scoped, UNCHANGED <<fragment, blocks, frames, declared, visible, moved, inited>>
  PROVE  Scoped'
<1>1. Lost' = Lost
  BY DEF Lost, LostIn
<1> QED BY <1>1 DEF Scoped, LoopScope

\* The three openings.
LEMMA OpeningOf ==
  ASSUME Shape, NEW n \in {Len(blocks)}, Ifs(n) \/ Whiles(n) \/ Loops(n)
  PROVE  \E t, more, f :
           /\ Opening(t, more, f) /\ Opened(n, t, more, f)
           /\ \A j \in DOMAIN more : more[j].ins = <<>> /\ more[j].clears = {}
           /\ f.scope = visible /\ f.moved = moved /\ f.locals = {}
           /\ f.kind \in {"then", "loop"}
           /\ May("if") \/ May("while") \/ May("loop")
<1>1. CASE Ifs(n)
  <2>1. Opened(n, Branch(n + 1, n + 2), Three, IfFrame(n + 2, n + 3))
    BY <1>1, IfOpened
  <2>2. Opening(Branch(n + 1, n + 2), Three, IfFrame(n + 2, n + 3))
    BY <1>1 DEF Ifs
  <2>3. \A j \in DOMAIN Three : Three[j].ins = <<>> /\ Three[j].clears = {}
    BY <2>1 DEF Opened
  <2>4. PICK f : f = IfFrame(n + 2, n + 3) OBVIOUS
  <2>5. f.scope = visible /\ f.moved = moved /\ f.locals = {} /\ f.kind \in {"then", "loop"}
    BY <2>4 DEF IfFrame
  <2>6. May("if")
    BY <1>1 DEF Ifs
  <2> QED BY <2>1, <2>2, <2>3, <2>4, <2>5, <2>6
<1>2. CASE Whiles(n)
  <2>0. PICK more : more = <<Header(n), NewBlock, NewBlock>> OBVIOUS
  <2>1. Opened(n, Goto(n + 1), more, LoopFrame(n + 1, n + 3, n + 2))
    BY <1>2, <2>0, WhileOpened
  <2>2. Opening(Goto(n + 1), more, LoopFrame(n + 1, n + 3, n + 2))
    BY <1>2, <2>0 DEF Whiles
  <2>3. \A j \in DOMAIN more : more[j].ins = <<>> /\ more[j].clears = {}
    BY <2>1 DEF Opened
  <2>4. PICK f : f = LoopFrame(n + 1, n + 3, n + 2) OBVIOUS
  <2>5. f.scope = visible /\ f.moved = moved /\ f.locals = {} /\ f.kind \in {"then", "loop"}
    BY <2>4 DEF LoopFrame
  <2>6. May("while")
    BY <1>2 DEF Whiles
  <2> QED BY <2>1, <2>2, <2>3, <2>4, <2>5, <2>6
<1>3. CASE Loops(n)
  <2>0. PICK more : more = <<NewBlock, NewBlock>> OBVIOUS
  <2>1. Opened(n, Goto(n + 1), more, LoopFrame(n + 1, n + 2, n + 1))
    BY <1>3, <2>0, LoopOpened
  <2>2. Opening(Goto(n + 1), more, LoopFrame(n + 1, n + 2, n + 1))
    BY <1>3, <2>0 DEF Loops
  <2>3. \A j \in DOMAIN more : more[j].ins = <<>> /\ more[j].clears = {}
    BY <2>1 DEF Opened
  <2>4. PICK f : f = LoopFrame(n + 1, n + 2, n + 1) OBVIOUS
  <2>5. f.scope = visible /\ f.moved = moved /\ f.locals = {} /\ f.kind \in {"then", "loop"}
    BY <2>4 DEF LoopFrame
  <2>6. May("loop")
    BY <1>3 DEF Loops
  <2> QED BY <2>1, <2>2, <2>3, <2>4, <2>5, <2>6
<1> QED BY <1>1, <1>2, <1>3

LEMMA ScopedLowers ==
  ASSUME Shape, Scoped, Disciplined(fragment), Lowers
  PROVE  Scoped'
<1>1. CASE \/ Lets \/ \E y \in Movable : LetsFrom(y)
           \/ \E x \in Settable : Sets(x) \/ \E y \in Movable : SetsFrom(x, y)
           \/ \E how \in GivingOps : \E x \in Movable : Gives(x, how)
  BY <1>1, ScopedStatement
<1>2. ASSUME NEW n \in {Len(blocks)}, Ifs(n) \/ Whiles(n) \/ Loops(n)
      PROVE  Scoped'
  <2>1. PICK t, more, f :
           /\ Opening(t, more, f) /\ Opened(n, t, more, f)
           /\ \A j \in DOMAIN more : more[j].ins = <<>> /\ more[j].clears = {}
           /\ f.scope = visible /\ f.moved = moved /\ f.locals = {}
           /\ f.kind \in {"then", "loop"}
           /\ May("if") \/ May("while") \/ May("loop")
    BY <1>2, OpeningOf
  <2>2. ~Branchless(fragment)
    BY <2>1, Branching
  <2> QED BY <2>1, <2>2, ScopedOpening
<1>3. CASE Elses
  BY <1>3, ScopedElse
<1>4. CASE EndsIf
  <2>0. phase = "lower"
    BY <1>4 DEF EndsIf, Jumped
  <2>1. Lost' = Lost /\ UNCHANGED <<fragment, declared>>
    BY <1>4, ScopedJumped DEF EndsIf
  <2> QED BY <1>4, <2>0, <2>1, ScopedPops DEF EndsIf
<1>5. CASE EndsLoop
  <2>1. Lost' = Lost /\ UNCHANGED <<fragment, declared>> /\ phase = "lower" /\ moved' = moved
    BY <1>5, LostEndsLoop DEF EndsLoop
  <2> QED BY <1>5, <2>1, ScopedPops DEF EndsLoop
<1>6. ASSUME InLoop, NEW t, NEW xs, Leaves(t, xs)
      PROVE  Scoped'
  <2>1. frames # <<>>
    BY <1>6 DEF InLoop, LoopDepths
  <2> QED BY <1>6, <2>1, Branching, ScopedLeaves
<1>7. ASSUME May("return"), NEW t, NEW xs, Leaves(t, xs)
      PROVE  Scoped'
  BY <1>7, Branching, ScopedLeaves
<1>8. CASE EndsBody
  BY <1>8, ScopedEndsBody
<1> QED BY <1>1, <1>2, <1>3, <1>4, <1>5, <1>6, <1>7, <1>8 DEF Lowers

\* The scopes nest, and what is given up in a loop came from within it.
THEOREM DropsScoped == WellBehaved => (Spec => []Scoped)
<1> SUFFICES ASSUME WellBehaved PROVE Spec => []Scoped OBVIOUS
<1>1. Init => Shape /\ Scoped
  BY ShapeInit, ScopedInit
<1>2. Shape /\ Scoped /\ [Next]_vars => Shape' /\ Scoped'
  <2> SUFFICES ASSUME Shape, Scoped, [Next]_vars PROVE Shape' /\ Scoped' OBVIOUS
  <2>1. Disciplined(fragment)
    BY ShapeFacts DEF WellBehaved
  <2>2. CASE Lowers
    BY <2>1, <2>2, ShapeLowers, ScopedLowers
  <2>3. CASE InsertDrops
    BY <2>3, ShapeInsertDrops, ScopedSame DEF InsertDrops, lowering
  <2>4. CASE RunBlock
    BY <2>4, ShapeRunBlock, ScopedSame DEF RunBlock, lowering
  <2>5. CASE UNCHANGED vars
    BY <2>5, ShapeStutter, ScopedSame DEF vars, lowering
  <2> QED BY <2>2, <2>3, <2>4, <2>5, NextIs
<1>3. WellBehaved => (Spec => []Scoped)
  BY <1>1, <1>2, PTL DEF Spec
<1> QED BY <1>3

-----------------------------------------------------------------------------
(* What is read has been written, in the order of the blocks *)

LEMMA OrderSame ==
  ASSUME NEW bs, NEW new, DOMAIN bs \subseteq DOMAIN new,
         \A b \in DOMAIN new :
           new[b].ins = IF b \in DOMAIN bs THEN bs[b].ins ELSE <<>>
  PROVE  /\ \A n : InOrder(bs, n) => InOrder(new, n)
         /\ \A b : Defined(bs, b) \subseteq Defined(new, b)
<1>1. \A c \in DOMAIN bs : \A j \in DOMAIN bs[c].ins :
        /\ c \in DOMAIN new /\ j \in DOMAIN new[c].ins
        /\ \A x : Defines(bs, c, j, x) => Defines(new, c, j, x)
  BY DEF Defines
<1>2. \A b : Defined(bs, b) \subseteq Defined(new, b)
  BY <1>1 DEF Defined
<1>3. \A b, i : Earlier(bs, b, i) \subseteq Earlier(new, b, i)
  BY <1>1 DEF Earlier
<1>4. \A b \in DOMAIN new : \A i \in DOMAIN new[b].ins :
        b \in DOMAIN bs /\ i \in DOMAIN bs[b].ins /\ new[b].ins[i] = bs[b].ins[i]
  <2>1. DOMAIN <<>> = {} OBVIOUS
  <2> QED BY <2>1
<1>5. ASSUME NEW n, InOrder(bs, n)
      PROVE  InOrder(new, n)
  BY <1>3, <1>4, <1>5 DEF InOrder
<1> QED BY <1>2, <1>5

LEMMA OrderGrows ==
  ASSUME NEW bs \in Seq(Blocks), NEW b \in DOMAIN bs, NEW is \in Seq(Instructions),
         NEW new \in Seq(Blocks), Grows(new, bs, b, is),
         NEW m \in Nat, NEW n \in Nat, m <= n, InOrder(bs, m),
         \A j \in DOMAIN is :
           /\ {is[j].to, is[j].from} \subseteq 1 .. n
           /\ is[j].op = "assign" => is[j].from \in Defined(bs, b)
  PROVE  /\ InOrder(new, n)
         /\ \A c : Defined(bs, c) \subseteq Defined(new, c)
         /\ \A j \in DOMAIN is : is[j].op \in Defining => is[j].to \in Defined(new, b)
<1> DEFINE L == Len(bs[b].ins)
           M == Len(is)
<1>0. /\ DOMAIN bs[b].ins = 1 .. L /\ L \in Nat /\ DOMAIN is = 1 .. M /\ M \in Nat
      /\ DOMAIN bs = 1 .. Len(bs) /\ Len(bs) \in Nat /\ b \in Nat
  BY BlockParts
<1>1. /\ DOMAIN new = DOMAIN bs /\ \A c \in DOMAIN bs \ {b} : new[c] = bs[c]
      /\ Len(new[b].ins) = L + M
      /\ \A i \in DOMAIN bs[b].ins : new[b].ins[i] = bs[b].ins[i]
      /\ \A j \in DOMAIN is : new[b].ins[L + j] = is[j]
  BY DEF Grows
<1>2. DOMAIN new[b].ins = 1 .. L + M
  <2>1. b \in DOMAIN new
    BY <1>1
  <2> QED BY <1>1, <2>1, BlockParts
<1> HIDE DEF L, M
<1>3. ASSUME NEW c \in DOMAIN bs, NEW j \in DOMAIN bs[c].ins
      PROVE  c \in DOMAIN new /\ j \in DOMAIN new[c].ins /\ new[c].ins[j] = bs[c].ins[j]
  <2>1. CASE c = b
    <3>1. j \in 1 .. L /\ j \in 1 .. L + M /\ j \in DOMAIN bs[b].ins
      BY <1>0, <2>1
    <3>2. new[b].ins[j] = bs[b].ins[j]
      BY <1>1, <3>1
    <3> QED BY <1>1, <1>2, <2>1, <3>1, <3>2
  <2>2. CASE c # b
    <3>1. new[c] = bs[c]
      BY <1>1, <2>2
    <3> QED BY <1>1, <3>1
  <2> QED BY <2>1, <2>2
<1>4. \A c : Defined(bs, c) \subseteq Defined(new, c)
  BY <1>3 DEF Defined, Defines
<1>5. \A c, i : Earlier(bs, c, i) \subseteq Earlier(new, c, i)
  BY <1>3 DEF Earlier, Defines
<1>6. ASSUME NEW c \in DOMAIN new, NEW i \in DOMAIN new[c].ins
      PROVE  /\ {new[c].ins[i].to, new[c].ins[i].from} \subseteq 1 .. n
             /\ new[c].ins[i].op = "assign" => new[c].ins[i].from \in Earlier(new, c, i)
  <2>1. CASE i \in DOMAIN bs[c].ins
    <3>1. c \in DOMAIN bs /\ new[c].ins[i] = bs[c].ins[i]
      BY <1>1, <1>3, <2>1
    <3>2. 1 .. m \subseteq 1 .. n OBVIOUS
    <3> QED BY <1>5, <2>1, <3>1, <3>2 DEF InOrder
  <2>2. CASE i \notin DOMAIN bs[c].ins
    <3>1. c = b
      BY <1>1, <2>2
    <3>2. i \in 1 .. L + M /\ i \notin 1 .. L
      BY <1>0, <1>2, <2>2, <3>1
    <3>3. i - L \in 1 .. M /\ L + (i - L) = i
      BY <1>0, <3>2
    <3>4. new[b].ins[i] = is[i - L] /\ i - L \in DOMAIN is
      BY <1>0, <1>1, <3>3
    <3>5. \A j \in DOMAIN bs[b].ins : j < i
      BY <1>0, <3>2
    <3>6. Defined(bs, b) \subseteq Earlier(new, b, i)
      <4> SUFFICES ASSUME NEW x \in Defined(bs, b) PROVE x \in Earlier(new, b, i)
        OBVIOUS
      <4>1. PICK d \in DOMAIN bs : \E j \in DOMAIN bs[d].ins : d <= b /\ Defines(bs, d, j, x)
        BY DEF Defined
      <4>2. PICK j \in DOMAIN bs[d].ins : d <= b /\ Defines(bs, d, j, x)
        BY <4>1
      <4>3. d < b \/ (d = b /\ j < i)
        BY <1>0, <3>5, <4>2
      <4>4. d \in DOMAIN new /\ j \in DOMAIN new[d].ins /\ Defines(new, d, j, x)
        BY <1>3, <4>2 DEF Defines
      <4>5. x \in Locals
        BY DEF Defined
      <4> QED BY <4>3, <4>4, <4>5 DEF Earlier
    <3> QED BY <3>1, <3>4, <3>6
  <2> QED BY <2>1, <2>2
<1>7. ASSUME NEW j \in DOMAIN is, is[j].op \in Defining
      PROVE  is[j].to \in Defined(new, b)
  <2>1. L + j \in DOMAIN new[b].ins /\ new[b].ins[L + j] = is[j] /\ b \in DOMAIN new
    BY <1>0, <1>1, <1>2
  <2>2. is[j] \in Instructions
    BY ElementOfSeq
  <2>3. is[j].to \in Locals
    BY <2>2 DEF Instructions
  <2>4. b <= b
    BY <1>0
  <2> QED BY <1>7, <2>1, <2>3, <2>4 DEF Defined, Defines
<1> QED BY <1>4, <1>6, <1>7 DEF InOrder

LEMMA DefinedLater ==
  ASSUME NEW bs \in Seq(Blocks), NEW b \in Nat, NEW c \in Nat, b <= c
  PROVE  Defined(bs, b) \subseteq Defined(bs, c)
<1>1. \A d \in DOMAIN bs : d \in Nat OBVIOUS
<1>2. \A d \in DOMAIN bs : d <= b => d <= c
  BY <1>1
<1> QED BY <1>2 DEF Defined

LEMMA OrderedInit ==
  ASSUME Init
  PROVE  Ordered
<1>1. blocks = <<NewBlock>> /\ frames = <<>> /\ visible = {}
  BY DEF Init
<1>2. DOMAIN blocks = {1} /\ blocks[1].ins = <<>> /\ DOMAIN frames = {}
  BY <1>1, NewBlockIs
<1> QED BY <1>1, <1>2 DEF Ordered, InOrder

LEMMA OrderedEmits ==
  ASSUME Shape, Ordered, NEW is, Emits(is), declared' \in {declared, declared + 1},
         \A j \in DOMAIN is :
           /\ {is[j].to, is[j].from} \subseteq 1 .. declared'
           /\ is[j].op = "assign" => is[j].from \in visible,
         \A x \in visible' \ visible :
           \E j \in DOMAIN is : is[j].op \in Defining /\ is[j].to = x
  PROVE  Ordered'
<1>1. PICK new : new = blocks' OBVIOUS
<1>2. PICK m : m = declared OBVIOUS
<1>3. PICK n : n = declared' OBVIOUS
<1>4. /\ new \in Seq(Blocks) /\ Grows(new, blocks, cur, is) /\ is \in Seq(Instructions)
      /\ m \in Nat /\ n \in Nat /\ m <= n /\ blocks \in Seq(Blocks) /\ cur \in DOMAIN blocks
      /\ InOrder(blocks, m) /\ visible \subseteq Defined(blocks, cur) /\ cur' = cur
      /\ phase = "lower"
  BY <1>1, <1>2, <1>3, ShapeFacts DEF Emits, Ordered
<1>5. \A j \in DOMAIN is :
           /\ {is[j].to, is[j].from} \subseteq 1 .. n
           /\ is[j].op = "assign" => is[j].from \in Defined(blocks, cur)
  BY <1>3, <1>4
<1>6. /\ InOrder(new, n)
      /\ \A c : Defined(blocks, c) \subseteq Defined(new, c)
      /\ \A j \in DOMAIN is : is[j].op \in Defining => is[j].to \in Defined(new, cur)
  BY ONLY <1>4, <1>5, OrderGrows
<1>7. visible' \subseteq Defined(new, cur)
  BY <1>4, <1>6
<1>8. PICK fs : fs = frames' OBVIOUS
<1>9. \A i \in DOMAIN fs : \A p \in Pending(fs[i]) : fs[i].scope \subseteq Defined(new, p)
  <2>1. Relisted(fs, frames)
    BY <1>8 DEF Emits
  <2>2. /\ DOMAIN fs = DOMAIN frames
        /\ \A i \in DOMAIN frames : fs[i].scope = frames[i].scope
                                    /\ Pending(fs[i]) = Pending(frames[i])
    BY <2>1, RelistedPending DEF Relisted
  <2> QED BY <1>4, <1>6, <2>2 DEF Ordered
<1> QED BY <1>1, <1>3, <1>4, <1>6, <1>7, <1>8, <1>9 DEF Ordered

\* The instructions of the five statements.
LEMMA OnlyOne ==
  ASSUME NEW i \in Instructions
  PROVE  /\ \A j \in DOMAIN <<i>> : <<i>>[j] = i
         /\ 1 \in DOMAIN <<i>> /\ <<i>>[1] = i
<1>1. DOMAIN <<i>> = 1 .. 1 /\ <<i>>[1] = i
  BY Short
<1>2. \A j \in 1 .. 1 : j = 1 OBVIOUS
<1> QED BY <1>1, <1>2

LEMMA AfterPrior ==
  ASSUME NEW x \in Locals, NEW i \in Instructions, NEW is, is = FreePrior(x) \o <<i>>
  PROVE  \A j \in DOMAIN is : is[j] = i \/ (is[j] = Dealloc(x) /\ x \in inited)
<1>1. PICK d : d = Dealloc(x) OBVIOUS
<1>2. is = IF x \in inited THEN <<d, i>> ELSE <<i>>
  BY <1>1, PriorIs
<1>3. d \in Instructions
  BY <1>1 DEF Dealloc, Instructions, Ops
<1>4. \A j \in 1 .. 1 : j = 1 OBVIOUS
<1>5. \A j \in 1 .. 2 : j = 1 \/ j = 2 OBVIOUS
<1> QED BY <1>1, <1>2, <1>3, <1>4, <1>5, Short

LEMMA OrderedStatement ==
  ASSUME Shape, Ordered,
         \/ Lets \/ \E y \in Movable : LetsFrom(y)
         \/ \E x \in Settable : Sets(x) \/ \E y \in Movable : SetsFrom(x, y)
         \/ \E how \in GivingOps : \E x \in Movable : Gives(x, how)
  PROVE  Ordered'
<1>0. /\ Movable \subseteq visible /\ Settable \subseteq visible
      /\ visible \subseteq 1 .. declared /\ visible \subseteq Locals
      /\ declared \in Nat
  BY ReadFacts, ShapeFacts
<1>1. CASE Lets
  <2>1. Emits(<<Alloc(declared + 1)>>) /\ Declares
    BY <1>1 DEF Lets
  <2>2. PICK i : i = Alloc(declared + 1) OBVIOUS
  <2>3. PICK x : x = declared + 1 OBVIOUS
  <2>4. /\ i.op = "alloc" /\ i.to = x /\ i.from = x /\ i \in Instructions
        /\ x \in 1 .. declared' /\ declared' = declared + 1 /\ visible' = visible \cup {x}
    BY <1>0, <2>1, <2>2, <2>3 DEF Declares, Alloc, Instructions, Ops
  <2>5. Emits(<<i>>)
    BY <2>1, <2>2
  <2> QED BY <2>4, <2>5, OnlyOne, OrderedEmits DEF Defining
<1>2. ASSUME NEW y \in Movable, LetsFrom(y)
      PROVE  Ordered'
  <2>1. Emits(<<Move(declared + 1, y)>>) /\ Declares
    BY <1>2 DEF LetsFrom
  <2>2. PICK i : i = Move(declared + 1, y) OBVIOUS
  <2>3. PICK x : x = declared + 1 OBVIOUS
  <2>4. /\ i.op = "move" /\ i.to = x /\ i.from = y /\ i \in Instructions
        /\ x \in 1 .. declared' /\ declared' = declared + 1 /\ visible' = visible \cup {x}
        /\ y \in 1 .. declared'
    BY <1>0, <2>1, <2>2, <2>3 DEF Declares, Move, Instructions, Ops
  <2>5. Emits(<<i>>)
    BY <2>1, <2>2
  <2> QED BY <2>4, <2>5, OnlyOne, OrderedEmits DEF Defining
<1>3. ASSUME NEW x \in Settable, Sets(x)
      PROVE  Ordered'
  <2>1. PICK i : i = Alloc(x) OBVIOUS
  <2>2. PICK is : is = FreePrior(x) \o <<i>> OBVIOUS
  <2>3. Emits(is) /\ declared' = declared /\ visible' = visible
    BY <1>3, <2>1, <2>2 DEF Sets, Declared
  <2>4. i.op = "alloc" /\ i.to = x /\ i.from = x /\ i \in Instructions /\ x \in 1 .. declared
    BY <1>0, <2>1 DEF Alloc, Instructions, Ops
  <2>5. PICK d : d = Dealloc(x) OBVIOUS
  <2>6. d.op = "free" /\ d.to = x /\ d.from = x
    BY <2>5 DEF Dealloc
  <2>7. \A j \in DOMAIN is : is[j] = i \/ is[j] = d
    BY <1>0, <2>2, <2>4, <2>5, AfterPrior
  <2>8. \A j \in DOMAIN is :
           /\ {is[j].to, is[j].from} \subseteq 1 .. declared'
           /\ is[j].op = "assign" => is[j].from \in visible
    BY <2>3, <2>4, <2>6, <2>7
  <2> QED BY <2>3, <2>8, OrderedEmits
<1>4. ASSUME NEW x \in Settable, NEW y \in Movable, SetsFrom(x, y)
      PROVE  Ordered'
  <2>1. PICK i : i = Assign(x, y) OBVIOUS
  <2>2. PICK is : is = FreePrior(x) \o <<i>> OBVIOUS
  <2>3. Emits(is) /\ declared' = declared /\ visible' = visible
    BY <1>4, <2>1, <2>2 DEF SetsFrom, Declared
  <2>4. /\ i.op = "assign" /\ i.to = x /\ i.from = y /\ i \in Instructions
        /\ x \in 1 .. declared /\ y \in 1 .. declared /\ y \in visible
    BY <1>0, <2>1 DEF Assign, Instructions, Ops
  <2>5. PICK d : d = Dealloc(x) OBVIOUS
  <2>6. d.op = "free" /\ d.to = x /\ d.from = x
    BY <2>5 DEF Dealloc
  <2>7. \A j \in DOMAIN is : is[j] = i \/ is[j] = d
    BY <1>0, <2>2, <2>4, <2>5, AfterPrior
  <2>8. \A j \in DOMAIN is :
           /\ {is[j].to, is[j].from} \subseteq 1 .. declared'
           /\ is[j].op = "assign" => is[j].from \in visible
    BY <2>3, <2>4, <2>6, <2>7
  <2> QED BY <2>3, <2>8, OrderedEmits
<1>5. ASSUME NEW how \in GivingOps, NEW x \in Movable, Gives(x, how)
      PROVE  Ordered'
  <2>1. PICK i : i = Give(x, how) OBVIOUS
  <2>2. Emits(<<i>>) /\ declared' = declared /\ visible' = visible
    BY <1>5, <2>1 DEF Gives, Declared
  <2>3. /\ i.op # "assign" /\ i.to = x /\ i.from = x /\ i \in Instructions
        /\ x \in 1 .. declared
    BY <1>0, <2>1 DEF Give, Instructions, Ops, GivingOps
  <2>4. \A j \in DOMAIN <<i>> :
           /\ {<<i>>[j].to, <<i>>[j].from} \subseteq 1 .. declared'
           /\ <<i>>[j].op = "assign" => <<i>>[j].from \in visible
    BY <2>2, <2>3, OnlyOne
  <2> QED BY <2>2, <2>4, OrderedEmits
<1> QED BY <1>1, <1>2, <1>3, <1>4, <1>5

LEMMA OrderedJumped ==
  ASSUME Shape, Ordered, NEW t, NEW xs, NEW more, Jumped(t, xs, more),
         \A j \in DOMAIN more : more[j].ins = <<>>
  PROVE  /\ InOrder(blocks', declared')
         /\ \A c : Defined(blocks, c) \subseteq Defined(blocks', c)
         /\ visible \subseteq Defined(blocks, cur)
         /\ \A i \in DOMAIN frames : \A p \in Pending(frames[i]) :
              frames[i].scope \subseteq Defined(blocks, p)
<1>1. PICK new : new = blocks' OBVIOUS
<1>2. PICK n : n = Len(blocks) OBVIOUS
<1>3. /\ DOMAIN blocks = 1 .. n /\ DOMAIN new = 1 .. n + Len(more) /\ n \in Nat
      /\ Len(more) \in Nat /\ DOMAIN more = 1 .. Len(more)
      /\ \A b \in 1 .. n : new[b].ins = blocks[b].ins
      /\ \A b \in 1 .. n + Len(more) : b \notin 1 .. n =>
           b - n \in 1 .. Len(more) /\ new[b] = more[b - n]
  BY <1>1, <1>2, JumpedBlocks
<1>4. phase = "lower"
  BY DEF Jumped
<1>5. DOMAIN blocks \subseteq DOMAIN new
  BY <1>3
<1>6. \A b \in DOMAIN new :
        new[b].ins = IF b \in DOMAIN blocks THEN blocks[b].ins ELSE <<>>
  BY <1>3
<1>7. /\ \A k : InOrder(blocks, k) => InOrder(new, k)
      /\ \A b : Defined(blocks, b) \subseteq Defined(new, b)
  BY <1>5, <1>6, OrderSame
<1>8. declared' = declared
  BY DEF Jumped
<1> QED BY <1>4, <1>1, <1>3, <1>7, <1>8 DEF Ordered

LEMMA NothingOrNew ==
  ASSUME NEW more, more = <<>> \/ more = <<NewBlock>>
  PROVE  \A j \in DOMAIN more : more[j].ins = <<>>
<1>1. CASE more = <<>>
  BY <1>1
<1>2. CASE more = <<NewBlock>>
  BY <1>2, NewBlockIs
<1> QED BY <1>1, <1>2

LEMMA OrderedOpening ==
  ASSUME Shape, Ordered, NEW t, NEW more, NEW f, Opening(t, more, f),
         NEW n, n = Len(blocks), Opened(n, t, more, f), f.scope = visible
  PROVE  Ordered'
<1>1. /\ Jumped(t, {}, more) /\ f \in Frames /\ frames' = Append(frames, f)
      /\ visible' = visible
  BY DEF Opening
<1>2. /\ \A j \in DOMAIN more : more[j].ins = <<>>
      /\ cur' \in n + 1 .. n + Len(more) /\ Pending(f) \subseteq n + 1 .. n + Len(more)
  BY DEF Opened
<1>3. /\ InOrder(blocks', declared')
      /\ \A c : Defined(blocks, c) \subseteq Defined(blocks', c)
      /\ visible \subseteq Defined(blocks, cur)
      /\ \A i \in DOMAIN frames : \A p \in Pending(frames[i]) :
           frames[i].scope \subseteq Defined(blocks, p)
  BY <1>1, <1>2, OrderedJumped
<1>4. ASSUME NEW p \in n + 1 .. n + Len(more)
      PROVE  visible \subseteq Defined(blocks', p)
  <2>1. PICK c : c = cur OBVIOUS
  <2>2. c \in 1 .. n /\ n \in Nat /\ Len(more) \in Nat
    BY <1>1, <2>1, JumpedBlocks
  <2>3. c \in Nat /\ p \in Nat /\ c <= p
    BY <2>2
  <2>4. Defined(blocks, c) \subseteq Defined(blocks, p)
    BY <2>3, ShapeFacts, DefinedLater
  <2> QED BY <1>3, <2>1, <2>4
<1>5. PICK fs : fs = frames OBVIOUS
<1>6. PICK new : new = frames' OBVIOUS
<1>7. /\ \A i \in DOMAIN fs : new[i] = fs[i]
      /\ \A i \in DOMAIN new : i \in DOMAIN fs \/ new[i] = f
  <2>1. fs \in Seq(Frames) /\ new = Append(fs, f)
    BY <1>1, <1>5, <1>6, ShapeFacts
  <2> QED BY <1>1, <2>1, AppendedIsOne
<1>8. \A i \in DOMAIN new : \A p \in Pending(new[i]) :
        new[i].scope \subseteq Defined(blocks', p)
  BY <1>2, <1>3, <1>4, <1>5, <1>7
<1> QED BY <1>1, <1>2, <1>3, <1>4, <1>6, <1>8 DEF Ordered

LEMMA OrderedElse ==
  ASSUME Shape, Ordered, Elses
  PROVE  Ordered'
<1>1. PICK top : top = Len(frames) OBVIOUS
<1>2. /\ Top.kind = "then" /\ DOMAIN frames' = DOMAIN frames /\ frames # <<>>
      /\ \A i \in DOMAIN frames \ {top} : frames'[i] = frames[i]
      /\ frames'[top].kind = "else" /\ frames'[top].exit = Top.exit
      /\ frames'[top].scope = Top.scope
      /\ visible' = Top.scope /\ cur' = Top.target
      /\ Jumped(Goto(Top.exit), {}, <<>>)
  BY <1>1 DEF Elses
<1>3. top \in DOMAIN frames /\ Top = frames[top]
  BY <1>1, <1>2, TopIs
<1>4. /\ InOrder(blocks', declared')
      /\ \A c : Defined(blocks, c) \subseteq Defined(blocks', c)
      /\ \A i \in DOMAIN frames : \A p \in Pending(frames[i]) :
           frames[i].scope \subseteq Defined(blocks, p)
  BY <1>2, OrderedJumped, NothingOrNew
<1>5. Pending(frames[top]) = {Top.target, Top.exit} /\ Pending(frames'[top]) = {Top.exit}
  BY <1>2, <1>3 DEF Pending
<1>6. visible' \subseteq Defined(blocks', cur')
  BY <1>2, <1>3, <1>4, <1>5
<1>7. \A i \in DOMAIN frames' : \A p \in Pending(frames'[i]) :
        frames'[i].scope \subseteq Defined(blocks', p)
  <2> SUFFICES ASSUME NEW i \in DOMAIN frames', NEW p \in Pending(frames'[i])
               PROVE  frames'[i].scope \subseteq Defined(blocks', p)
    OBVIOUS
  <2>1. CASE i = top
    BY <1>2, <1>3, <1>4, <1>5, <2>1
  <2>2. CASE i # top
    BY <1>2, <1>4, <2>2
  <2> QED BY <2>1, <2>2
<1> QED BY <1>4, <1>6, <1>7 DEF Ordered

LEMMA OrderedPops ==
  ASSUME Shape, Ordered, Pops, phase = "lower", InOrder(blocks', declared'),
         \A c : Defined(blocks, c) \subseteq Defined(blocks', c)
  PROVE  Ordered'
<1>1. PICK top : top = Len(frames) OBVIOUS
<1>2. /\ top \in DOMAIN frames /\ Top = frames[top]
      /\ DOMAIN frames' = DOMAIN frames \ {top}
      /\ \A i \in DOMAIN frames' : frames'[i] = frames[i]
      /\ visible' = Top.scope /\ cur' = Top.exit
  BY <1>1, PopsFrames
<1>3. Top.exit \in Pending(frames[top])
  BY <1>2 DEF Pending
<1>4. visible' \subseteq Defined(blocks', cur')
  BY <1>2, <1>3 DEF Ordered
<1>5. \A i \in DOMAIN frames' : \A p \in Pending(frames'[i]) :
        frames'[i].scope \subseteq Defined(blocks', p)
  BY <1>2 DEF Ordered
<1> QED BY <1>4, <1>5 DEF Ordered

LEMMA OrderedEndsLoop ==
  ASSUME Shape, Ordered, EndsLoop
  PROVE  Ordered'
<1>1. PICK new : new = blocks' OBVIOUS
<1>2. DOMAIN new = DOMAIN blocks /\ \A b \in DOMAIN blocks : new[b].ins = blocks[b].ins
  BY <1>1 DEF EndsLoop
<1>3. /\ \A k : InOrder(blocks, k) => InOrder(new, k)
      /\ \A b : Defined(blocks, b) \subseteq Defined(new, b)
  BY <1>2, OrderSame
<1>4. Pops /\ phase = "lower" /\ declared' = declared
  BY DEF EndsLoop
<1>5. InOrder(blocks', declared')
  BY <1>1, <1>3, <1>4 DEF Ordered
<1> QED BY <1>1, <1>3, <1>4, <1>5, OrderedPops

LEMMA OrderedLeaves ==
  ASSUME Shape, Ordered, NEW t, NEW xs, Leaves(t, xs)
  PROVE  Ordered'
<1>1. /\ Jumped(t, xs, <<NewBlock>>) /\ cur' = Len(blocks) + 1
      /\ UNCHANGED <<phase, frames, visible>>
  BY DEF Leaves
<1>2. /\ InOrder(blocks', declared')
      /\ \A c : Defined(blocks, c) \subseteq Defined(blocks', c)
      /\ visible \subseteq Defined(blocks, cur)
      /\ \A i \in DOMAIN frames : \A p \in Pending(frames[i]) :
           frames[i].scope \subseteq Defined(blocks, p)
  BY <1>1, OrderedJumped, NothingOrNew
<1>3. Defined(blocks, cur) \subseteq Defined(blocks, Len(blocks) + 1)
  <2>1. PICK c : c = cur OBVIOUS
  <2>2. PICK n : n = Len(blocks) OBVIOUS
  <2>3. c \in Nat /\ n + 1 \in Nat /\ c <= n + 1
    BY <2>1, <2>2, ShapeFacts
  <2>4. Defined(blocks, c) \subseteq Defined(blocks, n + 1)
    BY <2>3, ShapeFacts, DefinedLater
  <2> QED BY <2>1, <2>2, <2>4
<1> QED BY <1>1, <1>2, <1>3 DEF Ordered

LEMMA OrderedEndsBody ==
  ASSUME Shape, Ordered, EndsBody
  PROVE  Ordered'
<1>1. PICK x : Jumped(Return(x), {}, <<>>)
  BY DEF EndsBody
<1>2. InOrder(blocks', declared')
  BY <1>1, OrderedJumped, NothingOrNew
<1> QED BY <1>2 DEF Ordered, EndsBody

LEMMA OrderedLowers ==
  ASSUME Shape, Ordered, Lowers
  PROVE  Ordered'
<1>1. CASE \/ Lets \/ \E y \in Movable : LetsFrom(y)
           \/ \E x \in Settable : Sets(x) \/ \E y \in Movable : SetsFrom(x, y)
           \/ \E how \in GivingOps : \E x \in Movable : Gives(x, how)
  BY <1>1, OrderedStatement
<1>2. ASSUME NEW n \in {Len(blocks)}, Ifs(n) \/ Whiles(n) \/ Loops(n)
      PROVE  Ordered'
  <2>1. PICK t, more, f :
           /\ Opening(t, more, f) /\ Opened(n, t, more, f)
           /\ \A j \in DOMAIN more : more[j].ins = <<>> /\ more[j].clears = {}
           /\ f.scope = visible /\ f.moved = moved /\ f.locals = {}
           /\ f.kind \in {"then", "loop"}
           /\ May("if") \/ May("while") \/ May("loop")
    BY <1>2, OpeningOf
  <2> QED BY <2>1, OrderedOpening
<1>3. CASE Elses
  BY <1>3, OrderedElse
<1>4. CASE EndsIf
  <2>1. Jumped(Goto(Top.exit), {}, <<>>) /\ Pops
    BY <1>4 DEF EndsIf
  <2>2. phase = "lower"
    BY <2>1 DEF Jumped
  <2> QED BY <2>1, <2>2, OrderedPops, OrderedJumped, NothingOrNew
<1>5. CASE EndsLoop
  BY <1>5, OrderedEndsLoop
<1>6. ASSUME NEW t, NEW xs, Leaves(t, xs)
      PROVE  Ordered'
  BY <1>6, OrderedLeaves
<1>7. CASE EndsBody
  BY <1>7, OrderedEndsBody
<1> QED BY <1>1, <1>2, <1>3, <1>4, <1>5, <1>6, <1>7 DEF Lowers

LEMMA OrderedSame ==
  ASSUME Ordered, UNCHANGED <<blocks, frames, declared, visible, cur>>,
         phase' = "lower" => phase = "lower"
  PROVE  Ordered'
<1>1. InOrder(blocks', declared')
  BY DEF Ordered
<1> QED BY <1>1 DEF Ordered

-----------------------------------------------------------------------------
(* What is known where the blocks start *)

LEMMA LeadsAlloc ==
  ASSUME NEW own, NEW clean, NEW x \in Locals
  PROVE  Leads(<<Alloc(x)>>, own, clean, own \cup {x}, clean \cup {x})
<1>1. PICK i : i = Alloc(x) OBVIOUS
<1>2. i \in Instructions
  BY <1>1 DEF Alloc, Instructions, Ops
<1>3. \A m : Good(m, own, clean) => Sound(Exec(m, i), own \cup {x}, clean \cup {x})
  BY <1>1, ExecAlloc
<1> QED BY <1>1, <1>2, <1>3, LeadsOne

LEMMA LeadsMove ==
  ASSUME NEW own, NEW clean, NEW d \in Locals, NEW s \in own \ {d}, s \in Locals
  PROVE  Leads(<<Move(d, s)>>, own, clean, (own \ {s}) \cup {d}, clean \cup {s, d})
<1>1. PICK i : i = Move(d, s) OBVIOUS
<1>2. i \in Instructions
  BY <1>1 DEF Move, Instructions, Ops
<1>3. \A m : Good(m, own, clean)
             => Sound(Exec(m, i), (own \ {s}) \cup {d}, clean \cup {s, d})
  BY <1>1, ExecMove
<1> QED BY <1>1, <1>2, <1>3, LeadsOne

LEMMA LeadsAssign ==
  ASSUME NEW own, NEW clean, NEW d \in Locals, NEW s \in own \ {d}, s \in Locals
  PROVE  Leads(<<Assign(d, s)>>, own, clean, (own \ {s}) \cup {d}, (clean \ {s}) \cup {d})
<1>1. PICK i : i = Assign(d, s) OBVIOUS
<1>2. i \in Instructions
  BY <1>1 DEF Assign, Instructions, Ops
<1>3. \A m : Good(m, own, clean)
             => Sound(Exec(m, i), (own \ {s}) \cup {d}, (clean \ {s}) \cup {d})
  BY <1>1, ExecAssign
<1> QED BY <1>1, <1>2, <1>3, LeadsOne

LEMMA LeadsGive ==
  ASSUME NEW own, NEW clean, NEW x \in own, x \in Locals, NEW how \in GivingOps
  PROVE  Leads(<<Give(x, how)>>, own, clean, own \ {x}, clean \ {x})
<1>1. PICK i : i = Give(x, how) OBVIOUS
<1>2. i \in Instructions
  BY <1>1 DEF Give, Instructions, Ops
<1>3. \A m : Good(m, own, clean) => Sound(Exec(m, i), own \ {x}, clean \ {x})
  BY <1>1, ExecGive
<1> QED BY <1>1, <1>2, <1>3, LeadsOne

LEMMA LeadsFree ==
  ASSUME NEW own, NEW clean, NEW x \in own \cup clean, x \in Locals
  PROVE  Leads(<<Dealloc(x)>>, own, clean, own \ {x}, clean \ {x})
<1>1. PICK i : i = Dealloc(x) OBVIOUS
<1>2. i \in Instructions /\ i.op = "free" /\ i.from = x
  BY <1>1 DEF Dealloc, Instructions, Ops
<1>3. ASSUME NEW m, Good(m, own, clean)
      PROVE  Sound(Exec(m, i), own \ {x}, clean \ {x})
  <2>1. Good(Freed(m, {x}), own \ {x}, clean \ {x})
    BY <1>3, FreedGood
  <2>2. Exec(m, i) = Freed(m, {x})
    BY <1>2, <1>3 DEF Exec, Good
  <2> QED BY <2>1, <2>2 DEF Sound
<1> QED BY <1>1, <1>2, <1>3, LeadsOne

LEMMA LeadsFrom ==
  ASSUME NEW is, NEW own, NEW clean, NEW own2, NEW clean2,
         NEW less \in SUBSET own, NEW fewer \in SUBSET (own \cup clean),
         Leads(is, less, fewer, own2, clean2)
  PROVE  Leads(is, own, clean, own2, clean2)
BY GoodLess DEF Leads, Sound

\* The free before a store takes what the local held, if it held anything.
LEMMA LeadsPrior ==
  ASSUME NEW x \in Locals, NEW i \in Instructions, NEW own, NEW clean,
         x \in inited => x \in own \cup clean, NEW own2, NEW clean2,
         Leads(<<i>>, own \ {x}, clean \ {x}, own2, clean2)
  PROVE  Leads(FreePrior(x) \o <<i>>, own, clean, own2, clean2)
<1>1. PICK d : d = Dealloc(x) OBVIOUS
<1>2. d \in Instructions
  BY <1>1 DEF Dealloc, Instructions, Ops
<1>3. FreePrior(x) \o <<i>> = IF x \in inited THEN <<d, i>> ELSE <<i>>
  BY <1>1, PriorIs
<1>4. CASE x \in inited
  <2>1. Leads(<<d>>, own, clean, own \ {x}, clean \ {x})
    BY <1>1, <1>4, LeadsFree
  <2>2. Leads(<<d, i>>, own, clean, own2, clean2)
    BY <1>2, <2>1, LeadsTwo
  <2> QED BY <1>3, <1>4, <2>2
<1>5. CASE x \notin inited
  <2>1. Leads(<<i>>, own, clean, own2, clean2)
    BY LeadsFrom
  <2> QED BY <1>3, <1>5, <2>1
<1> QED BY <1>4, <1>5

LEMMA TypedEmits ==
  ASSUME Shape, NEW know, TypedSoFar(know), NEW is, Emits(is), Lost \subseteq Lost',
         \A i \in DOMAIN frames : frames[i].kind = "loop" =>
           Lost' \cap frames[i].scope = Lost \cap frames[i].scope,
         \A F : Allowed(F)' =>
           /\ Allowed(F)
           /\ Leads(is, Readable, Clean \cup Base(F), Readable', Clean' \cup Base(F))
  PROVE  TypedSoFar(know)'
<1>1. PICK new : new = blocks' OBVIOUS
<1>2. /\ new \in Seq(Blocks) /\ Grows(new, blocks, cur, is) /\ is \in Seq(Instructions)
      /\ cur' = cur /\ fragment' = fragment /\ Relisted(frames', frames)
  BY <1>1 DEF Emits
<1>3. /\ DOMAIN new = DOMAIN blocks
      /\ \A b \in DOMAIN blocks : new[b].clears = blocks[b].clears
                                  /\ new[b].term = blocks[b].term
      /\ \A b \in DOMAIN blocks \ {cur} : new[b] = blocks[b]
  BY <1>2 DEF Grows
<1>4. Typed(new, know)
  BY <1>3 DEF TypedSoFar, Typed
<1>5. ASSUME NEW i \in DOMAIN frames'
      PROVE  FrameKnown(frames[i], know)'
  <2>1. PICK f : f = frames[i] OBVIOUS
  <2>2. PICK g : g = frames'[i] OBVIOUS
  <2>3. /\ g.kind = f.kind /\ g.target = f.target /\ g.exit = f.exit /\ g.entry = f.entry
        /\ g.scope = f.scope /\ g.moved = f.moved /\ i \in DOMAIN frames
    BY <1>2, <2>1, <2>2 DEF Relisted
  <2>4. FrameKnown(f, know)
    BY <2>1, <2>3 DEF TypedSoFar
  <2>5. f.scope \ Lost' \subseteq f.scope \ Lost OBVIOUS
  <2>6. f.kind = "loop" => f.scope \ Lost' = f.scope \ Lost
    BY <2>1, <2>3
  <2>7. FrameKnown(g, know)'
    BY <2>3, <2>4, <2>5, <2>6 DEF FrameKnown, Start, Less
  <2> QED BY <2>2, <2>7 DEF FrameKnown, Start
<1>6. ASSUME NEW F, Allowed(F)'
      PROVE  /\ Wired(new, know, Way(F))
             /\ Yields(new[cur], know[cur], Way(F), Readable', Clean' \cup Base(F))
  <2>1. PICK w : w = Way(F) OBVIOUS
  <2>2. Allowed(F) /\ Leads(is, Readable, Clean \cup Base(F), Readable', Clean' \cup Base(F))
    BY <1>6
  <2>3. Wired(blocks, know, w) /\ Yields(blocks[cur], know[cur], w, Readable, Clean \cup Base(F))
    BY <2>1, <2>2 DEF TypedSoFar
  <2>4. PICK own2 : own2 = Readable' OBVIOUS
  <2>5. PICK clean2 : clean2 = Clean' \cup Base(F) OBVIOUS
  <2>6. Leads(is, Readable, Clean \cup Base(F), own2, clean2)
    BY <2>2, <2>4, <2>5
  <2>7. Yields(new[cur], know[cur], w, own2, clean2)
    <3>1. blocks \in Seq(Blocks) /\ cur \in DOMAIN blocks
      BY ShapeFacts
    <3> QED BY ONLY <1>2, <2>3, <2>6, <3>1, YieldsGrow
  <2>8. \A b \in DOMAIN new : new[b].term \in Jumps => Flows(new[b], know[b], w, know)
    <3>1. blocks[cur].term \notin Jumps
      <4>1. blocks[cur].term = Unreachable
        BY Unfreed DEF Emits
      <4> QED BY <4>1, JumpsEnd
    <3> QED BY <1>3, <2>3, <3>1 DEF Wired
  <2> QED BY <2>1, <2>4, <2>5, <2>7, <2>8 DEF Wired
<1>7. \A F : Way(F)' = Way(F) /\ Base(F)' = Base(F)
  BY <1>2 DEF Way, Base
<1>8. \A F : Allowed(F)' =>
       /\ Wired(blocks', know, Way(F)')
       /\ Yields(blocks'[cur'], know[cur'], Way(F)', Readable', Clean' \cup Base(F)')
  BY <1>1, <1>2, <1>6, <1>7
<1> QED BY <1>1, <1>4, <1>5, <1>8 DEF TypedSoFar

LEMMA AllowedEarlier ==
  ASSUME Lost \subseteq Lost', Lost' \subseteq Lost \cup visible,
         visible' \subseteq visible \cup Undeclared, Undeclared' \subseteq Undeclared
  PROVE  \A F : Allowed(F)' => Allowed(F) /\ Lost' \subseteq F /\ F \subseteq Locals
BY DEF Allowed

LEMMA BaseIs ==
  \A F : Base(F) \subseteq Locals \ F
BY DEF Base

LEMMA UndeclaredIs ==
  ASSUME Shape
  PROVE  /\ declared' = declared + 1 =>
              declared' \in Undeclared \cup {declared + 1} /\ Undeclared' \subseteq Undeclared
         /\ declared' = declared => Undeclared' = Undeclared
         /\ declared + 1 \in Locals => declared + 1 \in Undeclared
         /\ visible \cap Undeclared = {}
BY ShapeFacts, Constants DEF Undeclared

LEMMA TypedLets ==
  ASSUME Shape, Scoped, Disciplined(fragment), NEW know, TypedSoFar(know), Lets
  PROVE  TypedSoFar(know)'
<1>1. /\ declared + 1 \in Locals /\ Emits(<<Alloc(declared + 1)>>) /\ Declares
      /\ moved' = moved
  BY DEF Lets, Declares
<1>2. PICK x \in Locals : x = declared + 1
  BY <1>1
<1>3. /\ declared' = x /\ visible' = visible \cup {x} /\ inited' = inited \cup {x}
      /\ fragment' = fragment /\ Emits(<<Alloc(x)>>)
  BY <1>1, <1>2 DEF Declares, Emits
<1>4. Lost' = Lost
  <2>1. Gone(<<Alloc(x)>>) = {}
    BY GoneIs DEF GivingOps
  <2> QED BY <1>3, <2>1, LostEmits
<1>5. x \notin moved /\ x \notin Lost
  BY <1>2, ShapeFacts DEF Scoped
<1>6. \A F : Allowed(F)' => Allowed(F)
  BY <1>1, <1>2, <1>3, <1>4, UndeclaredIs, AllowedEarlier
<1>7. ASSUME NEW F
      PROVE  Leads(<<Alloc(x)>>, Readable, Clean \cup Base(F), Readable', Clean' \cup Base(F))
  <2>1. Leads(<<Alloc(x)>>, Readable, Clean \cup Base(F),
              Readable \cup {x}, (Clean \cup Base(F)) \cup {x})
    BY LeadsAlloc
  <2>2. Readable' \subseteq Readable \cup {x}
    BY <1>1, <1>3 DEF Readable
  <2>3. Clean' \cup Base(F) \subseteq (Clean \cup Base(F)) \cup {x}
    BY <1>3, <1>4 DEF Clean
  <2> QED BY <2>1, <2>2, <2>3, LeadsLess
<1> QED BY <1>3, <1>4, <1>6, <1>7, TypedEmits

LEMMA TypedLetsFrom ==
  ASSUME Shape, Scoped, Disciplined(fragment), NEW know, TypedSoFar(know),
         NEW y \in Movable, LetsFrom(y)
  PROVE  TypedSoFar(know)'
<1>1. /\ declared + 1 \in Locals /\ Emits(<<Move(declared + 1, y)>>) /\ Declares
      /\ moved' = moved \cup {y}
  BY DEF LetsFrom, Declares
<1>2. PICK x \in Locals : x = declared + 1
  BY <1>1
<1>3. /\ declared' = x /\ visible' = visible \cup {x} /\ inited' = inited \cup {x}
      /\ fragment' = fragment /\ Emits(<<Move(x, y)>>)
  BY <1>1, <1>2 DEF Declares, Emits
<1>4. y \in Locals /\ y \in Readable /\ y \in 1 .. declared
  BY ReadFacts
<1>5. Lost' = Lost
  <2>1. Gone(<<Move(x, y)>>) = {}
    BY <1>4, GoneIs DEF GivingOps
  <2> QED BY <1>3, <2>1, LostEmits
<1>6. x \notin moved /\ x \notin Lost /\ x # y
  BY <1>4, <1>2, ShapeFacts DEF Scoped
<1>7. \A F : Allowed(F)' => Allowed(F)
  BY <1>1, <1>2, <1>3, <1>5, UndeclaredIs, AllowedEarlier
<1>8. ASSUME NEW F
      PROVE  Leads(<<Move(x, y)>>, Readable, Clean \cup Base(F), Readable', Clean' \cup Base(F))
  <2>1. Leads(<<Move(x, y)>>, Readable, Clean \cup Base(F),
              (Readable \ {y}) \cup {x}, (Clean \cup Base(F)) \cup {y, x})
    BY <1>4, <1>6, LeadsMove
  <2>2. Readable' \subseteq (Readable \ {y}) \cup {x}
    BY <1>1, <1>3 DEF Readable
  <2>3. Clean' \cup Base(F) \subseteq (Clean \cup Base(F)) \cup {y, x}
    BY <1>3, <1>5 DEF Clean
  <2> QED BY <2>1, <2>2, <2>3, LeadsLess
<1> QED BY <1>3, <1>5, <1>7, <1>8, TypedEmits

\* What may be set holds an object, or nothing, where the lowerer frees it.
LEMMA SettableClean ==
  ASSUME Shape, Scoped, Disciplined(fragment), NEW x \in Settable, x \in inited
  PROVE  x \in Readable \cup Clean
<1>1. CASE Branchless(fragment)
  BY <1>1 DEF Clean
<1>2. CASE ~Branchless(fragment)
  <2>1. CASE ~May("revive")
    BY <2>1 DEF Settable
  <2>2. CASE May("revive")
    <3>1. ~InLoop
      BY <2>2, MayFacts
    <3>2. "revive" \in fragment.outside
      BY <2>2, <3>1 DEF May
    <3>3. Lost = {} /\ x \in visible
      BY <1>2, <3>2, ReadFacts DEF Scoped
    <3> QED BY <1>2, <3>3 DEF Clean
  <2> QED BY <2>1, <2>2
<1> QED BY <1>1, <1>2

LEMMA TypedSets ==
  ASSUME Shape, Scoped, Disciplined(fragment), NEW know, TypedSoFar(know),
         NEW x \in Settable, Sets(x)
  PROVE  TypedSoFar(know)'
<1>0. x \in Locals
  BY ReadFacts
<1>1. PICK i : i = Alloc(x) OBVIOUS
<1>2. PICK is : is = FreePrior(x) \o <<i>> OBVIOUS
<1>3. /\ Emits(is) /\ declared' = declared /\ visible' = visible /\ fragment' = fragment
      /\ moved' = moved \ {x} /\ inited' = inited \cup {x}
  BY <1>1, <1>2 DEF Sets, Declared, Emits
<1>4. Lost' = Lost
  <2>1. Gone(is) = {}
    BY <1>0, <1>1, <1>2, GoneIs DEF GivingOps
  <2> QED BY <1>3, <2>1, LostEmits
<1>5. i \in Instructions
  BY <1>0, <1>1 DEF Alloc, Instructions, Ops
<1>6. \A F : Allowed(F)' => Allowed(F)
  BY <1>3, <1>4, UndeclaredIs, AllowedEarlier
<1>7. ASSUME NEW F
      PROVE  Leads(is, Readable, Clean \cup Base(F), Readable', Clean' \cup Base(F))
  <2>1. PICK own : own = Readable \ {x} OBVIOUS
  <2>2. PICK clean : clean = (Clean \cup Base(F)) \ {x} OBVIOUS
  <2>3. Leads(<<i>>, own, clean, own \cup {x}, clean \cup {x})
    BY <1>0, <1>1, LeadsAlloc
  <2>4. x \in inited => x \in Readable \cup (Clean \cup Base(F))
    BY SettableClean
  <2>5. Leads(is, Readable, Clean \cup Base(F), own \cup {x}, clean \cup {x})
    BY <1>0, <1>2, <1>5, <2>1, <2>2, <2>3, <2>4, LeadsPrior
  <2>6. Readable' \subseteq own \cup {x}
    BY <1>3, <2>1 DEF Readable
  <2>7. Clean' \cup Base(F) \subseteq clean \cup {x}
    BY <1>3, <1>4, <2>2 DEF Clean
  <2> QED BY <2>5, <2>6, <2>7, LeadsLess
<1> QED BY <1>3, <1>4, <1>6, <1>7, TypedEmits

LEMMA TypedSetsFrom ==
  ASSUME Shape, Scoped, Disciplined(fragment), NEW know, TypedSoFar(know),
         NEW x \in Settable, NEW y \in Movable, SetsFrom(x, y)
  PROVE  TypedSoFar(know)'
<1>0. x \in Locals /\ y \in Locals /\ y \in Readable /\ y \in visible /\ x # y
  BY ReadFacts DEF SetsFrom
<1>1. PICK i : i = Assign(x, y) OBVIOUS
<1>2. PICK is : is = FreePrior(x) \o <<i>> OBVIOUS
<1>3. /\ Emits(is) /\ declared' = declared /\ visible' = visible /\ fragment' = fragment
      /\ moved' = (moved \ {x}) \cup {y} /\ inited' = inited \cup {x} /\ May("set_from")
  BY <1>1, <1>2 DEF SetsFrom, Declared, Emits
<1>4. Lost' = Lost \cup {y}
  <2>1. Gone(is) = {y}
    BY <1>0, <1>1, <1>2, GoneIs DEF GivingOps
  <2> QED BY <1>3, <2>1, LostEmits
<1>5. i \in Instructions
  BY <1>0, <1>1 DEF Assign, Instructions, Ops
<1>6. \A F : Allowed(F)' => Allowed(F) /\ Lost' \subseteq F
  BY <1>0, <1>3, <1>4, UndeclaredIs, AllowedEarlier
<1>7. ~InLoop
  BY <1>3, MayFacts
<1>8. ~Branchless(fragment)
  BY <1>3, <1>7, MayFacts
<1>9. \A j \in DOMAIN frames : frames[j].kind # "loop"
  BY <1>7 DEF InLoop, LoopDepths
<1>10. ASSUME NEW F, Allowed(F)'
       PROVE  Leads(is, Readable, Clean \cup Base(F), Readable', Clean' \cup Base(F))
  <2>1. PICK own : own = Readable \ {x} OBVIOUS
  <2>2. PICK clean : clean = (Clean \cup Base(F)) \ {x} OBVIOUS
  <2>3. Leads(<<i>>, own, clean, (own \ {y}) \cup {x}, (clean \ {y}) \cup {x})
    BY <1>0, <1>1, <2>1, LeadsAssign
  <2>4. x \in inited => x \in Readable \cup (Clean \cup Base(F))
    BY SettableClean
  <2>5. Leads(is, Readable, Clean \cup Base(F), (own \ {y}) \cup {x}, (clean \ {y}) \cup {x})
    BY <1>0, <1>2, <1>5, <2>1, <2>2, <2>3, <2>4, LeadsPrior
  <2>6. Readable' \subseteq (own \ {y}) \cup {x}
    BY <1>0, <1>3, <2>1 DEF Readable
  <2>7. y \notin Base(F)
    BY <1>4, <1>6, <1>10, BaseIs
  <2>8. Clean' \cup Base(F) \subseteq (clean \ {y}) \cup {x}
    BY <1>3, <1>4, <1>8, <2>2, <2>7 DEF Clean
  <2> QED BY <2>5, <2>6, <2>8, LeadsLess
<1> QED BY <1>3, <1>4, <1>6, <1>9, <1>10, TypedEmits

LEMMA TypedGives ==
  ASSUME Shape, Scoped, Disciplined(fragment), NEW know, TypedSoFar(know),
         NEW how \in GivingOps, NEW x \in Movable, Gives(x, how)
  PROVE  TypedSoFar(know)'
<1>0. x \in Locals /\ x \in Readable /\ x \in visible
  BY ReadFacts
<1>1. PICK is : is = <<Give(x, how)>> OBVIOUS
<1>2. how # "store" /\ May(how)
  BY MayFacts DEF Gives
<1>3. /\ Emits(is) /\ declared' = declared /\ visible' = visible /\ fragment' = fragment
      /\ moved' = moved \cup {x}
      /\ inited' = IF how \in {"push", "spawn"} THEN inited \ {x} ELSE inited
  BY <1>1, <1>2 DEF Gives, Declared, Emits
<1>4. Lost' = Lost \cup {x}
  <2>1. Gone(is) = {x}
    BY <1>0, <1>1, GoneIs
  <2> QED BY <1>3, <2>1, LostEmits
<1>6. \A F : Allowed(F)' => Allowed(F) /\ Lost' \subseteq F
  BY <1>0, <1>3, <1>4, UndeclaredIs, AllowedEarlier
<1>7. \A i \in DOMAIN frames : frames[i].kind = "loop" =>
        Lost' \cap frames[i].scope = Lost \cap frames[i].scope
  BY <1>4, LoopReach
<1>8. Branchless(fragment) => inited' = inited \ {x}
  <2> SUFFICES ASSUME Branchless(fragment) PROVE how # "call"
    BY <1>2, <1>3 DEF GivingOps
  <2>1. frames = <<>>
    BY DEF Scoped
  <2>2. ~InLoop
    BY <2>1 DEF InLoop, LoopDepths
  <2> QED BY <1>2, <2>2, MayFacts
<1>9. ASSUME NEW F, Allowed(F)'
      PROVE  Leads(is, Readable, Clean \cup Base(F), Readable', Clean' \cup Base(F))
  <2>1. Leads(is, Readable, Clean \cup Base(F), Readable \ {x}, (Clean \cup Base(F)) \ {x})
    BY <1>0, <1>1, LeadsGive
  <2>2. Readable' \subseteq Readable \ {x}
    BY <1>3 DEF Readable
  <2>3. x \notin Base(F)
    BY <1>4, <1>6, <1>9, BaseIs
  <2>4. Clean' \subseteq Clean \ {x}
    BY <1>3, <1>4, <1>8 DEF Clean
  <2> QED BY <2>1, <2>2, <2>3, <2>4, LeadsLess
<1> QED BY <1>3, <1>4, <1>6, <1>7, <1>9, TypedEmits

LEMMA TypedStatement ==
  ASSUME Shape, Scoped, Disciplined(fragment), NEW know, TypedSoFar(know),
         \/ Lets \/ \E y \in Movable : LetsFrom(y)
         \/ \E x \in Settable : Sets(x) \/ \E y \in Movable : SetsFrom(x, y)
         \/ \E how \in GivingOps : \E x \in Movable : Gives(x, how)
  PROVE  TypedSoFar(know)'
BY TypedLets, TypedLetsFrom, TypedSets, TypedSetsFrom, TypedGives

LEMMA FlowsSame ==
  ASSUME NEW b, NEW c, c.ins = b.ins, c.frees = b.frees, c.term = b.term,
         NEW k, NEW w, NEW know, Flows(b, k, w, know)
  PROVE  Flows(c, k, w, know)
BY DEF Flows, Outcome

\* The current block ends; where nothing enters yet, less may be known.
LEMMA WiredJumped ==
  ASSUME Shape, NEW new, NEW know, NEW know2, NEW w, Wired(blocks, know, w),
         \A b \in DOMAIN blocks \ {cur} :
           new[b].ins = blocks[b].ins /\ new[b].term = blocks[b].term
           /\ new[b].frees = blocks[b].frees,
         \A b \in DOMAIN blocks :
           /\ Less(know2[b], know[b])
           /\ blocks[b].term \in Jumps => know2[b] = know[b],
         \A b \in DOMAIN new : b = cur \/ b \notin DOMAIN blocks =>
           (new[b].term \in Jumps => Flows(new[b], know2[b], w, know2))
  PROVE  Wired(new, know2, w)
<1> SUFFICES ASSUME NEW b \in DOMAIN new, new[b].term \in Jumps
             PROVE  Flows(new[b], know2[b], w, know2)
  BY DEF Wired
<1>1. CASE b = cur \/ b \notin DOMAIN blocks
  BY <1>1
<1>2. CASE b # cur /\ b \in DOMAIN blocks
  <2>1. /\ new[b].ins = blocks[b].ins /\ new[b].term = blocks[b].term
        /\ new[b].frees = blocks[b].frees
    BY <1>2
  <2>2. blocks[b].term \in Jumps /\ know2[b] = know[b]
    BY <1>2, <2>1
  <2>3. Flows(blocks[b], know[b], w, know)
    BY <1>2, <2>2 DEF Wired
  <2>4. ASSUME blocks[b].term.kind # "return",
               NEW t \in {blocks[b].term.then, blocks[b].term.else},
               NEW m, Sat(m, know[t], w)
        PROVE  Sat(m, know2[t], w)
    <3>1. t \in DOMAIN blocks
      BY <1>2, <2>2, <2>4 DEF Shape, Targets
    <3> QED BY <2>4, <3>1, SatLess DEF Less
  <2>5. Flows(blocks[b], know[b], w, know2)
    BY <2>3, <2>4, FlowsLess
  <2> QED BY <2>1, <2>2, <2>5, FlowsSame
<1> QED BY <1>1, <1>2

LEMMA JumpedIs ==
  ASSUME Shape, NEW t, NEW xs, NEW more, Jumped(t, xs, more), NEW n, n = Len(blocks),
         NEW new, new = blocks'
  PROVE  JumpLeaves(new, n, t, xs, more)
BY JumpedBlocks DEF JumpLeaves

LEMMA TypedJumped ==
  ASSUME Shape, NEW know, Typed(blocks, know), NEW t, NEW xs, NEW more, Jumped(t, xs, more),
         NEW know2 \in [DOMAIN blocks' -> Known],
         \A b \in DOMAIN blocks : Less(know2[b], know[b]),
         \A j \in DOMAIN more : more[j].clears = {}
  PROVE  Typed(blocks', know2)
<1>1. PICK n : n = Len(blocks) OBVIOUS
<1>2. PICK new : new = blocks' OBVIOUS
<1>3. /\ DOMAIN blocks = 1 .. n /\ n \in Nat /\ Len(more) \in Nat
      /\ DOMAIN new = 1 .. n + Len(more) /\ DOMAIN more = 1 .. Len(more)
      /\ \A b \in 1 .. n : new[b].clears = blocks[b].clears
      /\ \A b \in 1 .. n + Len(more) : b \notin 1 .. n =>
           b - n \in 1 .. Len(more) /\ new[b] = more[b - n]
  <2>1. JumpLeaves(new, n, t, xs, more)
    BY <1>1, <1>2, JumpedIs
  <2> QED BY <2>1 DEF JumpLeaves
<1>4. 1 \in DOMAIN blocks /\ DOMAIN blocks \subseteq DOMAIN new
  BY <1>3 DEF Typed
<1>5. know2[1].own = {} /\ know2[1].clean = {}
  BY <1>4 DEF Typed, Less
<1>6. \A b \in DOMAIN new : new[b].clears \cap know2[b].own = {}
  BY <1>3, SMTT(30) DEF Typed, Less
<1> QED BY <1>2, <1>4, <1>5, <1>6 DEF Typed

\* A jump from where the current block ends.
LEMMA GotoFlows ==
  ASSUME NEW b \in Blocks, NEW c \in Blocks, c.ins = b.ins, NEW k, NEW w, NEW know,
         NEW own, NEW clean, Yields(b, k, w, own, clean),
         c.frees \subseteq own \cup clean, c.term.kind # "return",
         \A k2 \in {know[c.term.then], know[c.term.else]} :
           k2.own \subseteq own \ c.frees /\ k2.clean \cup w.base \subseteq own \cup clean
  PROVE  Flows(c, k, w, know)
<1>1. \A m : Sound(m, own, clean) => Lands(Outcome(m, c), c.term, w, know)
  BY JumpLands
<1> QED BY <1>1, YieldsFlows

\* A block of no instructions, and its jump.
LEMMA HeaderFlows ==
  ASSUME NEW c \in Blocks, c.ins = <<>>, c.frees = {}, c.term.kind # "return",
         NEW k \in Known, NEW w, w.base \subseteq Locals, NEW know,
         know[c.term.then] = k, know[c.term.else] = k
  PROVE  Flows(c, k, w, know)
<1>1. PICK clean : clean = k.clean \cup w.base OBVIOUS
<1>2. Yields(c, k, w, k.own, clean)
  BY <1>1, YieldsNothing
<1>3. \A k2 \in {know[c.term.then], know[c.term.else]} :
           k2.own \subseteq k.own \ c.frees /\ k2.clean \cup w.base \subseteq k.own \cup clean
  BY <1>1
<1> QED BY <1>2, <1>3, GotoFlows

LEMMA WayIs ==
  ASSUME NEW F, NEW w, w = Way(F)
  PROVE  w.base = Base(F) /\ w.drop = Locals \ F /\ w.base \subseteq Locals
BY DEF Way, Base

\* What is known here, as a record.
LEMMA HereIs ==
  ASSUME Shape, Scoped, NEW here, here = [own |-> Readable, clean |-> Clean]
  PROVE  here \in Known /\ here.own = Readable /\ here.clean = Clean
<1>1. Clean \subseteq Locals /\ Readable \subseteq Locals
  BY ShapeFacts, ReadFacts DEF Clean
<1> QED BY <1>1 DEF Known

LEMMA NowhereIs ==
  /\ Nowhere \in Known /\ Nowhere.own = Locals \cup {0} /\ Nowhere.clean = Locals
  /\ \A k \in Known : Less(k, Nowhere)
BY DEF Nowhere, Known, Less

LEMMA LessSelf == \A k : Less(k, k)
BY DEF Less

\* What the constructs know where nothing changed.
LEMMA KnownSame ==
  ASSUME NEW f, NEW know, NEW know2, FrameKnown(f, know),
         know2[f.exit] = know[f.exit],
         f.kind # "else" => know2[f.target] = know[f.target],
         f.kind = "loop" => know2[f.entry] = know[f.entry]
  PROVE  FrameKnown(f, know2)
BY DEF FrameKnown

\* A pending block is of one construct only.
LEMMA KnownElsewhere ==
  ASSUME Shape, phase = "lower", NEW i \in DOMAIN frames, NEW j \in DOMAIN frames, i # j,
         NEW know, NEW know2, FrameKnown(frames[i], know),
         \A b \in DOMAIN blocks : b \notin Pending(frames[j]) => know2[b] = know[b]
  PROVE  FrameKnown(frames[i], know2)
<1>1. PICK f : f = frames[i] OBVIOUS
<1>2. PICK g : g = frames[j] OBVIOUS
<1>3. /\ Pending(f) \cap Pending(g) = {}
      /\ f.kind = "loop" => {f.target, f.entry} \cap Pending(g) = {}
  BY <1>1, <1>2 DEF Shape, Lowering
<1>4. {f.target, f.exit, f.entry} \subseteq DOMAIN blocks /\ f \in Frames
  BY <1>1, FrameTypes, ShapeFacts
<1>5. f.kind \in {"then", "else", "loop"}
  BY <1>4, FrameParts
<1>6. f.exit \in Pending(f) /\ (f.kind = "then" => f.target \in Pending(f))
  BY DEF Pending
<1>7. know2[f.exit] = know[f.exit]
  BY <1>2, <1>3, <1>4, <1>6
<1>8. f.kind # "else" => know2[f.target] = know[f.target]
  BY <1>2, <1>3, <1>4, <1>5, <1>6
<1>9. f.kind = "loop" => know2[f.entry] = know[f.entry]
  BY <1>2, <1>3, <1>4
<1> QED BY <1>1, <1>7, <1>8, <1>9, KnownSame

\* What was lost stays lost, and nothing else is here.
LEMMA KnownPrimed ==
  ASSUME NEW f, NEW know, FrameKnown(f, know), Lost' = Lost
  PROVE  FrameKnown(f, know)'
BY DEF FrameKnown, Start

LEMMA WayPrimed ==
  ASSUME fragment' = fragment
  PROVE  \A F : Way(F)' = Way(F) /\ Base(F)' = Base(F)
BY DEF Way, Base

\* From what is known of every way, the typing of the next state.
LEMMA TypedNext ==
  ASSUME NEW know2, fragment' = fragment, Typed(blocks', know2),
         \A i \in DOMAIN frames' : FrameKnown(frames[i], know2)',
         \A F : Allowed(F)' =>
           /\ Wired(blocks', know2, Way(F))
           /\ Yields(blocks'[cur'], know2[cur'], Way(F), Readable', Clean' \cup Base(F))
  PROVE  TypedSoFar(know2)'
<1>1. \A F : Allowed(F)' =>
           /\ Wired(blocks', know2, Way(F)')
           /\ Yields(blocks'[cur'], know2[cur'], Way(F)', Readable', Clean' \cup Base(F)')
  BY WayPrimed
<1> QED BY <1>1 DEF TypedSoFar

LEMMA TypedControl ==
  ASSUME Shape, NEW know, TypedSoFar(know), NEW t, NEW xs, NEW more, Jumped(t, xs, more),
         NEW know2, Retypes(know, know2, more), Rewires(know, know2, more)
  PROVE  TypedSoFar(know2)'
<1>0. /\ know2 \in [DOMAIN blocks' -> Known] /\ know2[cur] = know[cur]
      /\ \A b \in DOMAIN blocks :
           /\ Less(know2[b], know[b])
           /\ blocks[b].term \in Jumps => know2[b] = know[b]
      /\ \A j \in DOMAIN more : more[j].clears = {}
      /\ visible' \subseteq visible /\ Lost' = Lost
      /\ \A i \in DOMAIN frames' : FrameKnown(frames[i], know2)'
  BY DEF Retypes
<1>1. PICK n : n = Len(blocks) OBVIOUS
<1>2. PICK new : new = blocks' OBVIOUS
<1>3. fragment' = fragment /\ declared' = declared /\ Typed(blocks, know)
  BY DEF Jumped, TypedSoFar
<1>4. Typed(blocks', know2)
  BY <1>0, <1>3, TypedJumped
<1>5. \A F : Allowed(F)' => Allowed(F)
  BY <1>0, <1>3 DEF Allowed, Undeclared
<1>6. /\ DOMAIN blocks = 1 .. n /\ n \in Nat /\ Len(more) \in Nat
      /\ DOMAIN new = 1 .. n + Len(more) /\ DOMAIN more = 1 .. Len(more)
      /\ \A b \in 1 .. n : /\ new[b].ins = blocks[b].ins
                           /\ b # cur => /\ new[b].term = blocks[b].term
                                         /\ new[b].frees = blocks[b].frees
      /\ \A b \in 1 .. n + Len(more) : b \notin 1 .. n =>
           b - n \in 1 .. Len(more) /\ new[b] = more[b - n]
  <2>1. JumpLeaves(new, n, t, xs, more)
    BY <1>1, <1>2, JumpedIs
  <2> QED BY <2>1 DEF JumpLeaves
<1>7. ASSUME NEW F, Allowed(F)
      PROVE  Wired(blocks', know2, Way(F))
  <2>1. Wired(blocks, know, Way(F))
    BY <1>7 DEF TypedSoFar
  <2>2. ASSUME NEW b \in DOMAIN new, b = cur \/ b \notin DOMAIN blocks, new[b].term \in Jumps
        PROVE  Flows(new[b], know2[b], Way(F), know2)
    <3>1. CASE b = cur
      BY <1>0, <1>2, <1>7, <3>1 DEF Rewires
    <3>2. CASE b \notin DOMAIN blocks
      <4>1. PICK j : j = b - n OBVIOUS
      <4>2. j \in DOMAIN more /\ new[b] = more[j] /\ b \in Nat
        BY <1>6, <3>2, <4>1
      <4>3. n + j = b
        BY <1>6, <4>1, <4>2
      <4>4. Flows(more[j], know2[n + j], Way(F), know2)
        BY <1>1, <1>7, <2>2, <4>2 DEF Rewires
      <4> QED BY <4>2, <4>3, <4>4
    <3> QED BY <2>2, <3>1, <3>2
  <2>3. \A b \in DOMAIN blocks \ {cur} :
           new[b].ins = blocks[b].ins /\ new[b].term = blocks[b].term
           /\ new[b].frees = blocks[b].frees
    BY <1>6
  <2>4. Wired(new, know2, Way(F))
    BY <1>0, <2>1, <2>2, <2>3, WiredJumped
  <2> QED BY <1>2, <2>4
<1> QED
  <2>1. \A F : Allowed(F)' =>
           /\ Wired(blocks', know2, Way(F))
           /\ Yields(blocks'[cur'], know2[cur'], Way(F), Readable', Clean' \cup Base(F))
    BY <1>5, <1>7 DEF Rewires
  <2> QED BY <1>0, <1>3, <1>4, <2>1, TypedNext

LEMMA CurrentFlows ==
  ASSUME Shape, NEW know, TypedSoFar(know), NEW t, NEW xs, NEW more, Jumped(t, xs, more),
         NEW know2, NEW F, Allowed(F), Onward(t, xs, know2, F)
  PROVE  Flows(blocks'[cur], know[cur], Way(F), know2)
<1>1. PICK n : n = Len(blocks) OBVIOUS
<1>2. PICK new : new = blocks' OBVIOUS
<1>3. /\ cur \in DOMAIN new /\ new \in Seq(Blocks) /\ blocks \in Seq(Blocks)
      /\ cur \in DOMAIN blocks
      /\ new[cur].term = t /\ new[cur].frees = xs /\ new[cur].ins = blocks[cur].ins
  <2>1. JumpLeaves(new, n, t, xs, more)
    BY <1>1, <1>2, JumpedIs
  <2>2. /\ n \in Nat /\ cur \in 1 .. n /\ Len(more) \in Nat /\ DOMAIN blocks = 1 .. n
        /\ new \in Seq(Blocks) /\ DOMAIN new = 1 .. n + Len(more)
        /\ new[cur].term = t /\ new[cur].frees = xs
        /\ new[cur].ins = blocks[cur].ins
    BY <2>1 DEF JumpLeaves
  <2> QED BY <2>2, ShapeFacts
<1>4. PICK c : c = new[cur] OBVIOUS
<1>5. PICK b : b = blocks[cur] OBVIOUS
<1>6. b \in Blocks /\ c \in Blocks /\ c.ins = b.ins
  BY <1>3, <1>4, <1>5, BlockParts
<1>7. PICK w : w = Way(F) OBVIOUS
<1>8. w.base = Base(F)
  BY <1>7, WayIs
<1>9. PICK clean : clean = Clean \cup Base(F) OBVIOUS
<1>10. Yields(b, know[cur], w, Readable, clean)
  BY <1>5, <1>7, <1>9 DEF TypedSoFar
<1>11. c.frees \subseteq Readable \cup clean
  BY <1>3, <1>4, <1>9 DEF Onward
<1>12. \A k2 \in {know2[c.term.then], know2[c.term.else]} :
           k2.own \subseteq Readable \ c.frees /\ k2.clean \cup w.base \subseteq Readable \cup clean
  BY <1>3, <1>4, <1>8, <1>9 DEF Onward
<1>13. c.term.kind # "return"
  BY <1>3, <1>4 DEF Onward
<1>14. Flows(c, know[cur], w, know2)
  BY <1>6, <1>10, <1>11, <1>12, <1>13, GotoFlows
<1> QED BY <1>2, <1>4, <1>7, <1>14

\* Where a construct goes on: a block of no instructions yet.
LEMMA NextYields ==
  ASSUME NEW b, b.ins = <<>>, NEW k, NEW F, NEW own, NEW clean,
         own \subseteq k.own, clean \subseteq k.own \cup k.clean
  PROVE  Yields(b, k, Way(F), own, clean \cup Base(F))
<1>1. PICK a : a = [own |-> own, clean |-> clean] OBVIOUS
<1>2. a.own = own /\ a.clean = clean
  BY <1>1
<1>3. PICK w : w = Way(F) OBVIOUS
<1>4. w.base = Base(F)
  BY <1>3, WayIs
<1>5. Yields(b, k, w, a.own, a.clean \cup w.base)
  BY <1>2, YieldsNothing
<1> QED BY <1>2, <1>3, <1>4, <1>5

\* Where something branches, what is in scope and was never given up is clean.
LEMMA CleanIs ==
  ASSUME ~Branchless(fragment)
  PROVE  Clean = visible \ Lost
BY DEF Clean

\* A construct that stays as it is.
LEMMA FrameStays ==
  ASSUME NEW i, NEW know, FrameKnown(frames[i], know), Lost' = Lost,
         frames'[i] = frames[i]
  PROVE  FrameKnown(frames[i], know)'
<1>1. PICK f : f = frames[i] OBVIOUS
<1>2. FrameKnown(f, know)'
  BY <1>1, KnownPrimed
<1> QED BY <1>1, <1>2 DEF FrameKnown, Start

\* The innermost construct and its blocks.
LEMMA TopBlocks ==
  ASSUME Shape, phase = "lower", frames # <<>>
  PROVE  /\ Top \in Frames /\ Len(frames) \in DOMAIN frames /\ Top = frames[Len(frames)]
         /\ {Top.target, Top.exit, Top.entry} \subseteq DOMAIN blocks
         /\ cur \in DOMAIN blocks /\ cur \notin Pending(Top)
         /\ Top.exit \in Pending(Top) /\ Top.exit # cur
         /\ blocks[Top.exit].ins = <<>> /\ blocks[Top.exit].term = Unreachable
         /\ Top.kind = "then" =>
              /\ Top.target # Top.exit /\ Top.target \in Pending(Top)
              /\ blocks[Top.target].ins = <<>>
         /\ Unreachable \notin Jumps
         /\ Goto(Top.exit).kind # "return" /\ Goto(Top.target).kind # "return"
<1>1. PICK top : top = Len(frames) OBVIOUS
<1>2. /\ top \in DOMAIN frames /\ Top = frames[top] /\ Top \in Frames
      /\ {Top.target, Top.exit, Top.entry} \subseteq DOMAIN blocks
  BY <1>1, TopIs
<1>3. PICK f : f = frames[top] OBVIOUS
<1>4. f.exit \in Pending(f) /\ (f.kind = "then" => f.target \in Pending(f))
  BY DEF Pending
<1>5. /\ cur \notin Pending(f)
      /\ f.kind = "then" => f.target # f.exit
      /\ \A p \in Pending(f) : blocks[p].ins = <<>> /\ blocks[p].term = Unreachable
  BY <1>2, <1>3 DEF Shape, Lowering
<1>6. Unreachable \notin Jumps
  BY JumpsEnd
<1>7. \A b : Goto(b).kind # "return"
  BY DEF Goto
<1> QED BY <1>1, <1>2, <1>3, <1>4, <1>5, <1>6, <1>7, ShapeFacts

\* A jump to the exit of the innermost construct, with k known there.
LEMMA TypedToExit ==
  ASSUME Shape, Scoped, NEW know, TypedSoFar(know), frames # <<>>,
         Jumped(Goto(Top.exit), {}, <<>>), ~Branchless(fragment),
         visible' = Top.scope,
         NEW k \in Known, Less(k, know[Top.exit]), k.own \subseteq Readable,
         k.clean \subseteq Readable \cup Clean,
         NEW know2, know2 = [know EXCEPT ![Top.exit] = k],
         \A i \in DOMAIN frames' : FrameKnown(frames[i], know2)',
         cur' \in {Top.exit} \cup (IF Top.kind = "then" THEN {Top.target} ELSE {}),
         Readable' \subseteq know2[cur'].own,
         Top.scope \ Lost \subseteq know2[cur'].own \cup know2[cur'].clean
  PROVE  TypedSoFar(know2)'
<1>1. phase = "lower"
  BY DEF Jumped
<1>2. /\ Top \in Frames
      /\ {Top.target, Top.exit, Top.entry} \subseteq DOMAIN blocks
      /\ cur \in DOMAIN blocks /\ Top.exit # cur
      /\ blocks[Top.exit].ins = <<>> /\ blocks[Top.exit].term = Unreachable
      /\ Top.kind = "then" => blocks[Top.target].ins = <<>>
      /\ Unreachable \notin Jumps /\ Goto(Top.exit).kind # "return"
  BY <1>1, TopBlocks
<1>3. PICK e : e = Top.exit OBVIOUS
<1>4. PICK t : t = Goto(e) OBVIOUS
<1>5. t.then = e /\ t.else = e
  BY <1>4 DEF Goto
<1>6. know \in [DOMAIN blocks -> Known]
  BY DEF TypedSoFar, Typed
<1>7. know2 \in [DOMAIN blocks -> Known] /\ know2[e] = k
      /\ \A b \in DOMAIN blocks : b # e => know2[b] = know[b]
  BY <1>2, <1>3, <1>6
<1>8. DOMAIN blocks' = DOMAIN blocks /\ \A b \in DOMAIN blocks : blocks'[b].ins = blocks[b].ins
  BY JumpedOnly
<1>9. know2 \in [DOMAIN blocks' -> Known]
  BY <1>7, <1>8
<1>10. know2[cur] = know[cur]
  BY <1>2, <1>3, <1>7
<1>11. \A b \in DOMAIN blocks :
           /\ Less(know2[b], know[b])
           /\ blocks[b].term \in Jumps => know2[b] = know[b]
  BY <1>2, <1>3, <1>7, LessSelf
<1>12. visible' \subseteq visible
  BY <1>1, TopBlocks DEF Scoped
<1>13. Lost' = Lost /\ fragment' = fragment
  BY ScopedJumped
<1>14. PICK more : more = <<>> OBVIOUS
<1>15. PICK xs : xs = {} OBVIOUS
<1>16. Jumped(t, xs, more) /\ DOMAIN more = {} /\ xs = {}
  BY <1>3, <1>4, <1>14, <1>15
<1>17. ASSUME NEW F, Allowed(F)
       PROVE  /\ Flows(blocks'[cur], know[cur], Way(F), know2)
              /\ Yields(blocks'[cur'], know2[cur'], Way(F), Readable', Clean' \cup Base(F))
  <2>1. Onward(t, xs, know2, F)
    BY <1>2, <1>3, <1>4, <1>5, <1>7, <1>16 DEF Onward
  <2>4. Flows(blocks'[cur], know[cur], Way(F), know2)
    BY <1>17, <1>16, <2>1, CurrentFlows
  <2>5. PICK b : b = blocks'[cur'] OBVIOUS
  <2>6. b.ins = <<>>
    BY <1>2, <1>8, <2>5
  <2>7. PICK c : c = cur' OBVIOUS
  <2>8. PICK own : own = Readable' OBVIOUS
  <2>9. PICK clean : clean = Clean' OBVIOUS
  <2>10. clean = Top.scope \ Lost
    BY <1>13, <2>9 DEF Clean
  <2>11. Yields(b, know2[c], Way(F), own, clean \cup Base(F))
    BY <2>6, <2>7, <2>8, <2>10, NextYields
  <2> QED BY <2>4, <2>5, <2>7, <2>8, <2>9, <2>11
<1>18. Rewires(know, know2, more)
  BY <1>17, <1>16 DEF Rewires
<1>19. Retypes(know, know2, more)
  BY <1>9, <1>10, <1>11, <1>12, <1>13, <1>16 DEF Retypes
<1> QED BY <1>16, <1>18, <1>19, TypedControl

LEMMA TypedElse ==
  ASSUME Shape, Scoped, Disciplined(fragment), NEW know, TypedSoFar(know), Elses
  PROVE  \E k : TypedSoFar(k)'
<1>0. phase = "lower" /\ Jumped(Goto(Top.exit), {}, <<>>) /\ frames # <<>> /\ Top.kind = "then"
  BY DEF Elses, Jumped
<1>1. ~Branchless(fragment)
  BY <1>0, Branching
<1>2. PICK here : here = [own |-> Readable, clean |-> Clean] OBVIOUS
<1>3. here \in Known /\ here.own = Readable /\ here.clean = visible \ Lost
      /\ here.clean = Clean
  BY <1>1, <1>2, HereIs, CleanIs
<1>4. PICK know2 : know2 = [know EXCEPT ![Top.exit] = here] OBVIOUS
<1>5. PICK top : top = Len(frames) OBVIOUS
<1>6. PICK f : f = frames[top] OBVIOUS
<1>7. /\ Top = f /\ top \in DOMAIN frames /\ f \in Frames
      /\ {f.target, f.exit, f.entry} \subseteq DOMAIN blocks
      /\ f.exit \in Pending(f) /\ f.target # f.exit
  BY <1>0, <1>5, <1>6, TopBlocks
<1>8. /\ know \in [DOMAIN blocks -> Known] /\ FrameKnown(f, know)
      /\ \A i \in DOMAIN frames : FrameKnown(frames[i], know)
  BY <1>6, <1>7 DEF TypedSoFar, Typed
<1>9. know2[f.exit] = here /\ \A b \in DOMAIN blocks : b # f.exit => know2[b] = know[b]
  BY <1>4, <1>7, <1>8
<1>10. know[f.exit] = Nowhere /\ Less(Start(f), know[f.target])
  BY <1>0, <1>7, <1>8 DEF FrameKnown
<1>11. Less(here, know[Top.exit])
  BY <1>3, <1>7, <1>10, NowhereIs
<1>12. Lost' = Lost
  BY <1>0, ScopedJumped
<1>13. f.scope \subseteq visible
  BY <1>6, <1>7 DEF Scoped
<1>14. ASSUME NEW i \in DOMAIN frames'
       PROVE  FrameKnown(frames[i], know2)'
  <2>1. DOMAIN frames' = DOMAIN frames
    BY DEF Elses
  <2>2. CASE i # top
    <3>1. frames'[i] = frames[i] /\ i \in DOMAIN frames
      BY <1>5, <2>1, <2>2 DEF Elses
    <3>2. FrameKnown(frames[i], know2)
      BY <1>0, <1>6, <1>7, <1>8, <1>9, <2>2, <3>1, KnownElsewhere
    <3> QED BY <1>12, <3>1, <3>2, FrameStays
  <2>3. CASE i = top
    <3>1. PICK g : g = frames'[i] OBVIOUS
    <3>2. g.kind = "else" /\ g.exit = f.exit /\ g.scope = f.scope /\ g.moved = moved
      BY <1>5, <1>7, <2>3, <3>1 DEF Elses
    <3>3. Less([own |-> g.scope \ g.moved, clean |-> g.scope \ Lost'], know2[g.exit])
      BY <1>3, <1>9, <1>12, <1>13, <3>2 DEF Less, Readable
    <3> QED BY <3>1, <3>2, <3>3 DEF FrameKnown, Start
  <2> QED BY <2>2, <2>3
<1>15. /\ visible' = f.scope /\ moved' = f.moved /\ cur' = f.target
  BY <1>7 DEF Elses
<1>16. know2[cur'] = know[f.target]
  BY <1>7, <1>9, <1>15
<1>17. Readable' \subseteq know2[cur'].own
       /\ f.scope \ Lost \subseteq know2[cur'].own \cup know2[cur'].clean
  BY <1>10, <1>15, <1>16 DEF Less, Start, Readable
<1>18. TypedSoFar(know2)'
  <2>1. cur' \in {Top.exit} \cup (IF Top.kind = "then" THEN {Top.target} ELSE {})
    BY <1>0, <1>7, <1>15
  <2>2. visible' = Top.scope /\ Top.scope \ Lost \subseteq know2[cur'].own \cup know2[cur'].clean
    BY <1>7, <1>15, <1>17
  <2>3. here.own \subseteq Readable /\ here.clean \subseteq Readable \cup Clean
    BY <1>3
  <2> QED
    BY <1>0, <1>1, <1>3, <1>4, <1>11, <1>14, <1>17, <2>1, <2>2, <2>3, TypedToExit
<1> QED BY <1>18

LEMMA TypedEndIf ==
  ASSUME Shape, Scoped, Disciplined(fragment), NEW know, TypedSoFar(know), EndsIf
  PROVE  \E k : TypedSoFar(k)'
<1>0. phase = "lower" /\ Jumped(Goto(Top.exit), {}, <<>>) /\ frames # <<>> /\ Top.kind = "else"
      /\ Pops
  BY DEF EndsIf, Jumped, Pops
<1>1. ~Branchless(fragment)
  BY <1>0, Branching
<1>2. PICK top : top = Len(frames) OBVIOUS
<1>3. PICK f : f = frames[top] OBVIOUS
<1>4. /\ Top = f /\ top \in DOMAIN frames /\ f \in Frames
      /\ {f.target, f.exit, f.entry} \subseteq DOMAIN blocks
      /\ f.exit \in Pending(f)
  BY <1>0, <1>2, <1>3, TopBlocks
<1>5. PICK joined : joined = [own |-> f.scope \ (moved \cup f.moved), clean |-> f.scope \ Lost]
  OBVIOUS
<1>6. f.scope \subseteq Locals
  BY <1>4, FrameParts
<1>7. joined \in Known /\ joined.own = f.scope \ (moved \cup f.moved)
      /\ joined.clean = f.scope \ Lost
  BY <1>5, <1>6 DEF Known
<1>8. /\ know \in [DOMAIN blocks -> Known] /\ FrameKnown(f, know)
      /\ \A i \in DOMAIN frames : FrameKnown(frames[i], know)
  BY <1>3, <1>4 DEF TypedSoFar, Typed
<1>9. PICK know2 : know2 = [know EXCEPT ![Top.exit] = joined] OBVIOUS
<1>10. know2[f.exit] = joined /\ \A b \in DOMAIN blocks : b # f.exit => know2[b] = know[b]
  BY <1>4, <1>8, <1>9
<1>11. Less(Start(f), know[f.exit])
  BY <1>0, <1>4, <1>8 DEF FrameKnown
<1>12. Less(joined, know[Top.exit])
  BY <1>4, <1>7, <1>11 DEF Less, Start
<1>13. f.scope \subseteq visible
  BY <1>3, <1>4 DEF Scoped
<1>14. Lost' = Lost
  BY <1>0, ScopedJumped
<1>15. /\ cur' = f.exit /\ visible' = f.scope /\ moved' = moved \cup f.moved
  BY <1>4 DEF EndsIf, Pops
<1>16. ASSUME NEW i \in DOMAIN frames'
       PROVE  FrameKnown(frames[i], know2)'
  <2>1. i \in DOMAIN frames /\ i # top /\ frames'[i] = frames[i]
    BY <1>0, <1>2, PopsFrames
  <2>2. FrameKnown(frames[i], know2)
    BY <1>0, <1>3, <1>4, <1>8, <1>10, <2>1, KnownElsewhere
  <2> QED BY <1>14, <2>1, <2>2, FrameStays
<1>17. know2[cur'] = joined
  BY <1>10, <1>15
<1>18. Readable' \subseteq know2[cur'].own
       /\ f.scope \ Lost \subseteq know2[cur'].own \cup know2[cur'].clean
  BY <1>7, <1>15, <1>17 DEF Readable
<1>19. TypedSoFar(know2)'
  <2>1. cur' \in {Top.exit} \cup (IF Top.kind = "then" THEN {Top.target} ELSE {})
    BY <1>4, <1>15
  <2>2. visible' = Top.scope /\ Top.scope \ Lost \subseteq know2[cur'].own \cup know2[cur'].clean
    BY <1>4, <1>15, <1>18
  <2>3. joined.own \subseteq Readable /\ joined.clean \subseteq Readable \cup Clean
    BY <1>1, <1>7, <1>13, CleanIs DEF Readable
  <2> QED
    BY <1>0, <1>1, <1>7, <1>9, <1>12, <1>16, <1>18, <2>1, <2>2, <2>3, TypedToExit
<1> QED BY <1>19

LEMMA TypedOpening ==
  ASSUME Shape, Scoped, ~Branchless(fragment), NEW know, TypedSoFar(know),
         NEW t, NEW more, NEW f, Opening(t, more, f),
         NEW n, n = Len(blocks), Opened(n, t, more, f), Fresh(n, t, more, f),
         f.scope = visible, f.moved = moved, f.kind \in {"then", "loop"}
  PROVE  \E k : TypedSoFar(k)'
<1>1. /\ Jumped(t, {}, more) /\ frames' = Append(frames, f) /\ f \in Frames
      /\ visible' = visible /\ moved' = moved /\ phase = "lower"
      /\ fragment' = fragment
  BY DEF Opening, Jumped
<1>2. PICK here : here = [own |-> Readable, clean |-> Clean] OBVIOUS
<1>3. here \in Known /\ here.own = Readable /\ here.clean = visible \ Lost
      /\ here.clean = Clean /\ Clean = visible \ Lost
  BY <1>2, HereIs, CleanIs
<1>4. PICK know2 : know2 = Entering(know, here, f) OBVIOUS
<1>5. PICK new : new = blocks' OBVIOUS
<1>6. JumpLeaves(new, n, t, {}, more)
  BY <1>1, <1>5, JumpedIs
<1>7. /\ DOMAIN blocks = 1 .. n /\ n \in Nat /\ Len(more) \in Nat
      /\ DOMAIN new = 1 .. n + Len(more) /\ DOMAIN more = 1 .. Len(more)
      /\ \A b \in 1 .. n + Len(more) : b \notin 1 .. n =>
           b - n \in 1 .. Len(more) /\ new[b] = more[b - n]
      /\ cur \in 1 .. n /\ new[cur].term = t /\ new \in Seq(Blocks)
  BY <1>6 DEF JumpLeaves
<1>8. know \in [DOMAIN blocks -> Known] /\ \A i \in DOMAIN frames : FrameKnown(frames[i], know)
  BY DEF TypedSoFar, Typed
<1>9. DOMAIN blocks \subseteq DOMAIN new
  BY <1>7
<1>10. /\ know2 \in [DOMAIN new -> Known]
       /\ \A b \in DOMAIN blocks : know2[b] = know[b]
       /\ \A b \in n + 1 .. n + Len(more) : b \in DOMAIN new /\ b \notin DOMAIN blocks
       /\ f.kind = "then" /\ f.exit \in n + 1 .. n + Len(more) => know2[f.exit] = Nowhere
       /\ \A b \in n + 1 .. n + Len(more) : f.kind # "then" \/ b # f.exit => know2[b] = here
  <2>1. Nowhere \in Known
    BY NowhereIs
  <2>2. \A b \in n + 1 .. n + Len(more) : b \in DOMAIN new /\ b \notin DOMAIN blocks
    BY <1>7
  <2> QED BY <1>3, <1>4, <1>5, <1>8, <1>9, <2>1, <2>2 DEF Entering
<1>11. /\ {f.target, f.exit} \subseteq n + 1 .. n + Len(more)
       /\ f.exit \in Pending(f)
       /\ f.kind = "then" => f.target # f.exit
       /\ f.kind = "loop" => f.entry \in n + 1 .. n + Len(more)
       /\ cur' \in n + 1 .. n + Len(more) /\ cur' \notin Pending(f)
       /\ \A j \in DOMAIN more : more[j].frees = {} /\ more[j].ins = <<>> /\ more[j].clears = {}
  BY DEF Opened, Pending
<1>12. Lost' = Lost
  BY <1>1, <1>11, LostJumped
<1>13. ASSUME NEW i \in DOMAIN frames'
       PROVE  FrameKnown(frames[i], know2)'
  <2>1. PICK fs : fs = frames OBVIOUS
  <2>2. PICK fs2 : fs2 = frames' OBVIOUS
  <2>3. fs \in Seq(Frames) /\ fs2 = Append(fs, f)
    BY <1>1, <2>1, <2>2, ShapeFacts
  <2>4. (i \in DOMAIN fs /\ fs2[i] = fs[i]) \/ fs2[i] = f
    BY <1>1, <2>2, <2>3, AppendedIsOne
  <2>5. CASE i \in DOMAIN fs /\ fs2[i] = fs[i]
    <3>1. {frames[i].target, frames[i].exit, frames[i].entry} \subseteq DOMAIN blocks
      BY <2>1, <2>5, FrameTypes
    <3>2. PICK g : g = frames[i] OBVIOUS
    <3>3. FrameKnown(g, know2)
      BY <1>8, <1>10, <2>1, <2>5, <3>1, <3>2, KnownSame
    <3> QED BY <1>12, <2>1, <2>2, <2>5, <3>2, <3>3, FrameStays
  <2>6. CASE fs2[i] = f
    <3>1. PICK s : s = [own |-> f.scope \ f.moved, clean |-> f.scope \ Lost]
      OBVIOUS
    <3>2. s.own = Readable /\ s.clean = visible \ Lost
      BY <3>1 DEF Readable
    <3>3. Less(s, here) /\ Less(here, s)
      BY <1>3, <3>2 DEF Less
    <3>4. CASE f.kind = "then"
      <4>1. know2[f.target] = here /\ know2[f.exit] = Nowhere
        BY <1>10, <1>11, <3>4
      <4> QED BY <1>12, <2>2, <2>6, <3>1, <3>3, <3>4, <4>1 DEF FrameKnown, Start
    <3>5. CASE f.kind = "loop"
      <4>1. know2[f.target] = here /\ know2[f.exit] = here /\ know2[f.entry] = here
        BY <1>10, <1>11, <3>5
      <4>2. here.own \subseteq f.scope
        BY <1>3 DEF Readable
      <4> QED
        BY <1>12, <2>2, <2>6, <3>1, <3>3, <3>5, <4>1, <4>2 DEF FrameKnown, Start
    <3> QED BY <3>4, <3>5
  <2> QED BY <2>4, <2>5, <2>6
<1>14. Retypes(know, know2, more)
  <2>1. \A b \in DOMAIN blocks :
           /\ Less(know2[b], know[b])
           /\ blocks[b].term \in Jumps => know2[b] = know[b]
    BY <1>10, LessSelf
  <2>2. know2[cur] = know[cur]
    BY <1>7, <1>10
  <2> QED BY <1>1, <1>5, <1>10, <1>11, <1>12, <1>13, <2>1, <2>2 DEF Retypes
<1>15. ASSUME NEW u, JumpsInto(n, more, f, u)
       PROVE  u.kind # "return" /\ know2[u.then] = here /\ know2[u.else] = here
  BY <1>10, <1>15 DEF JumpsInto
<1>16. ASSUME NEW F, Allowed(F)
       PROVE  /\ Flows(blocks'[cur], know[cur], Way(F), know2)
              /\ \A j \in DOMAIN more : more[j].term \in Jumps =>
                   Flows(more[j], know2[Len(blocks) + j], Way(F), know2)
              /\ Yields(blocks'[cur'], know2[cur'], Way(F), Readable', Clean' \cup Base(F))
  <2>1. PICK xs : xs = {} OBVIOUS
  <2>2. Onward(t, xs, know2, F)
    <3>1. t.kind # "return" /\ know2[t.then] = here /\ know2[t.else] = here
      BY <1>15 DEF Fresh
    <3> QED BY <1>3, <2>1, <3>1 DEF Onward
  <2>3. Flows(blocks'[cur], know[cur], Way(F), know2)
    BY <1>1, <1>16, <2>1, <2>2, CurrentFlows
  <2>4. ASSUME NEW j \in DOMAIN more, more[j].term \in Jumps
        PROVE  Flows(more[j], know2[n + j], Way(F), know2)
    <3>1. PICK c : c = more[j] OBVIOUS
    <3>2. PICK w : w = Way(F) OBVIOUS
    <3>3. w.base \subseteq Locals
      BY <3>2, WayIs
    <3>4. f.kind = "loop" /\ JumpsInto(n, more, f, c.term)
      BY <2>4, <3>1 DEF Fresh
    <3>5. n + j \in n + 1 .. n + Len(more)
      BY <1>7
    <3>6. know2[n + j] = here
      BY <1>10, <3>4, <3>5
    <3>7. more \in Seq(Blocks)
      BY <1>1 DEF Jumped
    <3>8. c \in Blocks /\ c.ins = <<>> /\ c.frees = {}
      BY <1>11, <3>1, <3>7, BlockParts
    <3>9. c.term.kind # "return" /\ know2[c.term.then] = here /\ know2[c.term.else] = here
      BY <1>15, <3>4
    <3>10. Flows(c, here, w, know2)
      BY <1>3, <3>3, <3>8, <3>9, HeaderFlows
    <3> QED BY <3>1, <3>2, <3>6, <3>10
  <2>5. PICK c : c = cur' OBVIOUS
  <2>6. know2[c] = here /\ new[c].ins = <<>>
    <3>1. c \in n + 1 .. n + Len(more) /\ c # f.exit
      BY <1>11, <2>5
    <3>2. c \in 1 .. n + Len(more) /\ c \notin 1 .. n
      BY <1>7, <3>1
    <3>3. c - n \in DOMAIN more /\ new[c] = more[c - n]
      BY <1>7, <3>2
    <3> QED BY <1>10, <1>11, <3>1, <3>3
  <2>7. PICK own : own = Readable' OBVIOUS
  <2>8. PICK clean : clean = Clean' OBVIOUS
  <2>9. own = Readable /\ clean = visible \ Lost
    BY <1>1, <1>12, <2>7, <2>8 DEF Readable, Clean
  <2>10. own \subseteq here.own /\ clean \subseteq here.own \cup here.clean
    BY <1>3, <2>9
  <2>11. PICK b : b = new[c] OBVIOUS
  <2>12. Yields(b, here, Way(F), own, clean \cup Base(F))
    BY <2>6, <2>10, <2>11, NextYields
  <2> QED BY <1>5, <2>3, <2>4, <2>5, <2>6, <2>7, <2>8, <2>11, <2>12
<1>17. Rewires(know, know2, more)
  BY <1>16 DEF Rewires
<1>18. TypedSoFar(know2)'
  BY <1>1, <1>14, <1>17, TypedControl
<1> QED BY <1>18

LEMMA TypedIf ==
  ASSUME Shape, Scoped, Disciplined(fragment), NEW know, TypedSoFar(know),
         NEW n, n = Len(blocks), Ifs(n)
  PROVE  \E k : TypedSoFar(k)'
<1>1. PICK t : t = Branch(n + 1, n + 2) OBVIOUS
<1>2. PICK f : f = IfFrame(n + 2, n + 3) OBVIOUS
<1>3. PICK more : more = Three OBVIOUS
<1>4. n \in Nat
  BY ShapeFacts
<1>5. /\ May("if") /\ Opening(t, more, f) /\ Opened(n, t, more, f)
  BY <1>1, <1>2, <1>3, IfOpened DEF Ifs
<1>6. /\ f.scope = visible /\ f.moved = moved /\ f.kind = "then" /\ f.exit = n + 3
      /\ t.kind = "branch" /\ t.then = n + 1 /\ t.else = n + 2
  BY <1>1, <1>2 DEF IfFrame, Branch
<1>7. Len(more) = 3 /\ \A j \in DOMAIN more : more[j].term = Unreachable
  BY <1>3, <1>4, ThreeIs, NewBlockIs
<1>8. Fresh(n, t, more, f)
  BY <1>4, <1>6, <1>7, JumpsEnd DEF Fresh, JumpsInto
<1> QED BY <1>5, <1>6, <1>8, Branching, TypedOpening

LEMMA TypedWhile ==
  ASSUME Shape, Scoped, Disciplined(fragment), NEW know, TypedSoFar(know),
         NEW n, n = Len(blocks), Whiles(n)
  PROVE  \E k : TypedSoFar(k)'
<1>1. PICK t : t = Goto(n + 1) OBVIOUS
<1>2. PICK f : f = LoopFrame(n + 1, n + 3, n + 2) OBVIOUS
<1>3. PICK more : more = <<Header(n), NewBlock, NewBlock>> OBVIOUS
<1>4. n \in Nat
  BY ShapeFacts
<1>5. /\ May("while") /\ Opening(t, more, f) /\ Opened(n, t, more, f)
  BY <1>1, <1>2, <1>3, WhileOpened DEF Whiles
<1>6. /\ f.scope = visible /\ f.moved = moved /\ f.kind = "loop"
      /\ t.kind = "goto" /\ t.then = n + 1 /\ t.else = n + 1
  BY <1>1, <1>2 DEF LoopFrame, Goto
<1>7. /\ Len(more) = 3 /\ DOMAIN more = 1 .. 3
      /\ more[1] = Header(n) /\ more[2] = NewBlock /\ more[3] = NewBlock
  BY <1>3, <1>4, ThreeIs
<1>8. PICK h : h = Branch(n + 2, n + 3) OBVIOUS
<1>9. h.kind = "branch" /\ h.then = n + 2 /\ h.else = n + 3
  BY <1>8 DEF Branch
<1>10. more[1].term = h /\ more[2].term = Unreachable /\ more[3].term = Unreachable
  BY <1>4, <1>7, <1>8, Openings, NewBlockIs
<1>11. JumpsInto(n, more, f, t) /\ JumpsInto(n, more, f, h)
  BY <1>4, <1>6, <1>7, <1>9 DEF JumpsInto
<1>12. ASSUME NEW j \in DOMAIN more, more[j].term \in Jumps
       PROVE  more[j].term = h
  <2>1. j \in {1, 2, 3}
    BY <1>7
  <2> QED BY <1>10, <1>12, <2>1, JumpsEnd
<1>13. Fresh(n, t, more, f)
  BY <1>6, <1>11, <1>12 DEF Fresh
<1> QED BY <1>5, <1>6, <1>13, Branching, TypedOpening

LEMMA TypedLoop ==
  ASSUME Shape, Scoped, Disciplined(fragment), NEW know, TypedSoFar(know),
         NEW n, n = Len(blocks), Loops(n)
  PROVE  \E k : TypedSoFar(k)'
<1>1. PICK t : t = Goto(n + 1) OBVIOUS
<1>2. PICK f : f = LoopFrame(n + 1, n + 2, n + 1) OBVIOUS
<1>3. PICK more : more = <<NewBlock, NewBlock>> OBVIOUS
<1>4. n \in Nat
  BY ShapeFacts
<1>5. /\ May("loop") /\ Opening(t, more, f) /\ Opened(n, t, more, f)
  BY <1>1, <1>2, <1>3, LoopOpened DEF Loops
<1>6. /\ f.scope = visible /\ f.moved = moved /\ f.kind = "loop"
      /\ t.kind = "goto" /\ t.then = n + 1 /\ t.else = n + 1
  BY <1>1, <1>2 DEF LoopFrame, Goto
<1>7. /\ Len(more) = 2 /\ DOMAIN more = 1 .. 2
      /\ more[1] = NewBlock /\ more[2] = NewBlock
  BY <1>3, <1>4, ThreeIs
<1>8. \A j \in DOMAIN more : more[j].term = Unreachable
  BY <1>7, NewBlockIs
<1>9. Fresh(n, t, more, f)
  BY <1>4, <1>6, <1>7, <1>8, JumpsEnd DEF Fresh, JumpsInto
<1> QED BY <1>5, <1>6, <1>9, Branching, TypedOpening

\* What a loop's exit and its target promise, where its text is left.
LEMMA LoopLands ==
  ASSUME Shape, Scoped, ~Branchless(fragment), NEW know, TypedSoFar(know), phase = "lower",
         NEW i \in DOMAIN frames, frames[i].kind = "loop",
         NEW b \in {frames[i].exit, frames[i].target}
  PROVE  /\ know[b].own \subseteq Readable \ frames[i].locals
         /\ know[b].clean \subseteq Readable \cup Clean
<1>1. PICK f : f = frames[i] OBVIOUS
<1>2. FrameKnown(f, know) /\ f.kind = "loop" /\ b \in {f.exit, f.target}
  BY <1>1 DEF TypedSoFar
<1>3. Less(know[b], Start(f))
  BY <1>2 DEF FrameKnown
<1>4. /\ f.locals \cap f.scope = {} /\ moved \cap f.scope = f.moved \cap f.scope
      /\ f.scope \subseteq visible
  BY <1>1, <1>2 DEF Scoped, LoopScope
<1>5. Clean = visible \ Lost
  BY CleanIs
<1>6. PICK s : s = Start(f) OBVIOUS
<1>7. s.own = f.scope \ f.moved /\ s.clean = f.scope \ Lost
  BY <1>6 DEF Start
<1>8. know[b].own \subseteq s.own /\ know[b].clean \subseteq s.own \cup s.clean
  BY <1>3, <1>6 DEF Less
<1> QED BY <1>1, <1>4, <1>5, <1>7, <1>8 DEF Readable

\* What a loop lists holds its own objects or nothing.
LEMMA Listed ==
  ASSUME Shape, Scoped, Disciplined(fragment), ~Branchless(fragment),
         NEW F, Allowed(F), NEW i \in DOMAIN frames, frames[i].kind = "loop"
  PROVE  frames[i].locals \subseteq Readable \cup Clean \cup Base(F)
<1> SUFFICES ASSUME NEW x \in frames[i].locals, x \notin Base(F)
             PROVE  x \in Clean
  OBVIOUS
<1>1. x \in 1 .. declared /\ x \in Locals /\ declared \in Nat
  BY FrameTypes, ShapeFacts
<1>2. x \notin Lost
  BY DEF Scoped, LoopScope
<1>3. x \in F
  BY <1>1, MayFacts DEF Base
<1>4. x \notin Undeclared
  BY <1>1 DEF Undeclared
<1> QED BY <1>2, <1>3, <1>4, CleanIs DEF Allowed

\* A Return finds what it may have to drop.
LEMMA CurrentReturns ==
  ASSUME Shape, NEW know, TypedSoFar(know), NEW x \in Readable \cup {0},
         NEW more, Jumped(Return(x), {}, more), NEW F, Allowed(F),
         Locals \ F \subseteq Readable \cup Clean \cup Base(F), NEW know2
  PROVE  Flows(blocks'[cur], know[cur], Way(F), know2)
<1>1. PICK n : n = Len(blocks) OBVIOUS
<1>2. PICK new : new = blocks' OBVIOUS
<1>3. PICK t : t = Return(x) OBVIOUS
<1>4. PICK xs : xs = {} OBVIOUS
<1>5. JumpLeaves(new, n, t, xs, more)
  BY <1>1, <1>2, <1>3, <1>4, JumpedIs
<1>6. /\ cur \in 1 .. n + Len(more) /\ cur \in 1 .. n /\ DOMAIN blocks = 1 .. n
      /\ new \in Seq(Blocks) /\ DOMAIN new = 1 .. n + Len(more)
      /\ new[cur].term = t /\ new[cur].frees = xs /\ new[cur].ins = blocks[cur].ins
  BY <1>5 DEF JumpLeaves
<1>7. PICK c : c = new[cur] OBVIOUS
<1>8. PICK b : b = blocks[cur] OBVIOUS
<1>9. b \in Blocks /\ c \in Blocks /\ c.ins = b.ins /\ c.frees = {}
  BY <1>4, <1>6, <1>7, <1>8, BlockParts, ShapeFacts
<1>10. c.term.kind = "return" /\ c.term.value = x
  BY <1>3, <1>6, <1>7 DEF Return
<1>11. PICK w : w = Way(F) OBVIOUS
<1>12. PICK clean : clean = Clean \cup Base(F) OBVIOUS
<1>13. Yields(b, know[cur], w, Readable, clean)
  BY <1>8, <1>11, <1>12 DEF TypedSoFar
<1>14. {c.term.value} \ {0} \subseteq Readable /\ w.drop \subseteq Readable \cup clean
  BY <1>10, <1>11, <1>12, WayIs
<1>15. \A m : Sound(m, Readable, clean) => Lands(Outcome(m, c), c.term, w, know2)
  BY <1>9, <1>10, <1>14, ReturnLands
<1>16. Flows(c, know[cur], w, know2)
  BY <1>9, <1>13, <1>15, YieldsFlows
<1> QED BY <1>2, <1>7, <1>11, <1>16

\* A jump out of the text; the dead block behind it goes on from here.
LEMMA TypedLeaves ==
  ASSUME Shape, Scoped, ~Branchless(fragment), NEW know, TypedSoFar(know),
         NEW t, NEW xs, Leaves(t, xs),
         \A know2 : (\A b \in DOMAIN blocks : know2[b] = know[b]) =>
           \A F : Allowed(F) => Flows(blocks'[cur], know[cur], Way(F), know2)
  PROVE  \E k : TypedSoFar(k)'
<1>1. PICK n : n = Len(blocks) OBVIOUS
<1>2. PICK more : more = <<NewBlock>> OBVIOUS
<1>3. PICK new : new = blocks' OBVIOUS
<1>4. /\ Jumped(t, xs, more) /\ cur' = n + 1 /\ phase = "lower"
      /\ frames' = frames /\ visible' = visible /\ moved' = moved /\ fragment' = fragment
  BY <1>1, <1>2 DEF Leaves, Jumped
<1>5. JumpLeaves(new, n, t, xs, more)
  BY <1>1, <1>3, <1>4, JumpedIs
<1>6. DOMAIN more = {1} /\ more[1] = NewBlock /\ Len(more) = 1
  BY <1>2
<1>7. /\ DOMAIN blocks = 1 .. n /\ n \in Nat /\ DOMAIN new = 1 .. n + 1
      /\ \A b \in 1 .. n + 1 : b \notin 1 .. n => new[b] = more[b - n]
      /\ cur \in 1 .. n
  BY <1>5, <1>6 DEF JumpLeaves
<1>8. new[n + 1] = NewBlock /\ n + 1 \notin DOMAIN blocks
  <2>1. n + 1 \in 1 .. n + 1 /\ n + 1 \notin 1 .. n /\ n + 1 - n = 1
    BY <1>7
  <2> QED BY <1>6, <1>7, <2>1
<1>9. PICK here : here = [own |-> Readable, clean |-> Clean] OBVIOUS
<1>10. here \in Known /\ here.own = Readable /\ here.clean = Clean /\ Clean = visible \ Lost
  BY <1>9, HereIs, CleanIs
<1>11. PICK know2 : know2 = [b \in DOMAIN new |-> IF b \in DOMAIN blocks THEN know[b] ELSE here]
  OBVIOUS
<1>12. know \in [DOMAIN blocks -> Known] /\ \A i \in DOMAIN frames : FrameKnown(frames[i], know)
  BY DEF TypedSoFar, Typed
<1>13. /\ know2 \in [DOMAIN new -> Known] /\ know2[n + 1] = here
       /\ \A b \in DOMAIN blocks : know2[b] = know[b]
  BY <1>7, <1>8, <1>10, <1>11, <1>12
<1>14. Lost' = Lost
  BY <1>2, <1>4, ScopedJumped
<1>15. ASSUME NEW i \in DOMAIN frames'
       PROVE  FrameKnown(frames[i], know2)'
  <2>1. {frames[i].target, frames[i].exit, frames[i].entry} \subseteq DOMAIN blocks
    BY <1>4, FrameTypes
  <2>2. PICK g : g = frames[i] OBVIOUS
  <2>3. FrameKnown(g, know2)
    BY <1>4, <1>12, <1>13, <2>1, <2>2, KnownSame
  <2> QED BY <1>4, <1>14, <2>2, <2>3, FrameStays
<1>16. Retypes(know, know2, more)
  <2>1. \A b \in DOMAIN blocks :
           /\ Less(know2[b], know[b])
           /\ blocks[b].term \in Jumps => know2[b] = know[b]
    BY <1>13, LessSelf
  <2>2. \A j \in DOMAIN more : more[j].clears = {}
    BY <1>6, NewBlockIs
  <2> QED BY <1>3, <1>4, <1>7, <1>13, <1>14, <1>15, <2>1, <2>2 DEF Retypes
<1>17. ASSUME NEW F, Allowed(F)
       PROVE  /\ Flows(blocks'[cur], know[cur], Way(F), know2)
              /\ \A j \in DOMAIN more : more[j].term \in Jumps =>
                   Flows(more[j], know2[Len(blocks) + j], Way(F), know2)
              /\ Yields(blocks'[cur'], know2[cur'], Way(F), Readable', Clean' \cup Base(F))
  <2>1. Flows(blocks'[cur], know[cur], Way(F), know2)
    BY <1>13, <1>17
  <2>2. \A j \in DOMAIN more : more[j].term \notin Jumps
    BY <1>6, NewBlockIs, JumpsEnd
  <2>3. PICK own : own = Readable' OBVIOUS
  <2>4. PICK clean : clean = Clean' OBVIOUS
  <2>5. own = Readable /\ clean = visible \ Lost
    BY <1>4, <1>14, <2>3, <2>4 DEF Readable, Clean
  <2>6. own \subseteq here.own /\ clean \subseteq here.own \cup here.clean
    BY <1>10, <2>5
  <2>7. PICK b : b = new[n + 1] OBVIOUS
  <2>8. Yields(b, here, Way(F), own, clean \cup Base(F))
    BY <1>8, <2>6, <2>7, NewBlockIs, NextYields
  <2>9. Yields(blocks'[cur'], know2[cur'], Way(F), Readable', Clean' \cup Base(F))
    BY <1>3, <1>4, <1>13, <2>3, <2>4, <2>7, <2>8
  <2> QED BY <2>1, <2>2, <2>9
<1>18. Rewires(know, know2, more)
  BY <1>17 DEF Rewires
<1>19. TypedSoFar(know2)'
  BY <1>4, <1>16, <1>18, TypedControl
<1> QED BY <1>19

LEMMA TypedJumpsOut ==
  ASSUME Shape, Scoped, Disciplined(fragment), NEW know, TypedSoFar(know), InLoop,
         NEW b \in {Innermost.exit, Innermost.target}, Leaves(Goto(b), Innermost.locals)
  PROVE  \E k : TypedSoFar(k)'
<1>1. PICK i : i = LoopAt OBVIOUS
<1>2. PICK f : f = frames[i] OBVIOUS
<1>3. i \in DOMAIN frames /\ f.kind = "loop" /\ Innermost = f
  BY <1>1, <1>2, LoopAtIs
<1>4. frames # <<>> /\ ~Branchless(fragment)
  BY <1>3, Branching
<1>5. PICK t : t = Goto(b) OBVIOUS
<1>6. t.kind # "return" /\ t.then = b /\ t.else = b
  BY <1>5 DEF Goto
<1>7. Leaves(t, f.locals)
  BY <1>3, <1>5
<1>8. /\ {f.exit, f.target} \subseteq DOMAIN blocks /\ phase = "lower"
      /\ Jumped(t, f.locals, <<NewBlock>>)
  BY <1>2, <1>3, <1>7, FrameTypes DEF Leaves, Jumped
<1>9. ASSUME NEW know2, \A c \in DOMAIN blocks : know2[c] = know[c], NEW F, Allowed(F)
      PROVE  Flows(blocks'[cur], know[cur], Way(F), know2)
  <2>1. know2[b] = know[b]
    BY <1>3, <1>8, <1>9
  <2>2. /\ know[b].own \subseteq Readable \ f.locals /\ know[b].clean \subseteq Readable \cup Clean
    BY <1>2, <1>3, <1>4, <1>8, LoopLands
  <2>3. f.locals \subseteq Readable \cup Clean \cup Base(F)
    BY <1>2, <1>3, <1>4, <1>9, Listed
  <2>4. Onward(t, f.locals, know2, F)
    BY <1>6, <2>1, <2>2, <2>3 DEF Onward
  <2> QED BY <1>8, <1>9, <2>4, CurrentFlows
<1> QED BY <1>4, <1>7, <1>9, TypedLeaves

LEMMA TypedReturnEarly ==
  ASSUME Shape, Scoped, Disciplined(fragment), NEW know, TypedSoFar(know), May("return"),
         NEW x \in Readable \cup {0}, Leaves(Return(x), {})
  PROVE  \E k : TypedSoFar(k)'
<1>1. ~Branchless(fragment)
  BY Branching
<1>2. Jumped(Return(x), {}, <<NewBlock>>)
  BY DEF Leaves
<1>3. ASSUME NEW know2, NEW F, Allowed(F)
      PROVE  Flows(blocks'[cur], know[cur], Way(F), know2)
  <2>1. Base(F) = Locals \ F
    BY <1>1, MayFacts DEF Base
  <2> QED BY <1>2, <1>3, <2>1, CurrentReturns
<1> QED BY <1>1, <1>3, TypedLeaves

\* The back edge frees what the loop lists; its entry clears that again.
LEMMA TypedEndLoop ==
  ASSUME Shape, Scoped, Disciplined(fragment), NEW know, TypedSoFar(know), EndsLoop
  PROVE  TypedSoFar(know)'
<1>0. phase = "lower" /\ frames # <<>> /\ Pops /\ Top.kind = "loop" /\ moved' = moved
      /\ declared' = declared /\ fragment' = fragment
  BY DEF EndsLoop, Pops
<1>1. ~Branchless(fragment)
  BY <1>0, Branching
<1>2. PICK top : top = Len(frames) OBVIOUS
<1>3. PICK f : f = frames[top] OBVIOUS
<1>4. /\ Top = f /\ top \in DOMAIN frames /\ f \in Frames /\ f.kind = "loop"
      /\ {f.target, f.exit, f.entry} \subseteq DOMAIN blocks
      /\ cur \in DOMAIN blocks /\ f.exit # cur /\ blocks[f.exit].ins = <<>>
      /\ Unreachable \notin Jumps
  BY <1>0, <1>2, <1>3, TopBlocks
<1>5. PICK new : new = blocks' OBVIOUS
<1>6. PICK t : t = Goto(f.target) OBVIOUS
<1>7. /\ new \in Seq(Blocks) /\ DOMAIN new = DOMAIN blocks
      /\ \A c \in DOMAIN blocks :
           /\ new[c].ins = blocks[c].ins
           /\ new[c].clears = IF c = f.entry THEN f.locals ELSE blocks[c].clears
           /\ new[c].frees = IF c = cur THEN f.locals ELSE blocks[c].frees
           /\ new[c].term = IF c = cur THEN t ELSE blocks[c].term
  BY <1>4, <1>5, <1>6 DEF EndsLoop
<1>8. Lost' = Lost
  BY LostEndsLoop
<1>9. Typed(blocks, know) /\ FrameKnown(f, know)
      /\ \A i \in DOMAIN frames : FrameKnown(frames[i], know)
  BY <1>3, <1>4 DEF TypedSoFar
<1>10. /\ Less(Start(f), know[f.exit]) /\ know[f.entry].own \subseteq f.scope
  BY <1>4, <1>9 DEF FrameKnown
<1>11. /\ f.locals \cap f.scope = {} /\ moved \cap f.scope = f.moved \cap f.scope
       /\ f.scope \subseteq visible
  BY <1>3, <1>4 DEF Scoped, LoopScope
<1>12. Typed(new, know)
  BY <1>7, <1>9, <1>10, <1>11 DEF Typed
<1>13. \A i \in DOMAIN frames' : FrameKnown(frames[i], know)'
  <2> SUFFICES ASSUME NEW i \in DOMAIN frames' PROVE FrameKnown(frames[i], know)'
    OBVIOUS
  <2>1. i \in DOMAIN frames /\ frames'[i] = frames[i]
    BY <1>0, <1>2, PopsFrames
  <2> QED BY <1>8, <1>9, <2>1, FrameStays
<1>14. /\ cur' = f.exit /\ visible' = f.scope
  BY <1>0, <1>4 DEF Pops
<1>15. \A F : Allowed(F)' => Allowed(F)
  BY <1>0, <1>8, <1>11, <1>14 DEF Allowed, Undeclared
<1>16. ASSUME NEW F, Allowed(F)
       PROVE  Wired(new, know, Way(F))
  <2> SUFFICES ASSUME NEW b \in DOMAIN new, new[b].term \in Jumps
               PROVE  Flows(new[b], know[b], Way(F), know)
    BY DEF Wired
  <2>1. PICK w : w = Way(F) OBVIOUS
  <2>2. CASE b # cur
    <3>1. PICK c : c = new[b] OBVIOUS
    <3>2. PICK d : d = blocks[b] OBVIOUS
    <3>3. c.ins = d.ins /\ c.frees = d.frees /\ c.term = d.term /\ d.term \in Jumps
      BY <1>7, <2>2, <3>1, <3>2
    <3>4. Flows(d, know[b], w, know)
      BY <1>7, <1>16, <2>1, <3>2, <3>3 DEF TypedSoFar, Wired
    <3> QED BY <2>1, <3>1, <3>3, <3>4, FlowsSame
  <2>3. CASE b = cur
    <3>1. PICK c : c = new[cur] OBVIOUS
    <3>2. PICK d : d = blocks[cur] OBVIOUS
    <3>3. c.ins = d.ins /\ c.frees = f.locals /\ c.term = t
      BY <1>4, <1>7, <3>1, <3>2
    <3>4. c \in Blocks /\ d \in Blocks
      BY <1>4, <1>7, <3>1, <3>2, BlockParts, ShapeFacts
    <3>5. PICK clean : clean = Clean \cup Base(F) OBVIOUS
    <3>6. Yields(d, know[cur], w, Readable, clean)
      BY <1>16, <2>1, <3>2, <3>5 DEF TypedSoFar
    <3>7. c.frees \subseteq Readable \cup clean
      BY <1>1, <1>3, <1>4, <1>16, <3>3, <3>5, Listed
    <3>8. c.term.kind # "return" /\ c.term.then = f.target /\ c.term.else = f.target
      BY <1>6, <3>3 DEF Goto
    <3>9. /\ know[f.target].own \subseteq Readable \ f.locals
          /\ know[f.target].clean \subseteq Readable \cup Clean
      BY <1>0, <1>1, <1>3, <1>4, LoopLands
    <3>10. \A k2 \in {know[c.term.then], know[c.term.else]} :
             k2.own \subseteq Readable \ c.frees /\ k2.clean \cup w.base \subseteq Readable \cup clean
      BY <2>1, <3>3, <3>5, <3>8, <3>9, WayIs
    <3>11. Flows(c, know[cur], w, know)
      BY <3>3, <3>4, <3>6, <3>7, <3>8, <3>10, GotoFlows
    <3> QED BY <2>1, <2>3, <3>1, <3>11
  <2> QED BY <2>2, <2>3
<1>17. ASSUME NEW F, Allowed(F)
       PROVE  Yields(blocks'[cur'], know[cur'], Way(F), Readable', Clean' \cup Base(F))
  <2>1. PICK own : own = Readable' OBVIOUS
  <2>2. PICK clean : clean = Clean' OBVIOUS
  <2>3. PICK s : s = Start(f) OBVIOUS
  <2>4. s.own = f.scope \ f.moved /\ s.clean = f.scope \ Lost
    BY <2>3 DEF Start
  <2>5. own = f.scope \ moved /\ clean = f.scope \ Lost
    BY <1>0, <1>1, <1>8, <1>14, <2>1, <2>2 DEF Readable, Clean
  <2>6. PICK k : k = know[f.exit] OBVIOUS
  <2>7. own \subseteq k.own /\ clean \subseteq k.own \cup k.clean
    BY <1>10, <1>11, <2>3, <2>4, <2>5, <2>6 DEF Less
  <2>8. PICK b : b = new[f.exit] OBVIOUS
  <2>9. Yields(b, k, Way(F), own, clean \cup Base(F))
    BY <1>4, <1>7, <2>7, <2>8, NextYields
  <2> QED BY <1>5, <1>14, <2>1, <2>2, <2>6, <2>8, <2>9
<1>18. \A F : Allowed(F)' =>
           /\ Wired(blocks', know, Way(F))
           /\ Yields(blocks'[cur'], know[cur'], Way(F), Readable', Clean' \cup Base(F))
  BY <1>5, <1>15, <1>16, <1>17
<1> QED BY <1>0, <1>5, <1>12, <1>13, <1>18, TypedNext

LEMMA TypedEndsBody ==
  ASSUME Shape, Scoped, Disciplined(fragment), NEW know, TypedSoFar(know), EndsBody
  PROVE  Settled(know)'
<1>1. PICK x \in Readable \cup {0} : Jumped(Return(x), {}, <<>>)
  BY DEF EndsBody
<1>2. PICK more : more = <<>> OBVIOUS
<1>3. PICK new : new = blocks' OBVIOUS
<1>4. PICK t : t = Return(x) OBVIOUS
<1>5. Jumped(t, {}, more) /\ DOMAIN more = {} /\ fragment' = fragment /\ declared' = declared
      /\ phase = "lower"
  BY <1>1, <1>2, <1>4 DEF Jumped
<1>6. Lost' = Lost
  BY <1>2, <1>5, ScopedJumped
<1>7. PICK F : F = Given OBVIOUS
<1>8. Given' = F
  BY <1>5, <1>6, <1>7 DEF Given, Undeclared
<1>9. Lost \subseteq 1 .. declared /\ 1 .. declared \subseteq Locals /\ declared \in Nat
  BY ShapeFacts DEF Scoped
<1>10. Undeclared \subseteq Locals
  BY <1>9, Constants DEF Undeclared
<1>11. Allowed(F)
  BY <1>7, <1>9, <1>10 DEF Allowed, Given
<1>12. Locals \ F \subseteq (1 .. declared) \ Lost
  BY <1>7, <1>9, Constants DEF Given, Undeclared
<1>13. Locals \ F \subseteq Readable \cup Clean \cup Base(F)
  <2>1. CASE Branchless(fragment)
    BY <1>12, <2>1 DEF Scoped, Clean
  <2>2. CASE ~Branchless(fragment)
    BY <2>2, MayFacts DEF Base
  <2> QED BY <2>1, <2>2
<1>14. know \in [DOMAIN new -> Known] /\ DOMAIN new = DOMAIN blocks
  BY <1>3, <1>1, JumpedOnly DEF TypedSoFar, Typed
<1>15. Typed(new, know)
  <2>1. \A b \in DOMAIN blocks : Less(know[b], know[b])
    BY LessSelf
  <2>2. Typed(blocks, know)
    BY DEF TypedSoFar
  <2>3. know \in [DOMAIN blocks' -> Known] /\ \A j \in DOMAIN more : more[j].clears = {}
    BY <1>3, <1>5, <1>14
  <2> QED BY <1>3, <1>5, <2>1, <2>2, <2>3, TypedJumped
<1>16. Flows(blocks'[cur], know[cur], Way(F), know)
  BY <1>1, <1>11, <1>13, CurrentReturns
<1>17. Wired(new, know, Way(F))
  <2>1. /\ \A b \in DOMAIN blocks \ {cur} :
             new[b].ins = blocks[b].ins /\ new[b].term = blocks[b].term
             /\ new[b].frees = blocks[b].frees
    BY <1>1, <1>3, JumpedOnly
  <2>2. \A b \in DOMAIN blocks :
           /\ Less(know[b], know[b])
           /\ blocks[b].term \in Jumps => know[b] = know[b]
    BY LessSelf
  <2>3. \A b \in DOMAIN new : b = cur \/ b \notin DOMAIN blocks =>
           (new[b].term \in Jumps => Flows(new[b], know[b], Way(F), know))
    BY <1>3, <1>14, <1>16
  <2>4. Wired(blocks, know, Way(F))
    BY <1>11 DEF TypedSoFar
  <2> QED BY <2>1, <2>2, <2>3, <2>4, WiredJumped
<1>18. Way(F)' = Way(F)
  BY <1>5, WayPrimed
<1> QED BY <1>3, <1>8, <1>15, <1>17, <1>18 DEF Settled

LEMMA TypedInit ==
  ASSUME Init
  PROVE  \E k : TypedSoFar(k)
<1>1. /\ blocks = <<NewBlock>> /\ cur = 1 /\ frames = <<>> /\ visible = {} /\ inited = {}
  BY DEF Init
<1>2. PICK k : k = [own |-> {}, clean |-> {}] OBVIOUS
<1>3. k \in Known /\ k.own = {} /\ k.clean = {}
  BY <1>2 DEF Known
<1>4. PICK know : know = [b \in {1} |-> k] OBVIOUS
<1>5. know \in [{1} -> Known] /\ know[1] = k
  BY <1>3, <1>4
<1>6. DOMAIN blocks = {1} /\ blocks[1] = NewBlock /\ DOMAIN frames = {}
  BY <1>1
<1>7. Typed(blocks, know)
  BY <1>3, <1>5, <1>6, NewBlockIs DEF Typed
<1>8. ASSUME NEW F
      PROVE  /\ Wired(blocks, know, Way(F))
             /\ Yields(blocks[cur], know[cur], Way(F), Readable, Clean \cup Base(F))
  <2>1. Wired(blocks, know, Way(F))
    BY <1>6, NewBlockIs, JumpsEnd DEF Wired
  <2>2. PICK own : own = Readable OBVIOUS
  <2>3. PICK clean : clean = Clean OBVIOUS
  <2>4. own = {} /\ clean = {}
    BY <1>1, <2>2, <2>3 DEF Readable, Clean
  <2>5. PICK b : b = NewBlock OBVIOUS
  <2>6. Yields(b, k, Way(F), own, clean \cup Base(F))
    BY <2>4, <2>5, NewBlockIs, NextYields
  <2> QED BY <1>1, <1>5, <1>6, <2>1, <2>2, <2>3, <2>5, <2>6
<1>9. TypedSoFar(know)
  BY <1>6, <1>7, <1>8 DEF TypedSoFar
<1> QED BY <1>9

\* Every step of the lowering keeps the promises of the blocks.
LEMMA TypedLowers ==
  ASSUME Shape, Scoped, Disciplined(fragment), NEW know, TypedSoFar(know), Lowers
  PROVE  \/ phase = "lower" /\ phase' = "lower" /\ \E k : TypedSoFar(k)'
         \/ phase' = "elaborate" /\ Settled(know)'
<1>1. CASE \/ Lets \/ \E y \in Movable : LetsFrom(y)
           \/ \E x \in Settable : Sets(x) \/ \E y \in Movable : SetsFrom(x, y)
           \/ \E how \in GivingOps : \E x \in Movable : Gives(x, how)
  <2>1. TypedSoFar(know)'
    BY <1>1, TypedStatement
  <2>2. phase = "lower" /\ phase' = "lower"
    BY <1>1 DEF Lets, LetsFrom, Sets, SetsFrom, Gives, Emits
  <2> QED BY <2>1, <2>2
<1>2. ASSUME NEW n \in {Len(blocks)}, Ifs(n) \/ Whiles(n) \/ Loops(n)
      PROVE  phase = "lower" /\ phase' = "lower" /\ \E k : TypedSoFar(k)'
  <2>1. phase = "lower" /\ phase' = "lower"
    BY <1>2 DEF Ifs, Whiles, Loops, Opening, Jumped
  <2>2. n = Len(blocks)
    BY <1>2
  <2> QED BY <1>2, <2>1, <2>2, TypedIf, TypedWhile, TypedLoop
<1>3. CASE Elses
  BY <1>3, TypedElse DEF Elses, Jumped
<1>4. CASE EndsIf
  BY <1>4, TypedEndIf DEF EndsIf, Jumped, Pops
<1>5. CASE EndsLoop
  BY <1>5, TypedEndLoop DEF EndsLoop, Pops
<1>6. CASE InLoop /\ \E b \in {Innermost.exit, Innermost.target} :
             Leaves(Goto(b), Innermost.locals)
  <2>1. PICK b \in {Innermost.exit, Innermost.target} : Leaves(Goto(b), Innermost.locals)
    BY <1>6
  <2>2. \E k : TypedSoFar(k)'
    BY <1>6, <2>1, TypedJumpsOut
  <2> QED BY <2>1, <2>2 DEF Leaves, Jumped
<1>7. CASE May("return") /\ \E x \in Readable \cup {0} : Leaves(Return(x), {})
  <2>1. PICK x \in Readable \cup {0} : Leaves(Return(x), {})
    BY <1>7
  <2>2. \E k : TypedSoFar(k)'
    BY <1>7, <2>1, TypedReturnEarly
  <2> QED BY <2>1, <2>2 DEF Leaves, Jumped
<1>8. CASE EndsBody
  BY <1>8, TypedEndsBody DEF EndsBody
<1> QED BY <1>1, <1>2, <1>3, <1>4, <1>5, <1>6, <1>7, <1>8 DEF Lowers

-----------------------------------------------------------------------------
(* Drop elaboration *)

\* A function by recursion over the numbers up to n.
LEMMA Recursion ==
  ASSUME NEW S, NEW base \in S, NEW n \in Nat, NEW step \in [S \X (1 .. n) -> S]
  PROVE  \E f \in [0 .. n -> S] :
           f[0] = base /\ \A i \in 1 .. n : f[i] = step[<<f[i - 1], i>>]
<1> DEFINE Done(k) == \E f \in [0 .. k -> S] :
             f[0] = base /\ \A i \in 1 .. k : i \in 1 .. n => f[i] = step[<<f[i - 1], i>>]
           K == {k \in Nat : Done(k)}
<1>1. 0 \in K
  <2> DEFINE f == [i \in 0 .. 0 |-> base]
  <2>1. f \in [0 .. 0 -> S] /\ f[0] = base /\ 1 .. 0 = {} OBVIOUS
  <2> HIDE DEF f
  <2> QED BY <2>1
<1>2. ASSUME NEW k \in Nat, k \in K PROVE k + 1 \in K
  <2>1. PICK f \in [0 .. k -> S] :
             f[0] = base /\ \A i \in 1 .. k : i \in 1 .. n => f[i] = step[<<f[i - 1], i>>]
    BY <1>2
  <2> DEFINE next == IF k + 1 \in 1 .. n THEN step[<<f[k], k + 1>>] ELSE base
             g == [i \in 0 .. k + 1 |-> IF i = k + 1 THEN next ELSE f[i]]
  <2>2. f[k] \in S /\ next \in S
    BY <2>1
  <2>3. g \in [0 .. k + 1 -> S] /\ g[k + 1] = next /\ \A i \in 0 .. k : g[i] = f[i]
    BY <2>1, <2>2
  <2>4. k + 1 \in 1 .. n => next = step[<<f[k], k + 1>>] OBVIOUS
  <2> HIDE DEF g, next
  <2>5. g[0] = base
    BY <2>1, <2>3
  <2>6. ASSUME NEW i \in 1 .. k + 1, i \in 1 .. n
        PROVE  g[i] = step[<<g[i - 1], i>>]
    <3>1. i - 1 \in 0 .. k /\ (i \in 1 .. k \/ i = k + 1) OBVIOUS
    <3>2. g[i - 1] = f[i - 1]
      BY <2>3, <3>1
    <3>3. CASE i \in 1 .. k
      BY <2>1, <2>3, <2>6, <3>2, <3>3
    <3>4. CASE i = k + 1
      BY <2>3, <2>4, <2>6, <3>2, <3>4
    <3> QED BY <3>1, <3>3, <3>4
  <2>7. Done(k + 1)
    BY <2>3, <2>5, <2>6
  <2> QED BY <2>7
<1> HIDE DEF K
<1>3. n \in K
  BY <1>1, <1>2, NatIn
<1> QED BY <1>3 DEF K

LEMMA OwnersAre ==
  ASSUME NEW s \in Owners
  PROVE  /\ s.rooted \subseteq Locals /\ s.tainted \subseteq Locals
         /\ \A xs \in SUBSET Locals :
              /\ TaintAll(s, xs) \in Owners
              /\ TaintAll(s, xs).rooted = s.rooted \ xs
              /\ TaintAll(s, xs).tainted = s.tainted \cup xs
BY DEF Owners, TaintAll

LEMMA ScanLess ==
  ASSUME NEW s, NEW given, NEW defined, NEW n, Scan(s, given, defined, n),
         NEW given2 \in SUBSET given, NEW defined2 \in SUBSET defined
  PROVE  Scan(s, given2, defined2, n)
BY DEF Scan

LEMMA ScanTaints ==
  ASSUME NEW s, NEW given, NEW defined, NEW n, Scan(s, given, defined, n),
         NEW xs \in SUBSET Locals
  PROVE  Scan(TaintAll(s, xs), given, defined, n)
<1>1. PICK r : r = TaintAll(s, xs) OBVIOUS
<1>2. r \in Owners /\ r.rooted = s.rooted \ xs /\ r.tainted = s.tainted \cup xs
  BY <1>1, OwnersAre DEF Scan
<1> QED BY <1>1, <1>2 DEF Scan

\* The four things an instruction does to the pass.
LEMMA TrackIs ==
  ASSUME NEW s \in Owners, NEW i \in Instructions
  PROVE  /\ Track(s, i) \in Owners
         /\ i.op = "alloc" =>
              /\ Track(s, i).rooted = Rooted(s, i.to) /\ Track(s, i).tainted = s.tainted
         /\ i.op \in {"assign", "move"} /\ i.from \in s.rooted =>
              /\ Track(s, i).rooted = Rooted(s, i.to) \ {i.from}
              /\ Track(s, i).tainted = s.tainted \cup {i.from}
         /\ i.op \in {"assign", "move"} /\ i.from \notin s.rooted =>
              /\ Track(s, i).rooted = s.rooted \ {i.to}
              /\ Track(s, i).tainted = s.tainted \cup {i.to}
         /\ i.op \in GivingOps =>
              /\ Track(s, i).rooted = s.rooted \ {i.from}
              /\ Track(s, i).tainted = s.tainted \cup {i.from}
         /\ i.op = "free" => Track(s, i) = s
<1>1. i.to \in Locals /\ i.from \in Locals /\ i.op \in Ops
  BY DEF Instructions
<1>2. s.rooted \subseteq Locals /\ s.tainted \subseteq Locals
      /\ Rooted(s, i.to) \subseteq Locals
  BY <1>1 DEF Owners, Rooted
<1>3. PICK r : r = Track(s, i) OBVIOUS
<1>4. CASE i.op = "alloc"
  <2>1. r = [s EXCEPT !.rooted = Rooted(s, i.to)]
    BY <1>3, <1>4 DEF Track, GivingOps
  <2>2. r \in Owners /\ r.rooted = Rooted(s, i.to) /\ r.tainted = s.tainted
    BY <1>2, <2>1 DEF Owners
  <2> QED BY <1>3, <1>4, <2>2 DEF GivingOps
<1>5. CASE i.op \in {"assign", "move"} /\ i.from \in s.rooted
  <2>1. r = [rooted |-> Rooted(s, i.to) \ {i.from}, tainted |-> s.tainted \cup {i.from}]
    BY <1>3, <1>5 DEF Track, Alias, GivingOps
  <2>2. r \in Owners /\ r.rooted = Rooted(s, i.to) \ {i.from}
        /\ r.tainted = s.tainted \cup {i.from}
    BY <1>1, <1>2, <2>1 DEF Owners
  <2> QED BY <1>3, <1>5, <2>2 DEF GivingOps
<1>6. CASE i.op \in {"assign", "move"} /\ i.from \notin s.rooted
  <2>1. r = [rooted |-> s.rooted \ {i.to}, tainted |-> s.tainted \cup {i.to}]
    BY <1>3, <1>6 DEF Track, Taint, TaintAll, GivingOps
  <2>2. r \in Owners /\ r.rooted = s.rooted \ {i.to} /\ r.tainted = s.tainted \cup {i.to}
    BY <1>1, <1>2, <2>1 DEF Owners
  <2> QED BY <1>3, <1>6, <2>2 DEF GivingOps
<1>7. CASE i.op \in GivingOps
  <2>1. r = [rooted |-> s.rooted \ {i.from}, tainted |-> s.tainted \cup {i.from}]
    BY <1>3, <1>7 DEF Track, Taint, TaintAll, GivingOps
  <2>2. r \in Owners /\ r.rooted = s.rooted \ {i.from} /\ r.tainted = s.tainted \cup {i.from}
    BY <1>1, <1>2, <2>1 DEF Owners
  <2> QED BY <1>3, <1>7, <2>2 DEF GivingOps
<1>8. CASE i.op = "free"
  <2>1. r = s
    BY <1>3, <1>8 DEF Track, GivingOps
  <2> QED BY <1>3, <1>8, <2>1 DEF GivingOps
<1> QED BY <1>1, <1>4, <1>5, <1>6, <1>7, <1>8 DEF Ops

LEMMA ScanTracks ==
  ASSUME NEW s, NEW given, NEW defined, NEW n, Scan(s, given, defined, n),
         NEW i \in Instructions, i.to \in 1 .. n,
         i.op = "assign" => i.from \in defined
  PROVE  Scan(Track(s, i), given \cup (IF i.op \in Losing THEN {i.from} ELSE {}),
              defined \cup (IF i.op \in Defining THEN {i.to} ELSE {}), n)
<1>1. PICK r : r = Track(s, i) OBVIOUS
<1>2. /\ s \in Owners /\ s.rooted \cap s.tainted = {} /\ s.rooted \subseteq 1 .. n
      /\ given \subseteq s.tainted /\ defined \subseteq s.rooted \cup s.tainted
  BY DEF Scan
<1>3. r \in Owners /\ i.op \in Ops
  BY <1>1, <1>2, TrackIs DEF Instructions
<1>4. Rooted(s, i.to) \subseteq s.rooted \cup {i.to} /\ s.rooted \subseteq Rooted(s, i.to)
      /\ Rooted(s, i.to) \cap s.tainted = {} /\ i.to \in Rooted(s, i.to) \cup s.tainted
  BY <1>2 DEF Rooted
<1>5. /\ r.rooted \cap r.tainted = {} /\ r.rooted \subseteq 1 .. n
      /\ s.tainted \subseteq r.tainted /\ s.rooted \subseteq r.rooted \cup r.tainted
      /\ i.op \in Losing => i.from \in r.tainted
      /\ i.op \in Defining => i.to \in r.rooted \cup r.tainted
  <2>1. CASE i.op = "alloc"
    <3>1. r.rooted = Rooted(s, i.to) /\ r.tainted = s.tainted
      BY <1>1, <1>2, <2>1, TrackIs
    <3>2. i.op \notin Losing
      BY <2>1 DEF Losing, GivingOps
    <3> QED BY <1>2, <1>4, <3>1, <3>2
  <2>2. CASE i.op \in {"assign", "move"} /\ i.from \in s.rooted
    <3>1. r.rooted = Rooted(s, i.to) \ {i.from} /\ r.tainted = s.tainted \cup {i.from}
      BY <1>1, <1>2, <2>2, TrackIs
    <3> QED BY <1>2, <1>4, <3>1
  <2>3. CASE i.op \in {"assign", "move"} /\ i.from \notin s.rooted
    <3>1. r.rooted = s.rooted \ {i.to} /\ r.tainted = s.tainted \cup {i.to}
      BY <1>1, <1>2, <2>3, TrackIs
    <3>2. i.op \in Losing => i.from \in s.tainted
      BY <1>2, <2>3 DEF Losing, GivingOps
    <3> QED BY <1>2, <3>1, <3>2
  <2>4. CASE i.op \in GivingOps
    <3>1. r.rooted = s.rooted \ {i.from} /\ r.tainted = s.tainted \cup {i.from}
      BY <1>1, <1>2, <2>4, TrackIs
    <3>2. i.op \notin Defining
      BY <2>4 DEF Defining, GivingOps
    <3> QED BY <1>2, <3>1, <3>2
  <2>5. CASE i.op = "free"
    <3>1. r = s /\ i.op \notin Losing /\ i.op \notin Defining
      BY <1>1, <1>2, <2>5, TrackIs DEF Losing, Defining, GivingOps
    <3> QED BY <1>2, <3>1
  <2> QED BY <1>3, <2>1, <2>2, <2>3, <2>4, <2>5 DEF Ops
<1> QED BY <1>1, <1>2, <1>3, <1>5 DEF Scan

\* Step by step through a block.
LEMMA TrackBlockIs ==
  ASSUME NEW s \in Owners, NEW b \in Blocks
  PROVE  \E f \in [0 .. Len(b.ins) -> Owners] :
           /\ f[0] = TaintAll(s, b.clears)
           /\ \A i \in 1 .. Len(b.ins) : f[i] = Track(f[i - 1], b.ins[i])
           /\ TrackBlock(s, b) = TaintAll(f[Len(b.ins)], b.frees)
<1>1. PICK n : n = Len(b.ins) OBVIOUS
<1>2. /\ b.ins \in Seq(Instructions) /\ b.clears \subseteq Locals /\ b.frees \subseteq Locals
  BY DEF Blocks
<1>3. n \in Nat /\ \A i \in 1 .. n : b.ins[i] \in Instructions
  BY <1>1, <1>2
<1>4. PICK base : base = TaintAll(s, b.clears) OBVIOUS
<1>5. base \in Owners
  BY <1>2, <1>4, OwnersAre
<1>6. PICK step : step = [p \in Owners \X (1 .. n) |-> Track(p[1], b.ins[p[2]])]
  OBVIOUS
<1>7. /\ step \in [Owners \X (1 .. n) -> Owners]
      /\ \A r \in Owners : \A i \in 1 .. n : step[<<r, i>>] = Track(r, b.ins[i])
  <2>1. \A p \in Owners \X (1 .. n) : Track(p[1], b.ins[p[2]]) \in Owners
    BY <1>3, TrackIs
  <2> QED BY <1>6, <2>1
<1>8. PICK f \in [0 .. n -> Owners] :
         f[0] = base /\ \A i \in 1 .. n : f[i] = step[<<f[i - 1], i>>]
  BY <1>3, <1>5, <1>7, Recursion, SMTT(30)
<1>9. \A i \in 1 .. n : f[i] = Track(f[i - 1], b.ins[i])
  <2> SUFFICES ASSUME NEW i \in 1 .. n PROVE f[i] = Track(f[i - 1], b.ins[i])
    OBVIOUS
  <2>1. i - 1 \in 0 .. n
    BY <1>3
  <2>2. f[i - 1] \in Owners
    BY <1>8, <2>1
  <2> QED BY <1>7, <1>8, <2>2
<1> DEFINE Scans(g) == g = [i \in 0 .. n |-> IF i = 0 THEN TaintAll(s, b.clears)
                                             ELSE Track(g[i - 1], b.ins[i])]
<1>10. Scans(f)
  <2>1. \A i \in 0 .. n : f[i] = IF i = 0 THEN TaintAll(s, b.clears)
                                 ELSE Track(f[i - 1], b.ins[i])
    <3> SUFFICES ASSUME NEW i \in 0 .. n
                 PROVE  f[i] = IF i = 0 THEN TaintAll(s, b.clears)
                               ELSE Track(f[i - 1], b.ins[i])
      OBVIOUS
    <3>1. i # 0 => i \in 1 .. n
      BY <1>3
    <3> QED BY <1>4, <1>8, <1>9, <3>1
  <2>2. f = [i \in 0 .. n |-> f[i]]
    BY <1>8
  <2> QED BY <2>1, <2>2
<1> DEFINE seen == CHOOSE g : Scans(g)
<1>11. TrackBlock(s, b) = TaintAll(seen[n], b.frees)
  BY <1>1 DEF TrackBlock
<1>12. Scans(seen)
  BY <1>10
<1> HIDE DEF seen
<1>13. \A i \in 0 .. n : seen[i] = IF i = 0 THEN TaintAll(s, b.clears)
                                   ELSE Track(seen[i - 1], b.ins[i])
  BY <1>12
<1> DEFINE Same == {i \in Nat : i \in 0 .. n => seen[i] = f[i]}
<1>14. 0 \in Same
  BY <1>4, <1>8, <1>13
<1>15. ASSUME NEW k \in Nat, k \in Same PROVE k + 1 \in Same
  <2> SUFFICES ASSUME k + 1 \in 0 .. n PROVE seen[k + 1] = f[k + 1] OBVIOUS
  <2>1. k + 1 \in 1 .. n /\ k \in 0 .. n /\ (k + 1) - 1 = k /\ k + 1 # 0
    BY <1>3
  <2>2. seen[k] = f[k]
    BY <1>15, <2>1
  <2>3. seen[k + 1] = Track(seen[k], b.ins[k + 1])
    BY <1>13, <2>1
  <2>4. f[k + 1] = Track(f[k], b.ins[k + 1])
    BY <1>9, <2>1
  <2> QED BY <2>2, <2>3, <2>4
<1> HIDE DEF Same
<1>16. n \in Same
  BY <1>3, <1>14, <1>15, NatIn
<1>17. seen[n] = f[n]
  BY <1>3, <1>16 DEF Same
<1> QED BY <1>1, <1>4, <1>8, <1>9, <1>11, <1>17

LEMMA TrackBlockType ==
  ASSUME NEW s \in Owners, NEW b \in Blocks
  PROVE  TrackBlock(s, b) \in Owners
<1>1. PICK f \in [0 .. Len(b.ins) -> Owners] :
           TrackBlock(s, b) = TaintAll(f[Len(b.ins)], b.frees)
  BY TrackBlockIs
<1>2. Len(b.ins) \in Nat /\ b.frees \subseteq Locals
  BY DEF Blocks
<1> QED BY <1>1, <1>2, OwnersAre

LEMMA DeallocSafeIs ==
  ASSUME blocks \in Seq(Blocks)
  PROVE  \E f : /\ f[0] = [rooted |-> {}, tainted |-> {}]
                /\ \A b \in 1 .. Len(blocks) : f[b] = TrackBlock(f[b - 1], blocks[b])
                /\ DeallocSafe = f[Len(blocks)].rooted
<1>1. PICK n : n = Len(blocks) OBVIOUS
<1>2. PICK bs : bs = blocks OBVIOUS
<1>3. n \in Nat /\ \A b \in 1 .. n : bs[b] \in Blocks
  BY <1>1, <1>2
<1>4. PICK base : base = [rooted |-> {}, tainted |-> {}] OBVIOUS
<1>5. base \in Owners
  BY <1>4 DEF Owners
<1>6. PICK step : step = [p \in Owners \X (1 .. n) |-> TrackBlock(p[1], bs[p[2]])]
  OBVIOUS
<1>7. /\ step \in [Owners \X (1 .. n) -> Owners]
      /\ \A r \in Owners : \A b \in 1 .. n : step[<<r, b>>] = TrackBlock(r, bs[b])
  <2>1. \A p \in Owners \X (1 .. n) : TrackBlock(p[1], bs[p[2]]) \in Owners
    BY <1>3, TrackBlockType
  <2> QED BY <1>6, <2>1
<1>8. PICK f \in [0 .. n -> Owners] :
         f[0] = base /\ \A b \in 1 .. n : f[b] = step[<<f[b - 1], b>>]
  <2>1. n \in Nat /\ step \in [Owners \X (1 .. n) -> Owners]
    BY <1>3, <1>7
  <2> QED BY ONLY <1>5, <2>1, Recursion
<1>9. \A b \in 1 .. n : f[b] = TrackBlock(f[b - 1], bs[b])
  <2> SUFFICES ASSUME NEW b \in 1 .. n PROVE f[b] = TrackBlock(f[b - 1], bs[b])
    OBVIOUS
  <2>1. b - 1 \in 0 .. n
    BY <1>3
  <2>2. f[b - 1] \in Owners
    BY <1>8, <2>1
  <2> QED BY <1>7, <1>8, <2>2
<1> DEFINE Scans(g) == g = [b \in 0 .. n |-> IF b = 0 THEN base ELSE TrackBlock(g[b - 1], bs[b])]
<1>10. Scans(f)
  <2>1. \A b \in 0 .. n : f[b] = IF b = 0 THEN base ELSE TrackBlock(f[b - 1], bs[b])
    <3> SUFFICES ASSUME NEW b \in 0 .. n
                 PROVE  f[b] = IF b = 0 THEN base ELSE TrackBlock(f[b - 1], bs[b])
      OBVIOUS
    <3>1. b # 0 => b \in 1 .. n
      BY <1>3
    <3> QED BY <1>8, <1>9, <3>1
  <2>2. f = [b \in 0 .. n |-> f[b]]
    BY <1>8
  <2> QED BY <2>1, <2>2
<1> DEFINE seen == CHOOSE g : Scans(g)
<1>11. DeallocSafe = seen[n].rooted
  BY <1>1, <1>2, <1>4 DEF DeallocSafe
<1>12. Scans(seen)
  BY <1>10
<1> HIDE DEF seen
<1>13. \A b \in 0 .. n : seen[b] = IF b = 0 THEN base ELSE TrackBlock(seen[b - 1], bs[b])
  BY <1>12
<1>14. seen[0] = base /\ \A b \in 1 .. n : seen[b] = TrackBlock(seen[b - 1], bs[b])
  BY <1>3, <1>13
<1> QED BY <1>1, <1>2, <1>4, <1>11, <1>14

\* What is behind a place in the blocks, from one place to the next.
LEMMA PlaceNext ==
  ASSUME NEW bs \in Seq(Blocks), NEW b \in DOMAIN bs, NEW i \in DOMAIN bs[b].ins
  PROVE  /\ Gave(bs, b, i + 1) \subseteq
              Gave(bs, b, i) \cup (IF bs[b].ins[i].op \in Losing THEN {bs[b].ins[i].from} ELSE {})
         /\ Earlier(bs, b, i + 1) \subseteq
              Earlier(bs, b, i) \cup (IF bs[b].ins[i].op \in Defining THEN {bs[b].ins[i].to} ELSE {})
<1>1. DOMAIN bs[b].ins \subseteq Nat /\ i \in Nat
  BY BlockParts
<1>2. \A j \in DOMAIN bs[b].ins : j < i + 1 => j < i \/ j = i
  BY <1>1
<1>3. ASSUME NEW x \in Gave(bs, b, i + 1), x \notin Gave(bs, b, i)
      PROVE  bs[b].ins[i].op \in Losing /\ bs[b].ins[i].from = x
  BY <1>2, <1>3 DEF Gave
<1>4. ASSUME NEW x \in Earlier(bs, b, i + 1), x \notin Earlier(bs, b, i)
      PROVE  bs[b].ins[i].op \in Defining /\ bs[b].ins[i].to = x
  BY <1>2, <1>4 DEF Earlier, Defines
<1> QED BY <1>3, <1>4

LEMMA PlaceBlock ==
  ASSUME NEW bs \in Seq(Blocks)
  PROVE  /\ Gave(bs, 1, 1) = {} /\ Earlier(bs, 1, 1) = {}
         /\ \A b \in DOMAIN bs :
              /\ Gave(bs, b + 1, 1) \subseteq Gave(bs, b, Len(bs[b].ins) + 1)
              /\ Earlier(bs, b + 1, 1) \subseteq Earlier(bs, b, Len(bs[b].ins) + 1)
         /\ LostIn(bs) \subseteq Gave(bs, Len(bs) + 1, 1)
<1>1. /\ DOMAIN bs = 1 .. Len(bs) /\ Len(bs) \in Nat
      /\ \A c \in DOMAIN bs : DOMAIN bs[c].ins = 1 .. Len(bs[c].ins) /\ Len(bs[c].ins) \in Nat
  BY BlockParts
<1>2. \A c \in DOMAIN bs : \A j \in DOMAIN bs[c].ins : ~(c < 1 \/ (c = 1 /\ j < 1))
  BY <1>1
<1>3. Gave(bs, 1, 1) = {} /\ Earlier(bs, 1, 1) = {}
  BY <1>2 DEF Gave, Earlier
<1>4. ASSUME NEW b \in DOMAIN bs, NEW c \in DOMAIN bs, NEW j \in DOMAIN bs[c].ins,
             c < b + 1 \/ (c = b + 1 /\ j < 1)
      PROVE  c < b \/ (c = b /\ j < Len(bs[b].ins) + 1)
  <2>1. /\ b \in Nat /\ c \in Nat /\ j \in 1 .. Len(bs[c].ins) /\ Len(bs[c].ins) \in Nat
    BY <1>1
  <2> QED BY <1>4, <2>1
<1>5. \A b \in DOMAIN bs :
        /\ Gave(bs, b + 1, 1) \subseteq Gave(bs, b, Len(bs[b].ins) + 1)
        /\ Earlier(bs, b + 1, 1) \subseteq Earlier(bs, b, Len(bs[b].ins) + 1)
  BY <1>4 DEF Gave, Earlier
<1>6. \A c \in DOMAIN bs : c < Len(bs) + 1
  BY <1>1
<1>7. LostIn(bs) \subseteq Gave(bs, Len(bs) + 1, 1)
  BY <1>6 DEF LostIn, Gave
<1> QED BY <1>3, <1>5, <1>7

LEMMA ScanBlock ==
  ASSUME NEW bs \in Seq(Blocks), NEW n, InOrder(bs, n), NEW b \in DOMAIN bs,
         NEW s, Scan(s, Gave(bs, b, 1), Earlier(bs, b, 1), n)
  PROVE  Scan(TrackBlock(s, bs[b]), Gave(bs, b + 1, 1), Earlier(bs, b + 1, 1), n)
<1>1. PICK c : c = bs[b] OBVIOUS
<1>2. /\ c \in Blocks /\ c.ins \in Seq(Instructions) /\ Len(c.ins) \in Nat
      /\ DOMAIN c.ins = 1 .. Len(c.ins) /\ c.clears \subseteq Locals /\ c.frees \subseteq Locals
  BY <1>1, BlockParts
<1>3. PICK f \in [0 .. Len(c.ins) -> Owners] :
           /\ f[0] = TaintAll(s, c.clears)
           /\ \A i \in 1 .. Len(c.ins) : f[i] = Track(f[i - 1], c.ins[i])
           /\ TrackBlock(s, c) = TaintAll(f[Len(c.ins)], c.frees)
  BY <1>2, TrackBlockIs DEF Scan
<1> DEFINE Done(k) == k \in 0 .. Len(c.ins)
                        => Scan(f[k], Gave(bs, b, k + 1), Earlier(bs, b, k + 1), n)
           K == {k \in Nat : Done(k)}
<1>4. 0 \in K
  BY <1>2, <1>3, ScanTaints
<1>5. ASSUME NEW k \in Nat, k \in K PROVE k + 1 \in K
  <2> SUFFICES ASSUME k + 1 \in 0 .. Len(c.ins)
               PROVE  Scan(f[k + 1], Gave(bs, b, (k + 1) + 1), Earlier(bs, b, (k + 1) + 1), n)
    OBVIOUS
  <2>1. PICK i : i = k + 1 OBVIOUS
  <2>2. i \in 1 .. Len(c.ins) /\ i - 1 = k /\ k \in 0 .. Len(c.ins)
    BY <1>2, <2>1
  <2>3. PICK ins : ins = c.ins[i] OBVIOUS
  <2>4. ins \in Instructions
    BY <1>2, <2>2, <2>3
  <2>5. Scan(f[k], Gave(bs, b, i), Earlier(bs, b, i), n)
    BY <1>5, <2>1, <2>2
  <2>6. ins.to \in 1 .. n /\ (ins.op = "assign" => ins.from \in Earlier(bs, b, i))
    BY <1>1, <1>2, <2>2, <2>3 DEF InOrder
  <2>7. Scan(Track(f[k], ins), Gave(bs, b, i) \cup (IF ins.op \in Losing THEN {ins.from} ELSE {}),
             Earlier(bs, b, i) \cup (IF ins.op \in Defining THEN {ins.to} ELSE {}), n)
    BY <2>4, <2>5, <2>6, ScanTracks
  <2>8. f[i] = Track(f[k], ins)
    BY <1>3, <2>2, <2>3
  <2>9. /\ Gave(bs, b, i + 1) \subseteq
              Gave(bs, b, i) \cup (IF ins.op \in Losing THEN {ins.from} ELSE {})
        /\ Earlier(bs, b, i + 1) \subseteq
              Earlier(bs, b, i) \cup (IF ins.op \in Defining THEN {ins.to} ELSE {})
    BY <1>1, <1>2, <2>2, <2>3, PlaceNext
  <2>10. Scan(f[i], Gave(bs, b, i + 1), Earlier(bs, b, i + 1), n)
    BY <2>7, <2>8, <2>9, ScanLess
  <2> QED BY <2>1, <2>10
<1> HIDE DEF K
<1>6. Len(c.ins) \in K
  BY <1>2, <1>4, <1>5, NatIn
<1>7. Scan(f[Len(c.ins)], Gave(bs, b, Len(c.ins) + 1), Earlier(bs, b, Len(c.ins) + 1), n)
  BY <1>2, <1>6 DEF K
<1>8. Scan(f[Len(c.ins)], Gave(bs, b + 1, 1), Earlier(bs, b + 1, 1), n)
  BY <1>1, <1>7, PlaceBlock, ScanLess
<1>9. Scan(TrackBlock(s, c), Gave(bs, b + 1, 1), Earlier(bs, b + 1, 1), n)
  BY <1>2, <1>3, <1>8, ScanTaints
<1> QED BY <1>1, <1>9

\* Whatever some path gives away or copies, on another is not dropped either.
LEMMA DropsSafe ==
  ASSUME Shape, Ordered
  PROVE  DeallocSafe \subseteq (1 .. declared) \ Lost
<1>1. PICK bs : bs = blocks OBVIOUS
<1>2. PICK n : n = declared OBVIOUS
<1>3. bs \in Seq(Blocks) /\ InOrder(bs, n) /\ DOMAIN bs = 1 .. Len(bs) /\ Len(bs) \in Nat
  BY <1>1, <1>2, ShapeFacts DEF Ordered
<1>4. PICK f : /\ f[0] = [rooted |-> {}, tainted |-> {}]
               /\ \A b \in 1 .. Len(bs) : f[b] = TrackBlock(f[b - 1], bs[b])
               /\ DeallocSafe = f[Len(bs)].rooted
  BY <1>1, <1>3, DeallocSafeIs
<1> DEFINE Done(k) == k \in 0 .. Len(bs)
                        => Scan(f[k], Gave(bs, k + 1, 1), Earlier(bs, k + 1, 1), n)
           K == {k \in Nat : Done(k)}
<1>5. 0 \in K
  <2>1. Gave(bs, 1, 1) = {} /\ Earlier(bs, 1, 1) = {}
    BY <1>3, PlaceBlock
  <2>2. PICK s : s = [rooted |-> {}, tainted |-> {}] OBVIOUS
  <2>3. s \in Owners /\ s.rooted = {} /\ s.tainted = {}
    BY <2>2 DEF Owners
  <2>4. Scan(s, {}, {}, n)
    BY <2>3 DEF Scan
  <2>5. Scan(f[0], Gave(bs, 1, 1), Earlier(bs, 1, 1), n)
    BY <1>4, <2>1, <2>2, <2>4
  <2>6. 0 + 1 = 1 OBVIOUS
  <2> QED BY <2>5, <2>6
<1>6. ASSUME NEW k \in Nat, k \in K PROVE k + 1 \in K
  <2> SUFFICES ASSUME k + 1 \in 0 .. Len(bs)
               PROVE  Scan(f[k + 1], Gave(bs, (k + 1) + 1, 1), Earlier(bs, (k + 1) + 1, 1), n)
    OBVIOUS
  <2>1. PICK b : b = k + 1 OBVIOUS
  <2>2. b \in 1 .. Len(bs) /\ b - 1 = k /\ k \in 0 .. Len(bs)
    BY <1>3, <2>1
  <2>3. Scan(f[k], Gave(bs, b, 1), Earlier(bs, b, 1), n)
    BY <1>6, <2>1, <2>2
  <2>4. f[b] = TrackBlock(f[k], bs[b])
    BY <1>4, <2>2
  <2>5. Scan(f[b], Gave(bs, b + 1, 1), Earlier(bs, b + 1, 1), n)
    BY <1>3, <2>2, <2>3, <2>4, ScanBlock
  <2> QED BY <2>1, <2>5
<1> HIDE DEF K
<1>7. Len(bs) \in K
  BY <1>3, <1>5, <1>6, NatIn
<1>8. PICK s : s = f[Len(bs)] OBVIOUS
<1>9. Scan(s, Gave(bs, Len(bs) + 1, 1), Earlier(bs, Len(bs) + 1, 1), n)
  BY <1>3, <1>7, <1>8 DEF K
<1>10. s.rooted \cap s.tainted = {} /\ s.rooted \subseteq 1 .. n
       /\ Gave(bs, Len(bs) + 1, 1) \subseteq s.tainted
  BY <1>9 DEF Scan
<1>11. Lost \subseteq s.tainted
  BY <1>1, <1>3, <1>10, PlaceBlock DEF Lost
<1> QED BY <1>2, <1>4, <1>8, <1>10, <1>11

\* Nor is a value that some Return gives to the caller.
LEMMA DropLocalsAre ==
  ASSUME Shape, Ordered
  PROVE  /\ DropLocals \subseteq (1 .. declared) \ Lost
         /\ \A b \in DOMAIN blocks : blocks[b].term.value \notin DropLocals
<1>1. DropLocals \subseteq (1 .. declared) \ Lost /\ 1 .. declared \subseteq Locals
  BY DropsSafe, ShapeFacts DEF DropLocals
<1>2. ASSUME NEW b \in DOMAIN blocks, blocks[b].term.value \in DropLocals
      PROVE  FALSE
  <2>1. PICK x : x = blocks[b].term.value OBVIOUS
  <2>2. x \in Locals /\ x # 0
    <3>1. x \in Locals
      BY <1>1, <1>2, <2>1
    <3> QED BY <3>1, Constants
  <2>3. x \in ReturnLocals
    BY <2>1, <2>2 DEF ReturnLocals
  <2>4. x \in ReturnAliases
    BY <2>2, <2>3 DEF ReturnAliases
  <2> QED BY <1>2, <2>1, <2>4 DEF DropLocals
<1> QED BY <1>1, <1>2

-----------------------------------------------------------------------------
(* The run *)

\* A run starts with nothing in the locals, as far as the backend clears them.
LEMMA StartSat ==
  ASSUME mem = Blank, mem \in Memory, NEW k, k.own = {}, k.clean = {}, NEW F
  PROVE  Sat(mem, k, Way(F))
<1>1. PICK w : w = Way(F) OBVIOUS
<1>2. w.base = Base(F) /\ w.base \subseteq Locals
  BY <1>1, WayIs
<1>3. /\ mem.fault = "none" /\ mem.kept = {} /\ \A x \in Locals : mem.env[x] = Unset
  BY DEF Blank
<1>4. w.base # {} => Unset = Nil
  BY <1>2 DEF Base, Unset
<1>5. Good(mem, {}, w.base)
  BY <1>2, <1>3, <1>4 DEF Good
<1>6. k.clean \cup w.base = w.base OBVIOUS
<1> QED BY <1>1, <1>5, <1>6 DEF Sat

\* A block run from where its promises hold.
LEMMA BlockLands ==
  ASSUME Shape, NEW know, Running(know), NEW b, b = blocks[at],
         b.term \in Jumps, NEW after, after = Executed(mem, b)
  PROVE  Lands(after, b.term, Way(Given), know)
<1>1. PICK w : w = Way(Given) OBVIOUS
<1>2. PICK k : k = know[at] OBVIOUS
<1>3. /\ at \in DOMAIN blocks /\ blocks \in Seq(Blocks)
      /\ b \in Blocks /\ Len(b.ins) \in Nat /\ b.clears \subseteq Locals
  BY ShapeFacts, BlockParts
<1>4. Sat(mem, k, w) /\ Flows(b, k, w, know) /\ b.clears \cap k.own = {}
  BY <1>1, <1>2, <1>3 DEF Running, Settled, Wired, Typed
<1>5. PICK f : /\ f[0] = Cleared(mem, b.clears)
               /\ \A i \in 1 .. Len(b.ins) : f[i] = Exec(f[i - 1], b.ins[i])
               /\ after = Cleared(Freed(f[Len(b.ins)], b.frees), b.frees)
  BY <1>3, ExecutedIs
<1>6. PICK m : m = f[0] OBVIOUS
<1>7. Good(m, k.own, (k.clean \cup w.base) \cup b.clears)
  BY <1>3, <1>4, <1>5, <1>6, ClearedGood DEF Sat
<1>8. Sat(m, k, w)
  <2>1. k.own \in SUBSET k.own
        /\ k.clean \cup w.base \in SUBSET (k.own \cup ((k.clean \cup w.base) \cup b.clears))
    OBVIOUS
  <2> QED BY <1>7, <2>1, GoodLess DEF Sat
<1>9. Steps(f, b.ins)
  BY <1>5 DEF Steps
<1>10. after = Outcome(f[Len(b.ins)], b)
  BY <1>5 DEF Outcome
<1> QED BY <1>1, <1>4, <1>6, <1>8, <1>9, <1>10 DEF Flows

LEMMA ReturnedIs ==
  ASSUME NEW m \in Memory, NEW v \in {Nil, Junk} \cup Objects, NEW n,
         ReturnedTo(n, m, v, m.fault)
  PROVE  /\ n \in Memory /\ n.fault = m.fault /\ n.heap = m.heap /\ n.env = m.env
         /\ n.kept = m.kept /\ n.result = v
BY DEF Memory, ReturnedTo

\* The value of a Return stays, whatever is dropped with it.
LEMMA LeaveGood ==
  ASSUME Shape, DropsOwn, NEW m, NEW x \in {0} \cup Locals, x \notin drops,
         Good(m, {x} \ {0}, Locals \ Given), NEW n, n = Leave(m, x)
  PROVE  /\ n.fault = "none" /\ \A o \in n.kept : n.heap[o] = "live"
         /\ n.result # Nil => n.result \in Objects /\ n.heap[n.result] = "live"
<1>1. PICK v : v = IF x = 0 THEN Nil ELSE m.env[x] OBVIOUS
<1>2. PICK own : own = {x} \ {0} OBVIOUS
<1>3. PICK clean : clean = Locals \ Given OBVIOUS
<1>4. /\ Good(m, own, clean) /\ m \in Memory /\ m.fault = "none"
  BY <1>2, <1>3 DEF Good
<1>5. x # 0 => /\ x \in own /\ x \in Locals /\ Owned(m, x) /\ v \in Objects
               /\ v = m.env[x] /\ ReadFault(m, v) = "none"
  <2> SUFFICES ASSUME x # 0
               PROVE  /\ x \in own /\ x \in Locals /\ Owned(m, x) /\ v \in Objects
                      /\ v = m.env[x] /\ ReadFault(m, v) = "none"
    OBVIOUS
  <2>1. x \in own /\ x \in Locals /\ v = m.env[x]
    BY <1>1, <1>2
  <2>2. Owned(m, x)
    BY <1>4, <2>1 DEF Good
  <2>3. v \in Objects
    BY <2>1, <2>2 DEF Owned
  <2> QED BY <1>4, <2>1, <2>2, <2>3, OwnedReads
<1>6. PICK r : r = [m EXCEPT !.result = v, !.fault = m.fault] OBVIOUS
<1>7. n = Freed(r, drops)
  BY <1>1, <1>4, <1>5, <1>6 DEF Leave
<1>8. v \in {Nil, Junk} \cup Objects /\ (x = 0 => v = Nil)
  BY <1>1, <1>5
<1>9. /\ r \in Memory /\ r.fault = m.fault /\ r.heap = m.heap /\ r.env = m.env
      /\ r.kept = m.kept /\ r.result = v
  <2>1. ReturnedTo(r, m, v, m.fault)
    BY <1>6 DEF ReturnedTo
  <2> QED BY <1>4, <1>8, <2>1, ReturnedIs
<1>10. Good(r, own, clean)
  BY <1>4, <1>9 DEF Good, Owned
<1>11. drops \in SUBSET (own \cup clean)
  <2>1. drops \subseteq (1 .. declared) \ Lost /\ 1 .. declared \subseteq Locals /\ declared \in Nat
    BY ShapeFacts DEF DropsOwn
  <2>2. Undeclared \cap 1 .. declared = {}
    BY <2>1 DEF Undeclared
  <2> QED BY <1>3, <2>1, <2>2 DEF Given
<1>12. /\ Good(n, own \ drops, clean \ drops) /\ n.env = m.env /\ n.result = v
  BY <1>7, <1>9, <1>10, <1>11, FreedGood
<1>13. x # 0 => Owned(n, x)
  BY <1>5, <1>12 DEF Good
<1>14. x # 0 => n.heap[v] = "live"
  BY <1>5, <1>12, <1>13 DEF Owned
<1> QED BY <1>5, <1>8, <1>12, <1>14 DEF Good

LEMMA OwningInit ==
  ASSUME Init
  PROVE  Owning
<1>1. phase = "lower" /\ at = 1 /\ mem = Blank /\ drops = {}
  BY DEF Init, Blank
<1> QED BY <1>1, ShapeInit, ScopedInit, OrderedInit, TypedInit DEF Owning

LEMMA OwningLowers ==
  ASSUME Owning, Disciplined(fragment), Lowers
  PROVE  Owning'
<1>0. Shape /\ Scoped /\ Ordered
  BY DEF Owning
<1>1. Shape' /\ Scoped' /\ Ordered'
  BY <1>0, ShapeLowers, ScopedLowers, OrderedLowers
<1>2. phase = "lower" /\ UNCHANGED <<fragment, drops, at, mem>>
  BY DEF Lowers, Lets, LetsFrom, Sets, SetsFrom, Gives, Emits, Ifs, Whiles, Loops, Opening,
         Elses, EndsIf, EndsLoop, Leaves, EndsBody, Jumped, running
<1>3. PICK know : TypedSoFar(know)
  BY <1>2 DEF Owning
<1>4. \/ phase' = "lower" /\ \E k : TypedSoFar(k)'
      \/ phase' = "elaborate" /\ Settled(know)'
  BY <1>0, <1>3, TypedLowers
<1>5. at' = 1 /\ mem' = Blank' /\ drops' = {}
  BY <1>2 DEF Owning, Blank, Unset
<1> QED BY <1>1, <1>4, <1>5 DEF Owning

\* The blocks and what is known of them, where nothing is written any more.
LEMMA SettledSame ==
  ASSUME NEW know, Settled(know), UNCHANGED <<fragment, blocks, declared>>
  PROVE  /\ Settled(know)' /\ Lost' = Lost /\ Given' = Given /\ Way(Given)' = Way(Given)
<1>1. Lost' = Lost /\ Given' = Given
  BY DEF Given, Lost, Undeclared
<1>2. Way(Given)' = Way(Given)
  BY <1>1 DEF Way, Base
<1> QED BY <1>1, <1>2 DEF Settled

LEMMA OwningInsertDrops ==
  ASSUME Owning, InsertDrops
  PROVE  Owning'
<1>0. /\ Shape /\ Scoped /\ Ordered /\ phase = "elaborate" /\ phase' = "run"
      /\ drops' = DropLocals
      /\ UNCHANGED <<fragment, returns, blocks, cur, frames, declared, visible, moved, inited,
                     open, spent, at, jumps, mem>>
  BY DEF Owning, InsertDrops, lowering, running
<1>1. Shape' /\ Scoped' /\ Ordered'
  BY <1>0, ShapeInsertDrops, ScopedSame, OrderedSame
<1>2. PICK know : Settled(know)
  BY <1>0 DEF Owning
<1>3. at = 1 /\ mem = Blank /\ mem \in Memory
  BY <1>0 DEF Owning, Shape, StateTypes
<1>4. know[1].own = {} /\ know[1].clean = {}
  BY <1>2 DEF Settled, Typed
<1>5. Sat(mem, know[1], Way(Given))
  BY <1>3, <1>4, StartSat
<1>6. Settled(know)' /\ Lost' = Lost /\ Way(Given)' = Way(Given)
  BY <1>0, <1>2, SettledSame
<1>7. Running(know)'
  BY <1>0, <1>3, <1>5, <1>6 DEF Running
<1>8. DropsOwn'
  BY <1>0, <1>6, DropLocalsAre DEF DropsOwn
<1> QED BY <1>0, <1>1, <1>7, <1>8 DEF Owning

LEMMA OwningRunBlock ==
  ASSUME Owning, RunBlock
  PROVE  Owning'
<1>0. /\ Shape /\ Scoped /\ Ordered /\ phase = "run" /\ DropsOwn
      /\ UNCHANGED <<fragment, returns, blocks, cur, frames, declared, visible, moved, inited,
                     open, spent, drops>>
  BY DEF Owning, RunBlock, lowering
<1>1. phase' \in {"run", "done"}
  BY <1>0 DEF RunBlock
<1>2. Shape' /\ Scoped' /\ Ordered'
  BY <1>0, <1>1, ShapeRunBlock, ScopedSame, OrderedSame
<1>3. PICK know : Running(know)
  BY <1>0 DEF Owning
<1>4. Settled(know)' /\ Lost' = Lost /\ Way(Given)' = Way(Given)
  BY <1>0, <1>3, SettledSame DEF Running
<1>5. DropsOwn'
  BY <1>0, <1>4 DEF DropsOwn
<1>6. PICK b : b = blocks[at] OBVIOUS
<1>7. PICK after : after = Executed(mem, b) OBVIOUS
<1>8. b.term \in Jumps /\ at \in DOMAIN blocks
  BY <1>0, <1>6, ShapeFacts DEF Shape, Lowered
<1>9. PICK w : w = Way(Given) OBVIOUS
<1>10. Lands(after, b.term, w, know) /\ ~Exhausted(after)
  BY <1>0, <1>3, <1>6, <1>7, <1>8, <1>9, BlockLands DEF RunBlock, Exhausted
<1>11. CASE b.term.kind = "return"
  <2>1. PICK x : x = b.term.value OBVIOUS
  <2>2. x \in {0} \cup Locals /\ x \notin drops
    BY <1>0, <1>6, <1>8, <2>1 DEF DropsOwn, Jumps
  <2>3. Good(after, {x} \ {0}, Locals \ Given)
    BY <1>9, <1>10, <1>11, <2>1, WayIs DEF Lands
  <2>4. mem' = Leave(after, x) /\ phase' = "done"
    BY <1>6, <1>7, <1>11, <2>1 DEF RunBlock
  <2>5. Ended'
    BY <1>0, <2>2, <2>3, <2>4, LeaveGood DEF Ended
  <2> QED BY <1>2, <1>5, <2>4, <2>5 DEF Owning
<1>12. CASE b.term.kind # "return"
  <2>1. Sat(after, know[b.term.then], w) /\ Sat(after, know[b.term.else], w)
    BY <1>10, <1>12 DEF Lands
  <2>2. after.fault = "none"
    BY <2>1 DEF Sat, Good
  <2>3. mem' = after /\ phase' = "run" /\ at' \in {b.term.then, b.term.else}
    BY <1>6, <1>7, <1>12, <2>2 DEF RunBlock
  <2>4. Running(know)'
    BY <1>4, <1>9, <2>1, <2>3 DEF Running
  <2> QED BY <1>2, <1>5, <2>3, <2>4 DEF Owning
<1> QED BY <1>11, <1>12

LEMMA OwningStutters ==
  ASSUME Owning, UNCHANGED vars
  PROVE  Owning'
<1>1. UNCHANGED <<phase, fragment, returns, blocks, cur, frames, declared, visible, moved,
                  inited, open, spent, drops, at, jumps, mem>>
  BY DEF vars, lowering, running
<1>2. Shape' /\ Scoped' /\ Ordered'
  BY <1>1, ShapeStutter, ScopedSame, OrderedSame DEF Owning
<1>3. Lost' = Lost /\ Given' = Given /\ \A F : Way(F)' = Way(F)
  BY <1>1 DEF Given, Lost, Undeclared, Way, Base
<1>4. \A know : TypedSoFar(know) => TypedSoFar(know)'
  <2> SUFFICES ASSUME NEW know, TypedSoFar(know) PROVE TypedSoFar(know)' OBVIOUS
  <2>1. \A F : Base(F)' = Base(F) /\ Way(F)' = Way(F) /\ Allowed(F)' = Allowed(F)
    BY <1>1, <1>3 DEF Base, Way, Allowed, Undeclared
  <2>2. Readable' = Readable /\ Clean' = Clean
    BY <1>1, <1>3 DEF Readable, Clean
  <2>3. \A i \in DOMAIN frames' : FrameKnown(frames[i], know)'
    BY <1>1, <1>3 DEF TypedSoFar, FrameKnown, Start
  <2> QED BY <1>1, <2>1, <2>2, <2>3 DEF TypedSoFar
<1>5. \A know : Settled(know) => Settled(know)'
  BY <1>1, <1>3 DEF Settled
<1>6. \A know : Running(know) => Running(know)'
  BY <1>1, <1>3, <1>5 DEF Running
<1>7. (DropsOwn => DropsOwn') /\ (Ended => Ended') /\ Blank' = Blank
  BY <1>1, <1>3 DEF DropsOwn, Ended, Blank, Unset
<1> QED BY <1>1, <1>2, <1>4, <1>5, <1>6, <1>7 DEF Owning

\* In every state of every program of a disciplined sublanguage each local
\* holds what the lowering thinks it holds.
THEOREM DropsOwning == WellBehaved => (Spec => []Owning)
<1> SUFFICES ASSUME WellBehaved PROVE Spec => []Owning OBVIOUS
<1>1. Init => Owning
  BY OwningInit
<1>2. Owning /\ [Next]_vars => Owning'
  <2> SUFFICES ASSUME Owning, [Next]_vars PROVE Owning' OBVIOUS
  <2>1. Disciplined(fragment) /\ Shape
    BY ShapeFacts DEF Owning, WellBehaved
  <2> QED
    BY <2>1, NextIs, OwningLowers, OwningInsertDrops, OwningRunBlock, OwningStutters
<1> QED BY <1>1, <1>2, PTL DEF Spec

\* What an owning state's memory is like.
LEMMA OwningMemory ==
  ASSUME Owning
  PROVE  /\ mem.fault = "none" /\ \A o \in mem.kept : mem.heap[o] = "live"
         /\ phase = "done" /\ mem.result # Nil => mem.heap[mem.result] = "live"
<1>1. phase \in {"lower", "elaborate", "run", "done"}
  BY DEF Owning, Shape, StateTypes
<1>2. CASE phase \in {"lower", "elaborate"}
  BY <1>2 DEF Owning, Blank
<1>3. CASE phase = "run"
  BY <1>3 DEF Owning, Running, Sat, Good
<1>4. CASE phase = "done"
  BY <1>4 DEF Owning, Ended
<1> QED BY <1>1, <1>2, <1>3, <1>4

\* Every step keeps to the types, drop elaboration's included.
THEOREM DropsTypeOK == WellBehaved => (Spec => []TypeOK)
<1>1. Owning => TypeOK
  BY DEF Owning, Shape, StateTypes, DropsOwn, TypeOK
<1> QED BY <1>1, DropsOwning, PTL

\* The reassignments, the loop edges and the scope exit never free one object
\* twice, nor what is none.
THEOREM DropsFreesOnlyOwn == WellBehaved => (Spec => []FreesOnlyOwn)
<1>1. Owning => FreesOnlyOwn
  BY OwningMemory DEF FreesOnlyOwn
<1> QED BY <1>1, DropsOwning, PTL

\* What the borrow checker lets a program read is there and its own.
THEOREM DropsReadsOwn == WellBehaved => (Spec => []ReadsOwn)
<1>1. Owning => ReadsOwn
  BY OwningMemory DEF ReadsOwn
<1> QED BY <1>1, DropsOwning, PTL

\* What was handed over or returned is not freed.
THEOREM DropsHandedOver == WellBehaved => (Spec => []HandedOverSurvives)
<1>1. Owning => HandedOverSurvives
  BY OwningMemory DEF HandedOverSurvives, Returned
<1> QED BY <1>1, DropsOwning, PTL

-----------------------------------------------------------------------------
(* Nothing is left behind *)

LEMMA SnugMore ==
  ASSUME NEW m, NEW S, Snug(m, S), NEW T, S \subseteq T
  PROVE  Snug(m, T)
BY DEF Snug, Held

\* A run that went wrong holds whatever one likes.
LEMMA SnugFaulty ==
  ASSUME NEW m \in Memory, m.fault # "none", NEW S
  PROVE  Snug(m, S)
BY DEF Snug

LEMMA ExecFaulty ==
  ASSUME NEW m, m.fault # "none", NEW i
  PROVE  Exec(m, i) = m
BY DEF Exec

LEMMA SnugAlloc ==
  ASSUME NEW m, NEW S \in SUBSET Locals, Snug(m, S), NEW x \in Locals \ S
  PROVE  Snug(Exec(m, Alloc(x)), S \cup {x})
<1>1. PICK n : n = Exec(m, Alloc(x)) OBVIOUS
<1>2. m \in Memory
  BY DEF Snug
<1>3. CASE m.fault # "none"
  BY <1>2, <1>3, ExecFaulty, SnugFaulty
<1>4. CASE m.fault = "none" /\ Unborn(m) = {}
  <2>1. n = Blame(m, "exhausted")
    BY <1>1, <1>4 DEF Exec, Alloc
  <2>2. n \in Memory /\ n.fault # "none"
    BY <1>2, <2>1, BlameIs DEF Faults
  <2> QED BY <1>1, <2>2, SnugFaulty
<1>5. CASE m.fault = "none" /\ Unborn(m) # {}
  <2>1. PICK o : o = Newborn(m) OBVIOUS
  <2>2. o \in Objects /\ m.heap[o] = "unborn"
    <3>1. PICK p \in Unborn(m) : \A q \in Unborn(m) : p <= q
      BY <1>5, LeastObject DEF Unborn
    <3>2. Newborn(m) \in Unborn(m)
      BY <3>1 DEF Newborn
    <3> QED BY <2>1, <3>2 DEF Unborn
  <2>3. Born(n, m, x, o)
    BY <1>1, <1>5, <2>1 DEF Exec, Alloc, Born
  <2>4. /\ n \in Memory /\ n.kept = m.kept
        /\ n.env[x] = o /\ \A y \in Locals \ {x} : n.env[y] = m.env[y]
        /\ n.heap[o] = "live" /\ \A p \in Objects \ {o} : n.heap[p] = m.heap[p]
    BY <1>2, <2>2, <2>3, BirthIs
  <2>5. Held(m, S)
    BY <1>5 DEF Snug
  <2>6. Held(n, S \cup {x})
    BY <2>4, <2>5 DEF Held
  <2> QED BY <1>1, <2>4, <2>6 DEF Snug
<1> QED BY <1>3, <1>4, <1>5

\* A free that goes well kills what the locals held; another leaves a fault.
LEMMA FreedIs ==
  ASSUME NEW m \in Memory, NEW xs \in SUBSET Locals, NEW n, n = Freed(m, xs), n.fault = "none"
  PROVE  /\ m.fault = "none" /\ n \in Memory /\ n.env = m.env /\ n.kept = m.kept
         /\ n.result = m.result
         /\ \A o \in Objects : n.heap[o] = IF \E x \in xs : m.env[x] = o THEN "freed"
                                           ELSE m.heap[o]
<1>1. PICK held : held = {m.env[x] : x \in xs} \ {Nil} OBVIOUS
<1>2. n = m \/ n = Blame(m, "free_of_junk") \/ n = Blame(m, "double_free") \/ FreedIn(n, m, held)
  BY <1>1 DEF Freed, FreedIn
<1>3. m.fault = "none"
  BY DEF Freed
<1>4. n # Blame(m, "free_of_junk") /\ n # Blame(m, "double_free")
  BY BlameIs DEF Faults
<1>5. CASE FreedIn(n, m, held)
  <2>1. /\ n \in Memory /\ n.env = m.env /\ n.kept = m.kept /\ n.result = m.result
        /\ \A o \in Objects : n.heap[o] = IF o \in held THEN "freed" ELSE m.heap[o]
    BY <1>5, FreeIs
  <2>2. \A o \in Objects : o \in held <=> \E x \in xs : m.env[x] = o
    BY <1>1, Constants
  <2> QED BY <1>3, <2>1, <2>2
<1>6. CASE ~FreedIn(n, m, held)
  <2>1. n = m
    BY <1>2, <1>4, <1>6
  <2>2. FALSE
    BY <1>1, <1>3, <1>4, <1>6, <2>1 DEF Freed, FreedIn
  <2> QED BY <2>2
<1> QED BY <1>5, <1>6

LEMMA SnugFreed ==
  ASSUME NEW m, NEW S \in SUBSET Locals, Snug(m, S), NEW xs \in SUBSET Locals
  PROVE  Snug(Freed(m, xs), S \ xs)
<1>1. PICK n : n = Freed(m, xs) OBVIOUS
<1>2. m \in Memory /\ n \in Memory
  BY <1>1, FreedType DEF Snug
<1>3. CASE n.fault # "none"
  BY <1>1, <1>2, <1>3, SnugFaulty
<1>4. CASE n.fault = "none"
  <2>1. /\ m.fault = "none" /\ n.env = m.env /\ n.kept = m.kept
        /\ \A o \in Objects : n.heap[o] = IF \E x \in xs : m.env[x] = o THEN "freed"
                                          ELSE m.heap[o]
    BY <1>1, <1>2, <1>4, FreedIs
  <2>2. Held(m, S)
    BY <2>1 DEF Snug
  <2>3. Held(n, S \ xs)
    <3> SUFFICES ASSUME NEW o \in Objects, n.heap[o] = "live"
                 PROVE  o \in n.kept \/ \E x \in S \ xs : n.env[x] = o
      BY DEF Held
    <3>1. ~(\E x \in xs : m.env[x] = o) /\ m.heap[o] = "live"
      BY <2>1
    <3> QED BY <2>1, <2>2, <3>1 DEF Held
  <2> QED BY <1>1, <1>2, <2>3 DEF Snug
<1> QED BY <1>3, <1>4

LEMMA SnugFree ==
  ASSUME NEW m, NEW S \in SUBSET Locals, Snug(m, S), NEW x \in Locals
  PROVE  Snug(Exec(m, Dealloc(x)), S \ {x})
<1>1. CASE m.fault # "none"
  BY <1>1, ExecFaulty, SnugFaulty DEF Snug
<1>2. CASE m.fault = "none"
  <2>1. Exec(m, Dealloc(x)) = Freed(m, {x})
    BY <1>2 DEF Exec, Dealloc
  <2> QED BY <2>1, SnugFreed
<1> QED BY <1>1, <1>2

\* A read that goes wrong leaves a fault.
LEMMA ReadBlamed ==
  ASSUME NEW m \in Memory, NEW i \in Instructions, m.fault = "none",
         i.op \notin {"alloc", "free"}, ReadFault(m, m.env[i.from]) # "none"
  PROVE  Exec(m, i) \in Memory /\ Exec(m, i).fault # "none"
<1>1. PICK f : f = ReadFault(m, m.env[i.from]) OBVIOUS
<1>2. Exec(m, i) = Blame(m, f)
  BY <1>1 DEF Exec
<1>3. m.env[i.from] \in {Nil, Junk} \cup Objects
  BY MemoryParts DEF Instructions
<1>4. f \in Faults
  BY <1>1, <1>3, ReadFaultIs
<1> QED BY <1>1, <1>2, <1>4, BlameIs

LEMMA SnugAssign ==
  ASSUME NEW m, NEW S \in SUBSET Locals, Snug(m, S),
         NEW d \in Locals \ S, NEW s \in Locals \ {d}
  PROVE  Snug(Exec(m, Assign(d, s)), (S \ {s}) \cup {d})
<1>1. PICK n : n = Exec(m, Assign(d, s)) OBVIOUS
<1>2. m \in Memory
  BY DEF Snug
<1>3. CASE m.fault # "none"
  BY <1>2, <1>3, ExecFaulty, SnugFaulty
<1>4. CASE m.fault = "none" /\ ReadFault(m, m.env[s]) # "none"
  <2>1. /\ Assign(d, s) \in Instructions /\ Assign(d, s).from = s
        /\ Assign(d, s).op \notin {"alloc", "free"}
    BY DEF Assign, Instructions, Ops
  <2> QED BY <1>2, <1>4, <2>1, ReadBlamed, SnugFaulty
<1>5. CASE m.fault = "none" /\ ReadFault(m, m.env[s]) = "none"
  <2>1. Wrote(n, m, d, m.env[s])
    BY <1>1, <1>5 DEF Exec, Assign, Wrote
  <2>2. m.env[s] \in {Nil, Junk} \cup Objects
    BY <1>2, MemoryParts
  <2>3. /\ n \in Memory /\ n.heap = m.heap /\ n.kept = m.kept
        /\ n.env[d] = m.env[s] /\ \A y \in Locals \ {d} : n.env[y] = m.env[y]
    BY <1>2, <2>1, <2>2, StoreIs
  <2>4. Held(m, S)
    BY <1>5 DEF Snug
  <2>5. Held(n, (S \ {s}) \cup {d})
    BY <2>3, <2>4 DEF Held
  <2> QED BY <1>1, <2>3, <2>5 DEF Snug
<1> QED BY <1>3, <1>4, <1>5

LEMMA SnugMove ==
  ASSUME NEW m, NEW S \in SUBSET Locals, Snug(m, S),
         NEW d \in Locals \ S, NEW s \in Locals \ {d}
  PROVE  Snug(Exec(m, Move(d, s)), (S \ {s}) \cup {d})
<1>1. PICK n : n = Exec(m, Move(d, s)) OBVIOUS
<1>2. m \in Memory
  BY DEF Snug
<1>3. CASE m.fault # "none"
  BY <1>2, <1>3, ExecFaulty, SnugFaulty
<1>4. CASE m.fault = "none" /\ ReadFault(m, m.env[s]) # "none"
  <2>1. /\ Move(d, s) \in Instructions /\ Move(d, s).from = s
        /\ Move(d, s).op \notin {"alloc", "free"}
    BY DEF Move, Instructions, Ops
  <2> QED BY <1>2, <1>4, <2>1, ReadBlamed, SnugFaulty
<1>5. CASE m.fault = "none" /\ ReadFault(m, m.env[s]) = "none"
  <2>1. Moved(n, m, d, s)
    BY <1>1, <1>5 DEF Exec, Move, Moved
  <2>3. /\ n \in Memory /\ n.heap = m.heap /\ n.kept = m.kept
        /\ n.env[d] = m.env[s] /\ \A y \in Locals \ {d, s} : n.env[y] = m.env[y]
    BY <1>2, <2>1, MoveIs
  <2>4. Held(m, S)
    BY <1>5 DEF Snug
  <2>5. Held(n, (S \ {s}) \cup {d})
    BY <2>3, <2>4 DEF Held
  <2> QED BY <1>1, <2>3, <2>5 DEF Snug
<1> QED BY <1>3, <1>4, <1>5

LEMMA SnugGive ==
  ASSUME NEW m, NEW S \in SUBSET Locals, Snug(m, S), NEW x \in Locals, NEW how \in GivingOps
  PROVE  Snug(Exec(m, Give(x, how)), S \ {x})
<1>0. how \notin {"alloc", "free", "assign", "move"}
  BY DEF GivingOps
<1>1. PICK n : n = Exec(m, Give(x, how)) OBVIOUS
<1>2. m \in Memory
  BY DEF Snug
<1>3. CASE m.fault # "none"
  BY <1>2, <1>3, ExecFaulty, SnugFaulty
<1>4. CASE m.fault = "none" /\ ReadFault(m, m.env[x]) # "none"
  <2>1. /\ Give(x, how) \in Instructions /\ Give(x, how).from = x
        /\ Give(x, how).op \notin {"alloc", "free"}
    BY <1>0, InstructionsAre DEF Give
  <2> QED BY <1>2, <1>4, <2>1, ReadBlamed, SnugFaulty
<1>5. CASE m.fault = "none" /\ ReadFault(m, m.env[x]) = "none"
  <2>1. Kept(n, m, m.env[x])
    BY <1>0, <1>1, <1>5 DEF Exec, Give, Kept
  <2>2. m.env[x] \in Objects
    BY <1>2, <1>5, MemoryParts, ReadFaultIs
  <2>3. n \in Memory /\ n.heap = m.heap /\ n.env = m.env /\ n.kept = m.kept \cup {m.env[x]}
    BY <1>2, <2>1, <2>2, KeepIs
  <2>4. Held(m, S)
    BY <1>5 DEF Snug
  <2>5. Held(n, S \ {x})
    BY <2>3, <2>4 DEF Held
  <2> QED BY <1>1, <2>3, <2>5 DEF Snug
<1> QED BY <1>3, <1>4, <1>5

LEMMA CarriesOne ==
  ASSUME NEW i \in Instructions, NEW S, NEW T,
         \A m : Snug(m, S) => Snug(Exec(m, i), T)
  PROVE  Carries(<<i>>, S, T)
<1> SUFFICES ASSUME NEW f, Snug(f[0], S), Steps(f, <<i>>)
             PROVE  Snug(f[1], T)
  BY DEF Carries
<1>1. f[1] = Exec(f[0], i)
  BY DEF Steps
<1> QED BY <1>1

LEMMA CarriesTwo ==
  ASSUME NEW i \in Instructions, NEW j \in Instructions, NEW S, NEW T, NEW U,
         Carries(<<i>>, S, T), Carries(<<j>>, T, U)
  PROVE  Carries(<<i, j>>, S, U)
<1> SUFFICES ASSUME NEW f, Snug(f[0], S), Steps(f, <<i, j>>)
             PROVE  Snug(f[2], U)
  BY DEF Carries
<1>1. f[1] = Exec(f[0], i) /\ f[2] = Exec(f[1], j)
  BY DEF Steps
<1>2. Snug(f[1], T)
  <2>1. Steps(f, <<i>>)
    BY <1>1 DEF Steps
  <2> QED BY <2>1 DEF Carries
<1>3. PICK g : g = [k \in 0 .. 1 |-> f[k + 1]] OBVIOUS
<1>4. g[0] = f[1] /\ g[1] = f[2]
  BY <1>3
<1>5. Steps(g, <<j>>)
  BY <1>1, <1>4 DEF Steps
<1>6. Snug(g[1], U)
  BY <1>2, <1>4, <1>5 DEF Carries
<1> QED BY <1>4, <1>6

LEMMA CarriesMore ==
  ASSUME NEW is, NEW S, NEW T, Carries(is, S, T), NEW U, T \subseteq U
  PROVE  Carries(is, S, U)
BY SnugMore DEF Carries

LEMMA CarriesNothing ==
  ASSUME NEW S
  PROVE  Carries(<<>>, S, S)
BY DEF Carries

LEMMA OwnInstructions ==
  ASSUME NEW x \in Locals
  PROVE  /\ Alloc(x) \in Instructions /\ Dealloc(x) \in Instructions
         /\ \A y \in Locals : Assign(x, y) \in Instructions /\ Move(x, y) \in Instructions
         /\ \A how \in GivingOps : Give(x, how) \in Instructions
BY DEF Alloc, Dealloc, Assign, Move, Give, Instructions, Ops

LEMMA CarriesAlloc ==
  ASSUME NEW S \in SUBSET Locals, NEW x \in Locals \ S
  PROVE  Carries(<<Alloc(x)>>, S, S \cup {x})
<1>1. PICK i : i = Alloc(x) OBVIOUS
<1>2. i \in Instructions
  BY <1>1, OwnInstructions
<1> QED BY <1>1, <1>2, SnugAlloc, CarriesOne

LEMMA CarriesFree ==
  ASSUME NEW S \in SUBSET Locals, NEW x \in Locals
  PROVE  Carries(<<Dealloc(x)>>, S, S \ {x})
<1>1. PICK i : i = Dealloc(x) OBVIOUS
<1>2. i \in Instructions
  BY <1>1, OwnInstructions
<1> QED BY <1>1, <1>2, SnugFree, CarriesOne

LEMMA CarriesAssign ==
  ASSUME NEW S \in SUBSET Locals, NEW d \in Locals \ S, NEW s \in Locals \ {d}
  PROVE  Carries(<<Assign(d, s)>>, S, (S \ {s}) \cup {d})
<1>1. PICK i : i = Assign(d, s) OBVIOUS
<1>2. i \in Instructions
  BY <1>1, OwnInstructions
<1> QED BY <1>1, <1>2, SnugAssign, CarriesOne

LEMMA CarriesMove ==
  ASSUME NEW S \in SUBSET Locals, NEW d \in Locals \ S, NEW s \in Locals \ {d}
  PROVE  Carries(<<Move(d, s)>>, S, (S \ {s}) \cup {d})
<1>1. PICK i : i = Move(d, s) OBVIOUS
<1>2. i \in Instructions
  BY <1>1, OwnInstructions
<1> QED BY <1>1, <1>2, SnugMove, CarriesOne

LEMMA CarriesGive ==
  ASSUME NEW S \in SUBSET Locals, NEW x \in Locals, NEW how \in GivingOps
  PROVE  Carries(<<Give(x, how)>>, S, S \ {x})
<1>1. PICK i : i = Give(x, how) OBVIOUS
<1>2. i \in Instructions
  BY <1>1, OwnInstructions
<1> QED BY <1>1, <1>2, SnugGive, CarriesOne

\* Where the lowerer frees first, or knows that there is nothing to free.
LEMMA CarriesPrior ==
  ASSUME NEW x \in Locals, NEW i \in Instructions, NEW S \in SUBSET Locals,
         x \in S => x \in inited, NEW T, Carries(<<i>>, S \ {x}, T)
  PROVE  Carries(FreePrior(x) \o <<i>>, S, T)
<1>1. PICK d : d = Dealloc(x) OBVIOUS
<1>2. d \in Instructions
  BY <1>1, OwnInstructions
<1>3. FreePrior(x) \o <<i>> = IF x \in inited THEN <<d, i>> ELSE <<i>>
  BY <1>1, PriorIs
<1>4. CASE x \in inited
  <2>1. Carries(<<d>>, S, S \ {x})
    BY <1>1, CarriesFree
  <2>2. Carries(<<d, i>>, S, T)
    BY <1>2, <2>1, CarriesTwo
  <2> QED BY <1>3, <1>4, <2>2
<1>5. CASE x \notin inited
  <2>1. S \ {x} = S
    BY <1>5
  <2> QED BY <1>3, <1>5, <2>1
<1> QED BY <1>4, <1>5

LEMMA CarriesGrow ==
  ASSUME NEW bs \in Seq(Blocks), NEW new, NEW b \in DOMAIN bs, NEW is \in Seq(Instructions),
         Grows(new, bs, b, is), NEW S, NEW T, NEW U,
         Carries(bs[b].ins, S, T), Carries(is, T, U)
  PROVE  Carries(new[b].ins, S, U)
<1> DEFINE L == Len(bs[b].ins)
           M == Len(is)
<1>0. L \in Nat /\ M \in Nat /\ DOMAIN bs[b].ins = 1 .. L /\ DOMAIN is = 1 .. M
  BY BlockParts
<1>1. Len(new[b].ins) = L + M
  BY DEF Grows
<1> SUFFICES ASSUME NEW f, Snug(f[0], S), Steps(f, new[b].ins)
             PROVE  Snug(f[L + M], U)
  BY <1>1 DEF Carries
<1>2. Snug(f[L], T)
  <2>1. Steps(f, bs[b].ins)
    <3> SUFFICES ASSUME NEW j \in 1 .. L PROVE f[j] = Exec(f[j - 1], bs[b].ins[j])
      BY DEF Steps
    <3>1. j \in 1 .. L + M
      BY <1>0
    <3>2. f[j] = Exec(f[j - 1], new[b].ins[j])
      BY <1>1, <3>1 DEF Steps
    <3>3. new[b].ins[j] = bs[b].ins[j]
      BY <1>0 DEF Grows
    <3> QED BY <3>2, <3>3
  <2> QED BY <2>1 DEF Carries
<1>3. PICK g : g = [j \in 0 .. M |-> f[L + j]] OBVIOUS
<1>4. Steps(g, is)
  <2> SUFFICES ASSUME NEW j \in 1 .. M PROVE g[j] = Exec(g[j - 1], is[j])
    BY DEF Steps
  <2>1. L + j \in 1 .. L + M /\ (L + j) - 1 = L + (j - 1) /\ j - 1 \in 0 .. M /\ j \in 0 .. M
    BY <1>0
  <2>2. f[L + j] = Exec(f[(L + j) - 1], new[b].ins[L + j])
    BY <1>1, <2>1 DEF Steps
  <2>3. new[b].ins[L + j] = is[j]
    BY <1>0 DEF Grows
  <2> HIDE DEF L, M
  <2> QED BY <1>3, <2>1, <2>2, <2>3
<1>5. g[0] = f[L] /\ g[M] = f[L + M]
  <2> HIDE DEF L, M
  <2> QED BY <1>0, <1>3
<1>6. Snug(g[M], U)
  BY <1>2, <1>4, <1>5 DEF Carries
<1> QED BY <1>5, <1>6

\* A block that clears and frees nothing at its edges.
LEMMA SnugBlock ==
  ASSUME NEW m, NEW S \in SUBSET Locals, NEW b \in Blocks, b.clears = {}, b.frees = {},
         Snug(m, S), NEW T \in SUBSET Locals, Carries(b.ins, S, T)
  PROVE  Snug(Executed(m, b), T)
<1>1. Len(b.ins) \in Nat
  BY DEF Blocks
<1>2. PICK f : /\ f[0] = Cleared(m, b.clears)
               /\ \A i \in 1 .. Len(b.ins) : f[i] = Exec(f[i - 1], b.ins[i])
               /\ Executed(m, b) = Cleared(Freed(f[Len(b.ins)], b.frees), b.frees)
  BY <1>1, ExecutedIs
<1>3. ASSUME NEW n, NEW R, Snug(n, R) PROVE Snug(Cleared(n, {}), R)
  <2>1. PICK c : c = Cleared(n, {}) OBVIOUS
  <2>2. ClearedIn(c, n, {}) /\ n \in Memory
    BY <1>3, <2>1 DEF Cleared, ClearedIn, Snug
  <2>3. /\ c \in Memory /\ c.fault = n.fault /\ c.heap = n.heap /\ c.kept = n.kept
        /\ \A x \in Locals : c.env[x] = n.env[x]
    BY <2>2, ClearIs
  <2>4. c.env = n.env
    BY <2>2, <2>3, MemoryParts
  <2> QED BY <1>3, <2>1, <2>3, <2>4 DEF Snug, Held
<1>4. PICK last : last = f[Len(b.ins)] OBVIOUS
<1>5. Snug(f[0], S)
  BY <1>2, <1>3
<1>6. Snug(last, T)
  BY <1>2, <1>4, <1>5 DEF Carries, Steps
<1>7. Snug(Freed(last, {}), T \ {})
  BY <1>6, SnugFreed
<1>8. T \ {} = T OBVIOUS
<1> QED BY <1>2, <1>3, <1>4, <1>7, <1>8

LEMMA NextSays ==
  ASSUME Shape, [Next]_vars
  PROVE  \/ Statements \/ Starts \/ Elses \/ EndsIf \/ EndsLoop \/ Breaks \/ Returns
         \/ Finishes \/ InsertDrops \/ RunBlock \/ UNCHANGED vars
<1>1. CASE Let
  BY <1>1, LetIs, WriteIs DEF Statements, Let
<1>2. CASE LetFrom
  BY <1>2, LetFromIs, WriteIs DEF Statements, LetFrom
<1>3. CASE Set
  <2>1. open /\ frames' = frames
    BY <1>3, WriteIs DEF Set
  <2> QED BY <1>3, <2>1, SetIs DEF Statements
<1>4. CASE SetFrom
  BY <1>4, SetFromIs, WriteIs DEF Statements, SetFrom
<1>5. CASE HandOver
  <2>1. open
    BY <1>5, WriteIs DEF HandOver
  <2> QED BY <1>5, <2>1, HandOverIs DEF Statements
<1>6. CASE If \/ While \/ Loop
  BY <1>6, IfIs, WhileIs, LoopIs DEF Starts
<1>7. CASE Else \/ EndIf \/ EndLoop
  BY <1>7, ElseIs, EndIfIs, EndLoopIs
<1>8. CASE BreakOrContinue
  BY <1>8, BreakOrContinueIs DEF Breaks
<1>9. CASE ReturnEarly
  <2>1. open /\ open' = FALSE
    BY <1>9, WriteIs DEF ReturnEarly, JumpWith
  <2> QED BY <1>9, <2>1, ReturnEarlyIs DEF Returns
<1>10. CASE EndBody
  <2>1. PICK x \in Readable \cup {0} :
          (~open => x = 0) /\ blocks' = Close(blocks, cur, Return(x))
    BY <1>10 DEF EndBody
  <2>2. /\ phase = "lower" /\ frames = <<>> /\ phase' = "elaborate"
        /\ UNCHANGED <<fragment, returns, cur, frames, declared, visible, moved,
                   inited, open, spent, drops, running>>
    BY <1>10 DEF EndBody
  <2>3. blocks' \in Seq(Blocks) /\ Opens(blocks', blocks, cur, Return(x), {}, <<>>)
    BY <2>1, <2>2, JustClosed, ReturnedValue
  <2>4. spent' \in 0 .. MaxStatements
    BY <2>2 DEF Shape, StateTypes
  <2>5. Jumped(Return(x), {}, <<>>)
    BY <2>2, <2>3, <2>4, ReturnedValue DEF Jumped
  <2> QED BY <2>1, <2>2, <2>5 DEF Finishes
<1> QED BY <1>1, <1>2, <1>3, <1>4, <1>5, <1>6, <1>7, <1>8, <1>9, <1>10 DEF Next

\* No statement loses an object.
LEMMA StatementHolds ==
  ASSUME Shape, Statements
  PROVE  \E is : Emits(is) /\ Carries(is, Holders, Holders')
<1>0. /\ Movable \subseteq Locals /\ Settable \subseteq Locals /\ Holders \subseteq Locals
      /\ Movable \subseteq 1 .. declared /\ inited \subseteq 1 .. declared
      /\ moved \subseteq 1 .. declared /\ declared \in Nat
  BY ReadFacts, ShapeFacts DEF Holders
<1>1. CASE Lets
  <2>1. PICK x : x = declared + 1 OBVIOUS
  <2>2. x \in Locals /\ Emits(<<Alloc(x)>>) /\ inited' = inited \cup {x} /\ moved' = moved
    BY <1>1, <2>1 DEF Lets, Declares
  <2>3. x \notin inited /\ x \notin moved
    BY <1>0, <2>1
  <2>4. Carries(<<Alloc(x)>>, Holders, Holders \cup {x})
    BY <1>0, <2>2, <2>3, CarriesAlloc DEF Holders
  <2>5. Holders' = Holders \cup {x}
    BY <2>2, <2>3 DEF Holders
  <2> QED BY <2>2, <2>4, <2>5
<1>2. ASSUME NEW y \in Movable, LetsFrom(y)
      PROVE  \E is : Emits(is) /\ Carries(is, Holders, Holders')
  <2>1. PICK x : x = declared + 1 OBVIOUS
  <2>2. /\ x \in Locals /\ Emits(<<Move(x, y)>>) /\ inited' = inited \cup {x}
        /\ moved' = moved \cup {y}
    BY <1>2, <2>1 DEF LetsFrom, Declares
  <2>3. x \notin inited /\ x \notin moved /\ x # y /\ y \in Locals
    BY <1>0, <2>1
  <2>4. Carries(<<Move(x, y)>>, Holders, (Holders \ {y}) \cup {x})
    BY <1>0, <2>2, <2>3, CarriesMove DEF Holders
  <2>5. Holders' = (Holders \ {y}) \cup {x}
    BY <2>2, <2>3 DEF Holders
  <2> QED BY <2>2, <2>4, <2>5
<1>3. ASSUME NEW x \in Settable, Sets(x)
      PROVE  \E is : Emits(is) /\ Carries(is, Holders, Holders')
  <2>1. PICK i : i = Alloc(x) OBVIOUS
  <2>2. /\ Emits(FreePrior(x) \o <<i>>) /\ moved' = moved \ {x} /\ inited' = inited \cup {x}
    BY <1>3, <2>1 DEF Sets
  <2>3. x \in Locals /\ i \in Instructions
    BY <1>0, <2>1, OwnInstructions
  <2>4. Carries(<<i>>, Holders \ {x}, (Holders \ {x}) \cup {x})
    BY <1>0, <2>1, <2>3, CarriesAlloc
  <2>5. Holders' = (Holders \ {x}) \cup {x}
    BY <2>2 DEF Holders
  <2>6. Carries(FreePrior(x) \o <<i>>, Holders, Holders')
    BY <1>0, <2>3, <2>4, <2>5, CarriesPrior DEF Holders
  <2> QED BY <2>2, <2>6
<1>4. ASSUME NEW x \in Settable, NEW y \in Movable, SetsFrom(x, y)
      PROVE  \E is : Emits(is) /\ Carries(is, Holders, Holders')
  <2>1. PICK i : i = Assign(x, y) OBVIOUS
  <2>2. /\ Emits(FreePrior(x) \o <<i>>) /\ x # y
        /\ moved' = (moved \ {x}) \cup {y} /\ inited' = inited \cup {x}
    BY <1>4, <2>1 DEF SetsFrom
  <2>3. x \in Locals /\ y \in Locals /\ i \in Instructions
    BY <1>0, <2>1, OwnInstructions
  <2>4. Carries(<<i>>, Holders \ {x}, ((Holders \ {x}) \ {y}) \cup {x})
    BY <1>0, <2>1, <2>2, <2>3, CarriesAssign
  <2>5. Holders' = ((Holders \ {x}) \ {y}) \cup {x}
    BY <2>2 DEF Holders
  <2>6. Carries(FreePrior(x) \o <<i>>, Holders, Holders')
    BY <1>0, <2>3, <2>4, <2>5, CarriesPrior DEF Holders
  <2> QED BY <2>2, <2>6
<1>5. ASSUME NEW how \in GivingOps, NEW x \in Movable, Gives(x, how)
      PROVE  \E is : Emits(is) /\ Carries(is, Holders, Holders')
  <2>1. /\ Emits(<<Give(x, how)>>)
        /\ moved' = IF how = "store" THEN moved ELSE moved \cup {x}
        /\ inited' = IF how \in {"push", "spawn"} THEN inited \ {x} ELSE inited
    BY <1>5 DEF Gives
  <2>2. x \in Locals
    BY <1>0
  <2>3. Carries(<<Give(x, how)>>, Holders, Holders \ {x})
    BY <1>0, <2>2, CarriesGive
  <2>4. Holders \ {x} \subseteq Holders'
    BY <2>1 DEF Holders
  <2>5. Carries(<<Give(x, how)>>, Holders, Holders')
    BY <2>3, <2>4, CarriesMore
  <2> QED BY <2>1, <2>5
<1> QED BY <1>1, <1>2, <1>3, <1>4, <1>5 DEF Statements

-----------------------------------------------------------------------------
(* What drop elaboration keeps of a block without branches *)

LEMMA FitsInstruction ==
  ASSUME NEW s, NEW own, NEW lost, Fits(s, own, lost), NEW i \in Instructions
  PROVE  /\ i.op = "alloc" /\ i.to \notin lost => Fits(Track(s, i), own \cup {i.to}, lost)
         /\ i.op \in {"assign", "move"} /\ i.to \notin lost /\ i.from \in own /\ i.from # i.to
              => Fits(Track(s, i), (own \ {i.from}) \cup {i.to}, lost \cup {i.from})
         /\ i.op \in GivingOps => Fits(Track(s, i), own \ {i.from}, lost \cup {i.from})
         /\ i.op = "free" => Fits(Track(s, i), own, lost)
<1>0. s \in Owners /\ own \subseteq s.rooted /\ s.tainted \subseteq lost
  BY DEF Fits
<1>1. PICK r : r = Track(s, i) OBVIOUS
<1>2. r \in Owners
  BY <1>0, <1>1, TrackIs
<1>3. i.to \notin lost => Rooted(s, i.to) = s.rooted \cup {i.to}
  BY <1>0 DEF Rooted
<1>4. CASE i.op = "alloc" /\ i.to \notin lost
  <2>1. r.rooted = Rooted(s, i.to) /\ r.tainted = s.tainted
    BY <1>0, <1>1, <1>4, TrackIs
  <2>2. Fits(r, own \cup {i.to}, lost)
    BY <1>0, <1>2, <1>3, <1>4, <2>1 DEF Fits
  <2> QED BY <1>1, <1>4, <2>2 DEF GivingOps
<1>5. CASE i.op \in {"assign", "move"} /\ i.to \notin lost /\ i.from \in own /\ i.from # i.to
  <2>1. r.rooted = Rooted(s, i.to) \ {i.from} /\ r.tainted = s.tainted \cup {i.from}
    BY <1>0, <1>1, <1>5, TrackIs
  <2>2. Fits(r, (own \ {i.from}) \cup {i.to}, lost \cup {i.from})
    BY <1>0, <1>2, <1>3, <1>5, <2>1 DEF Fits
  <2> QED BY <1>1, <1>5, <2>2 DEF GivingOps
<1>6. CASE i.op \in GivingOps
  <2>1. r.rooted = s.rooted \ {i.from} /\ r.tainted = s.tainted \cup {i.from}
    BY <1>0, <1>1, <1>6, TrackIs
  <2>2. Fits(r, own \ {i.from}, lost \cup {i.from})
    BY <1>0, <1>2, <2>1 DEF Fits
  <2> QED BY <1>1, <1>6, <2>2 DEF GivingOps
<1>7. CASE i.op = "free"
  <2>1. r = s
    BY <1>0, <1>1, <1>7, TrackIs
  <2> QED BY <1>1, <1>7, <2>1 DEF GivingOps
<1> QED BY <1>4, <1>5, <1>6, <1>7

LEMMA TracksOne ==
  ASSUME NEW i \in Instructions, NEW own, NEW lost, NEW own2, NEW lost2,
         \A s : Fits(s, own, lost) => Fits(Track(s, i), own2, lost2)
  PROVE  Tracks(<<i>>, own, lost, own2, lost2)
<1> SUFFICES ASSUME NEW f, Fits(f[0], own, lost), Follows(f, <<i>>)
             PROVE  Fits(f[1], own2, lost2)
  BY DEF Tracks
<1>1. f[1] = Track(f[0], i)
  BY DEF Follows
<1> QED BY <1>1

LEMMA TracksTwo ==
  ASSUME NEW i \in Instructions, NEW j \in Instructions, NEW own, NEW lost,
         NEW own1, NEW lost1, NEW own2, NEW lost2,
         Tracks(<<i>>, own, lost, own1, lost1), Tracks(<<j>>, own1, lost1, own2, lost2)
  PROVE  Tracks(<<i, j>>, own, lost, own2, lost2)
<1> SUFFICES ASSUME NEW f, Fits(f[0], own, lost), Follows(f, <<i, j>>)
             PROVE  Fits(f[2], own2, lost2)
  BY DEF Tracks
<1>1. f[1] = Track(f[0], i) /\ f[2] = Track(f[1], j)
  BY DEF Follows
<1>2. Fits(f[1], own1, lost1)
  <2>1. Follows(f, <<i>>)
    BY <1>1 DEF Follows
  <2> QED BY <2>1 DEF Tracks
<1>3. PICK g : g = [k \in 0 .. 1 |-> f[k + 1]] OBVIOUS
<1>4. g[0] = f[1] /\ g[1] = f[2]
  BY <1>3
<1>5. Follows(g, <<j>>)
  BY <1>1, <1>4 DEF Follows
<1>6. Fits(g[1], own2, lost2)
  BY <1>2, <1>4, <1>5 DEF Tracks
<1> QED BY <1>4, <1>6

LEMMA TracksGrow ==
  ASSUME NEW bs \in Seq(Blocks), NEW new, NEW b \in DOMAIN bs, NEW is \in Seq(Instructions),
         Grows(new, bs, b, is), NEW own, NEW lost, NEW own1, NEW lost1, NEW own2, NEW lost2,
         Tracks(bs[b].ins, own, lost, own1, lost1), Tracks(is, own1, lost1, own2, lost2)
  PROVE  Tracks(new[b].ins, own, lost, own2, lost2)
<1> DEFINE L == Len(bs[b].ins)
           M == Len(is)
<1>0. L \in Nat /\ M \in Nat /\ DOMAIN bs[b].ins = 1 .. L /\ DOMAIN is = 1 .. M
  BY BlockParts
<1>1. Len(new[b].ins) = L + M
  BY DEF Grows
<1> SUFFICES ASSUME NEW f, Fits(f[0], own, lost), Follows(f, new[b].ins)
             PROVE  Fits(f[L + M], own2, lost2)
  BY <1>1 DEF Tracks
<1>2. Fits(f[L], own1, lost1)
  <2>1. Follows(f, bs[b].ins)
    <3> SUFFICES ASSUME NEW j \in 1 .. L PROVE f[j] = Track(f[j - 1], bs[b].ins[j])
      BY DEF Follows
    <3>1. j \in 1 .. L + M
      BY <1>0
    <3>2. f[j] = Track(f[j - 1], new[b].ins[j])
      BY <1>1, <3>1 DEF Follows
    <3>3. new[b].ins[j] = bs[b].ins[j]
      BY <1>0 DEF Grows
    <3> QED BY <3>2, <3>3
  <2> QED BY <2>1 DEF Tracks
<1>3. PICK g : g = [j \in 0 .. M |-> f[L + j]] OBVIOUS
<1>4. Follows(g, is)
  <2> SUFFICES ASSUME NEW j \in 1 .. M PROVE g[j] = Track(g[j - 1], is[j])
    BY DEF Follows
  <2>1. L + j \in 1 .. L + M /\ (L + j) - 1 = L + (j - 1) /\ j - 1 \in 0 .. M /\ j \in 0 .. M
    BY <1>0
  <2>2. f[L + j] = Track(f[(L + j) - 1], new[b].ins[L + j])
    BY <1>1, <2>1 DEF Follows
  <2>3. new[b].ins[L + j] = is[j]
    BY <1>0 DEF Grows
  <2> HIDE DEF L, M
  <2> QED BY <1>3, <2>1, <2>2, <2>3
<1>5. g[0] = f[L] /\ g[M] = f[L + M]
  <2> HIDE DEF L, M
  <2> QED BY <1>0, <1>3
<1>6. Fits(g[M], own2, lost2)
  BY <1>2, <1>4, <1>5 DEF Tracks
<1> QED BY <1>5, <1>6

\* The free before a store does not change who owns what.
LEMMA TracksPrior ==
  ASSUME NEW x \in Locals, NEW i \in Instructions, NEW own, NEW lost, NEW own2, NEW lost2,
         Tracks(<<i>>, own, lost, own2, lost2)
  PROVE  Tracks(FreePrior(x) \o <<i>>, own, lost, own2, lost2)
<1>1. PICK d : d = Dealloc(x) OBVIOUS
<1>2. d \in Instructions /\ d.op = "free"
  BY <1>1, OwnInstructions DEF Dealloc
<1>3. FreePrior(x) \o <<i>> = IF x \in inited THEN <<d, i>> ELSE <<i>>
  BY <1>1, PriorIs
<1>4. Tracks(<<d>>, own, lost, own, lost)
  BY <1>2, TracksOne, FitsInstruction
<1>5. Tracks(<<d, i>>, own, lost, own2, lost2)
  BY <1>2, <1>4, TracksTwo
<1> QED BY <1>3, <1>5

LEMMA OutsideLoops ==
  ASSUME frames = <<>>
  PROVE  /\ ~InLoop /\ Movable = Readable
         /\ \A what : May(what) <=> what \in fragment.outside
         /\ "revive" \notin fragment.outside => Settable = Readable
<1>1. ~InLoop
  BY DEF InLoop, LoopDepths
<1> QED BY <1>1 DEF May, Movable, Settable

\* Where no moved local is set again, drop elaboration keeps the owners.
LEMMA StatementFits ==
  ASSUME Shape, Statements, frames = <<>>, Disciplined(fragment),
         "revive" \notin fragment.outside, visible \ moved \subseteq inited
  PROVE  /\ \E is : /\ Emits(is) /\ Tracks(is, Holders, moved, Holders', moved')
                    /\ \A j \in DOMAIN is : is[j].op \in TakingOps => is[j].from \in moved'
         /\ moved \subseteq moved'
<1> DEFINE Goal == /\ \E is : /\ Emits(is) /\ Tracks(is, Holders, moved, Holders', moved')
                              /\ \A j \in DOMAIN is :
                                   is[j].op \in TakingOps => is[j].from \in moved'
                   /\ moved \subseteq moved'
<1>0. /\ Movable \subseteq Locals /\ Settable \subseteq Locals
      /\ inited \subseteq 1 .. declared /\ moved \subseteq 1 .. declared /\ declared \in Nat
      /\ Movable \subseteq Holders /\ Settable \subseteq Holders /\ Holders \cap moved = {}
      /\ ~May("store")
  <2>1. Movable = Readable /\ Settable = Readable
    BY OutsideLoops
  <2> QED BY <2>1, ReadFacts, ShapeFacts, MayFacts DEF Holders, Readable
<1>1. CASE Lets
  <2>1. PICK i : i = Alloc(declared + 1) OBVIOUS
  <2>2. PICK x : x = declared + 1 OBVIOUS
  <2>3. /\ Emits(<<i>>) /\ inited' = inited \cup {x} /\ moved' = moved
        /\ i.op = "alloc" /\ i.to = x /\ x \in Locals /\ i \in Instructions
    BY <1>1, <2>1, <2>2, OwnInstructions DEF Lets, Declares, Alloc
  <2>4. x \notin inited /\ x \notin moved
    BY <1>0, <2>2
  <2>5. Tracks(<<i>>, Holders, moved, Holders \cup {x}, moved)
    BY <2>3, <2>4, TracksOne, FitsInstruction
  <2>6. Holders' = Holders \cup {x}
    BY <2>3, <2>4 DEF Holders
  <2>7. \A j \in DOMAIN <<i>> : <<i>>[j].op \notin TakingOps
    BY <2>3, OnlyOne DEF TakingOps
  <2>8. Tracks(<<i>>, Holders, moved, Holders', moved')
    BY <2>3, <2>5, <2>6
  <2> QED BY <2>3, <2>7, <2>8
<1>2. ASSUME NEW y \in Movable, LetsFrom(y)
      PROVE  Goal
  <2>1. PICK i : i = Move(declared + 1, y) OBVIOUS
  <2>2. PICK x : x = declared + 1 OBVIOUS
  <2>3. /\ Emits(<<i>>) /\ inited' = inited \cup {x} /\ moved' = moved \cup {y}
        /\ i.op = "move" /\ i.to = x /\ i.from = y /\ x \in Locals /\ y \in Locals
        /\ i \in Instructions
    BY <1>0, <1>2, <2>1, <2>2, OwnInstructions DEF LetsFrom, Declares, Move
  <2>4. x \notin inited /\ x \notin moved /\ y \in Holders /\ y # x
    BY <1>0, <2>2 DEF Holders
  <2>5. Tracks(<<i>>, Holders, moved, (Holders \ {y}) \cup {x}, moved \cup {y})
    BY <2>3, <2>4, TracksOne, FitsInstruction
  <2>6. Holders' = (Holders \ {y}) \cup {x}
    BY <2>3, <2>4 DEF Holders
  <2>7. \A j \in DOMAIN <<i>> : <<i>>[j].from = y
    BY <2>3, OnlyOne
  <2>8. Tracks(<<i>>, Holders, moved, Holders', moved')
    BY <2>3, <2>5, <2>6
  <2> QED BY <2>3, <2>7, <2>8
<1>3. ASSUME NEW x \in Settable, Sets(x)
      PROVE  Goal
  <2>1. PICK i : i = Alloc(x) OBVIOUS
  <2>2. PICK is : is = FreePrior(x) \o <<i>> OBVIOUS
  <2>3. /\ Emits(is) /\ inited' = inited \cup {x} /\ moved' = moved \ {x}
        /\ i.op = "alloc" /\ i.to = x /\ x \in Locals /\ i \in Instructions
    BY <1>0, <1>3, <2>1, <2>2, OwnInstructions DEF Sets, Alloc
  <2>4. x \in Holders /\ x \notin moved
    BY <1>0
  <2>5. Tracks(<<i>>, Holders, moved, Holders \cup {x}, moved)
    BY <2>3, <2>4, TracksOne, FitsInstruction
  <2>6. Holders' = Holders \cup {x} /\ moved' = moved
    BY <2>3, <2>4 DEF Holders
  <2>7. Tracks(is, Holders, moved, Holders', moved')
    BY <2>2, <2>3, <2>5, <2>6, TracksPrior
  <2>8. \A j \in DOMAIN is : is[j].op \notin TakingOps
    <3>1. Dealloc(x).op = "free"
      BY DEF Dealloc
    <3>2. \A j \in DOMAIN is : is[j] = i \/ is[j] = Dealloc(x)
      BY <2>2, <2>3, AfterPrior
    <3> QED BY <2>3, <3>1, <3>2 DEF TakingOps
  <2> QED BY <2>3, <2>6, <2>7, <2>8
<1>4. ASSUME NEW x \in Settable, NEW y \in Movable, SetsFrom(x, y)
      PROVE  Goal
  <2>1. PICK i : i = Assign(x, y) OBVIOUS
  <2>2. PICK is : is = FreePrior(x) \o <<i>> OBVIOUS
  <2>3. /\ Emits(is) /\ inited' = inited \cup {x} /\ moved' = (moved \ {x}) \cup {y}
        /\ i.op = "assign" /\ i.to = x /\ i.from = y /\ x \in Locals /\ y \in Locals /\ x # y
        /\ i \in Instructions
    BY <1>0, <1>4, <2>1, <2>2, OwnInstructions DEF SetsFrom, Assign
  <2>4. x \in Holders /\ x \notin moved /\ y \in Holders
    BY <1>0
  <2>5. Tracks(<<i>>, Holders, moved, (Holders \ {y}) \cup {x}, moved \cup {y})
    BY <2>3, <2>4, TracksOne, FitsInstruction
  <2>6. Holders' = (Holders \ {y}) \cup {x} /\ moved' = moved \cup {y}
    BY <2>3, <2>4 DEF Holders
  <2>7. Tracks(is, Holders, moved, Holders', moved')
    BY <2>2, <2>3, <2>5, <2>6, TracksPrior
  <2>8. \A j \in DOMAIN is : is[j].op \in TakingOps => is[j].from = y
    <3>1. Dealloc(x).op = "free"
      BY DEF Dealloc
    <3>2. \A j \in DOMAIN is : is[j] = i \/ is[j] = Dealloc(x)
      BY <2>2, <2>3, AfterPrior
    <3> QED BY <2>3, <3>1, <3>2 DEF TakingOps
  <2> QED BY <2>3, <2>6, <2>7, <2>8
<1>5. ASSUME NEW how \in GivingOps, NEW x \in Movable, Gives(x, how)
      PROVE  Goal
  <2>1. PICK i : i = Give(x, how) OBVIOUS
  <2>2. how # "store"
    BY <1>0, <1>5 DEF Gives
  <2>3. /\ Emits(<<i>>) /\ moved' = moved \cup {x}
        /\ inited' = IF how \in {"push", "spawn"} THEN inited \ {x} ELSE inited
        /\ i.op \in GivingOps /\ i.from = x /\ x \in Locals /\ i \in Instructions
    BY <1>0, <1>5, <2>1, <2>2, OwnInstructions DEF Gives, Give
  <2>4. Tracks(<<i>>, Holders, moved, Holders \ {x}, moved \cup {x})
    BY <2>3, TracksOne, FitsInstruction
  <2>5. Holders' = Holders \ {x}
    BY <2>3 DEF Holders
  <2>6. \A j \in DOMAIN <<i>> : <<i>>[j].from = x
    BY <2>3, OnlyOne
  <2>7. Tracks(<<i>>, Holders, moved, Holders', moved')
    BY <2>3, <2>4, <2>5
  <2> QED BY <2>3, <2>6, <2>7
<1> QED BY <1>1, <1>2, <1>3, <1>4, <1>5 DEF Statements

LEMMA EvenInit ==
  ASSUME Init
  PROVE  Even
<1>1. /\ blocks = <<NewBlock>> /\ cur = 1 /\ frames = <<>> /\ declared = 0
      /\ visible = {} /\ moved = {} /\ inited = {}
  BY DEF Init
<1>2. blocks[1] = NewBlock /\ Len(blocks) = 1
  BY <1>1
<1>3. blocks[1].ins = <<>> /\ blocks[1].clears = {} /\ blocks[1].frees = {}
  BY <1>2, NewBlockIs
<1>4. Holders = {}
  BY <1>1 DEF Holders
<1>5. Carries(<<>>, {}, {})
  BY CarriesNothing
<1>6. Tracks(<<>>, {}, {}, {}, {})
  BY DEF Tracks
<1>7. DOMAIN blocks[1].ins = {}
  BY <1>3
<1>8. visible = 1 .. declared
  BY <1>1
<1> QED BY <1>1, <1>2, <1>3, <1>4, <1>5, <1>6, <1>7, <1>8 DEF Even, Level

\* A jump that is not a return.
LEMMA EvenJumped ==
  ASSUME Shape, NEW t, NEW xs, NEW more, Jumped(t, xs, more), t.kind \notin {"return", "unreachable"}
  PROVE  Even'
<1>1. blocks'[cur].term = t /\ cur \in DOMAIN blocks'
  <2>1. PICK n : n = Len(blocks) OBVIOUS
  <2>2. /\ cur \in 1 .. n /\ n \in Nat /\ Len(more) \in Nat
        /\ DOMAIN blocks' = 1 .. n + Len(more) /\ blocks'[cur].term = t
    BY <2>1, JumpedBlocks
  <2> QED BY <2>2
<1>2. ~Flat'
  BY <1>1 DEF Flat
<1> QED BY <1>2 DEF Even

LEMMA EvenBranches ==
  ASSUME Shape, Starts \/ Elses \/ EndsIf \/ EndsLoop \/ Breaks
  PROVE  Even'
<1>1. CASE Starts
  <2>1. PICK n \in {Len(blocks)} : Ifs(n) \/ Whiles(n) \/ Loops(n)
    BY <1>1 DEF Starts
  <2>2. n \in Nat
    BY ShapeFacts
  <2>3. /\ Branch(n + 1, n + 2).kind = "branch" /\ Goto(n + 1).kind = "goto"
    BY DEF Branch, Goto
  <2> QED BY <2>1, <2>3, EvenJumped DEF Ifs, Whiles, Loops, Opening
<1>2. CASE Elses \/ EndsIf
  <2>1. Goto(Top.exit).kind = "goto"
    BY DEF Goto
  <2> QED BY <1>2, <2>1, EvenJumped DEF Elses, EndsIf
<1>3. CASE EndsLoop
  <2>1. /\ cur \in DOMAIN blocks' /\ blocks'[cur].term = Goto(Top.target)
        /\ Goto(Top.target).kind = "goto"
    BY <1>3, ShapeFacts DEF EndsLoop, Goto
  <2>2. ~Flat'
    BY <2>1 DEF Flat
  <2> QED BY <2>2 DEF Even
<1>4. CASE Breaks
  <2>1. PICK b : Leaves(Goto(b), Innermost.locals)
    BY <1>4 DEF Breaks
  <2>2. Goto(b).kind = "goto"
    BY DEF Goto
  <2> QED BY <2>1, <2>2, EvenJumped DEF Leaves
<1> QED BY <1>1, <1>2, <1>3, <1>4

LEMMA EvenStatements ==
  ASSUME Shape, Disciplined(fragment), Even, Statements
  PROVE  Even'
<1> SUFFICES ASSUME Flat' PROVE Level'
  BY DEF Even
<1>1. PICK is : Emits(is) /\ Carries(is, Holders, Holders')
  BY StatementHolds
<1>2. /\ phase = "lower" /\ phase' = phase /\ cur' = cur /\ open' = open /\ fragment' = fragment
      /\ is \in Seq(Instructions) /\ Grows(blocks', blocks, cur, is)
      /\ blocks' \in Seq(Blocks) /\ Relisted(frames', frames) /\ frames' \in Seq(Frames)
  BY <1>1 DEF Emits
<1>3. /\ DOMAIN blocks' = DOMAIN blocks
      /\ \A b \in DOMAIN blocks : /\ blocks'[b].term = blocks[b].term
                                  /\ blocks'[b].clears = blocks[b].clears
                                  /\ blocks'[b].frees = blocks[b].frees
  BY <1>2 DEF Grows
<1>4. Level
  <2>1. Flat
    BY <1>3 DEF Flat
  <2> QED BY <2>1 DEF Even
<1>5. Len(blocks) = 1 /\ cur = 1 /\ 1 \in DOMAIN blocks /\ open
  BY <1>2, <1>4, ShapeFacts DEF Level, Statements
<1>6. Len(blocks') = 1
  BY <1>2, <1>3, <1>5, ShapeFacts
<1>7. frames' = <<>>
  <2>1. DOMAIN frames' = {}
    BY <1>2, <1>4 DEF Relisted, Level
  <2> QED BY <1>2, <2>1
<1>8. Carries(blocks'[1].ins, {}, Holders')
  BY <1>1, <1>2, <1>4, <1>5, CarriesGrow, ShapeFacts DEF Level
<1>9. visible' = 1 .. declared' /\ visible' \ moved' \subseteq inited'
  <2>1. declared \in Nat /\ visible = 1 .. declared /\ visible \ moved \subseteq inited
    BY <1>4, ShapeFacts DEF Level
  <2>2. CASE Lets \/ \E y \in Movable : LetsFrom(y)
    <3>1. Declares /\ moved \subseteq moved'
      BY <2>2 DEF Lets, LetsFrom
    <3>2. /\ declared' = declared + 1 /\ visible' = visible \cup {declared'}
          /\ inited' = inited \cup {declared'}
      BY <3>1 DEF Declares
    <3>3. 1 .. declared + 1 = (1 .. declared) \cup {declared + 1}
      BY <2>1
    <3> QED BY <2>1, <3>1, <3>2, <3>3
  <2>3. ASSUME NEW x, Sets(x) \/ (\E y \in Movable : SetsFrom(x, y))
        PROVE  visible' = 1 .. declared' /\ visible' \ moved' \subseteq inited'
    <3>1. /\ declared' = declared /\ visible' = visible /\ inited' = inited \cup {x}
          /\ moved \ {x} \subseteq moved'
      BY <2>3 DEF Sets, SetsFrom, Declared
    <3> QED BY <2>1, <3>1
  <2>4. ASSUME NEW x, NEW how, Gives(x, how)
        PROVE  visible' = 1 .. declared' /\ visible' \ moved' \subseteq inited'
    <3>1. /\ declared' = declared /\ visible' = visible
          /\ moved' = IF how = "store" THEN moved ELSE moved \cup {x}
          /\ inited' = IF how \in {"push", "spawn"} THEN inited \ {x} ELSE inited
      BY <2>4 DEF Gives, Declared
    <3> QED BY <2>1, <3>1
  <2> QED BY <2>2, <2>3, <2>4 DEF Statements
<1>10. "revive" \notin fragment'.outside =>
         /\ Tracks(blocks'[1].ins, {}, {}, Holders', moved')
         /\ \A j \in DOMAIN blocks'[1].ins :
              blocks'[1].ins[j].op \in TakingOps => blocks'[1].ins[j].from \in moved'
  <2> SUFFICES ASSUME "revive" \notin fragment.outside
               PROVE  /\ Tracks(blocks'[1].ins, {}, {}, Holders', moved')
                      /\ \A j \in DOMAIN blocks'[1].ins :
                           blocks'[1].ins[j].op \in TakingOps => blocks'[1].ins[j].from \in moved'
    BY <1>2
  <2>1. frames = <<>> /\ visible \ moved \subseteq inited
    BY <1>4 DEF Level
  <2>2. moved \subseteq moved'
    BY <2>1, StatementFits
  <2>3. PICK js : /\ Emits(js) /\ Tracks(js, Holders, moved, Holders', moved')
                  /\ \A j \in DOMAIN js : js[j].op \in TakingOps => js[j].from \in moved'
    BY <2>1, StatementFits
  <2>4. js \in Seq(Instructions) /\ Grows(blocks', blocks, 1, js)
    BY <1>5, <2>3 DEF Emits
  <2>5. Tracks(blocks[1].ins, {}, {}, Holders, moved)
        /\ \A j \in DOMAIN blocks[1].ins :
             blocks[1].ins[j].op \in TakingOps => blocks[1].ins[j].from \in moved
    BY <1>4 DEF Level
  <2>6. Tracks(blocks'[1].ins, {}, {}, Holders', moved')
    BY <1>5, <2>3, <2>4, <2>5, TracksGrow, ShapeFacts
  <2>7. PICK old : old = blocks[1].ins OBVIOUS
  <2>8. PICK new : new = blocks'[1].ins OBVIOUS
  <2>9. /\ Len(old) \in Nat /\ Len(js) \in Nat /\ DOMAIN old = 1 .. Len(old)
        /\ DOMAIN js = 1 .. Len(js) /\ Len(new) = Len(old) + Len(js)
        /\ DOMAIN new = 1 .. Len(new)
    BY <1>2, <1>5, <1>6, <2>4, <2>7, <2>8, BlockParts, ShapeFacts DEF Grows
  <2>10. /\ \A j \in DOMAIN old : new[j] = old[j]
         /\ \A j \in DOMAIN js : new[Len(old) + j] = js[j]
    BY <2>4, <2>7, <2>8 DEF Grows
  <2>11. \A j \in DOMAIN new : j \in DOMAIN old \/ j - Len(old) \in DOMAIN js
    BY <2>9
  <2>12. ASSUME NEW j \in DOMAIN new, new[j].op \in TakingOps PROVE new[j].from \in moved'
    <3>1. CASE j \in DOMAIN old
      BY <2>2, <2>5, <2>7, <2>10, <2>12, <3>1
    <3>2. CASE j - Len(old) \in DOMAIN js
      <4>1. PICK k : k = j - Len(old) OBVIOUS
      <4>2. k \in DOMAIN js /\ j = Len(old) + k
        BY <2>9, <3>2, <4>1
      <4> QED BY <2>3, <2>10, <2>12, <4>2
    <3> QED BY <2>11, <3>1, <3>2
  <2> QED BY <2>6, <2>8, <2>12
<1> QED BY <1>2, <1>3, <1>4, <1>5, <1>6, <1>7, <1>8, <1>9, <1>10 DEF Level

\* The blocks and what is known of the locals stay.
LEMMA LevelKept ==
  ASSUME Level, UNCHANGED <<fragment, frames, declared, visible, moved, inited>>,
         Len(blocks') \in {1, 2}, blocks'[1].ins = blocks[1].ins,
         blocks'[1].clears = {}, blocks'[1].frees = {},
         phase' = "lower" => cur' = Len(blocks') /\ (open' => cur' = 1),
         Len(blocks') = 2 => /\ ~open' /\ blocks'[2].ins = <<>> /\ blocks'[2].clears = {}
                             /\ blocks'[2].frees = {} /\ blocks'[2].term.value = 0
  PROVE  Level'
<1>1. Holders' = Holders
  BY DEF Holders
<1>2. Carries(blocks'[1].ins, {}, Holders')
  BY <1>1 DEF Level
<1>3. "revive" \notin fragment'.outside =>
       /\ Tracks(blocks'[1].ins, {}, {}, Holders', moved')
       /\ \A j \in DOMAIN blocks'[1].ins :
            blocks'[1].ins[j].op \in TakingOps => blocks'[1].ins[j].from \in moved'
  BY <1>1 DEF Level
<1>4. frames' = <<>> /\ visible' = 1 .. declared' /\ visible' \ moved' \subseteq inited'
  BY DEF Level
<1> QED BY <1>2, <1>3, <1>4 DEF Level

LEMMA EvenReturns ==
  ASSUME Shape, Even, Returns
  PROVE  Even'
<1> SUFFICES ASSUME Flat' PROVE Level'
  BY DEF Even
<1>1. PICK x \in Readable \cup {0} : Leaves(Return(x), {})
  BY DEF Returns
<1>2. PICK n : n = Len(blocks) OBVIOUS
<1>3. PICK more : more = <<NewBlock>> OBVIOUS
<1>4. /\ Jumped(Return(x), {}, more) /\ cur' = n + 1 /\ Len(more) = 1 /\ more[1] = NewBlock
      /\ UNCHANGED <<phase, frames, visible, moved, fragment, declared, inited>>
  BY <1>1, <1>2, <1>3, Openings DEF Leaves, Jumped
<1>5. /\ phase = "lower" /\ n \in Nat /\ cur \in 1 .. n /\ DOMAIN blocks = 1 .. n
      /\ blocks' \in Seq(Blocks) /\ DOMAIN blocks' = 1 .. n + 1
      /\ blocks'[cur].term = Return(x) /\ blocks'[cur].frees = {}
      /\ \A b \in 1 .. n : /\ blocks'[b].ins = blocks[b].ins
                           /\ blocks'[b].clears = blocks[b].clears
                           /\ b # cur => /\ blocks'[b].term = blocks[b].term
                                         /\ blocks'[b].frees = blocks[b].frees
      /\ \A b \in 1 .. n + 1 : b \notin 1 .. n => blocks'[b] = more[b - n]
  <2>1. PICK t : t = Return(x) OBVIOUS
  <2>4. PICK xs : xs = {} OBVIOUS
  <2>2. Jumped(t, xs, more)
    BY <1>4, <2>1, <2>4
  <2>3. /\ phase = "lower" /\ n \in Nat /\ cur \in 1 .. n /\ DOMAIN blocks = 1 .. n
        /\ blocks' \in Seq(Blocks) /\ DOMAIN blocks' = 1 .. n + Len(more)
        /\ blocks'[cur].term = t /\ blocks'[cur].frees = xs
        /\ \A b \in 1 .. n : /\ blocks'[b].ins = blocks[b].ins
                             /\ blocks'[b].clears = blocks[b].clears
                             /\ b # cur => /\ blocks'[b].term = blocks[b].term
                                           /\ blocks'[b].frees = blocks[b].frees
        /\ \A b \in 1 .. n + Len(more) : b \notin 1 .. n =>
             b - n \in 1 .. Len(more) /\ blocks'[b] = more[b - n]
    BY <1>2, <2>2, JumpedBlocks
  <2> QED BY <1>4, <2>1, <2>3, <2>4
<1>6. Flat
  <2> SUFFICES ASSUME NEW b \in 1 .. n PROVE blocks[b].term.kind \in {"return", "unreachable"}
    BY <1>5 DEF Flat
  <2>1. CASE b = cur
    BY <1>5, <2>1, Unfreed DEF Unreachable
  <2>2. CASE b # cur
    <3>1. b \in DOMAIN blocks'
      BY <1>5
    <3> QED BY <1>5, <2>2, <3>1 DEF Flat
  <2> QED BY <2>1, <2>2
<1>7. Level
  BY <1>6 DEF Even
<1>8. n = 1 /\ cur = 1 /\ ~open'
  BY <1>2, <1>5, <1>7 DEF Level, Returns
<1>9. Len(blocks') = 2
  BY <1>5, <1>8
<1>10. blocks'[2] = NewBlock
  BY <1>4, <1>5, <1>8
<1>11. /\ blocks'[2].ins = <<>> /\ blocks'[2].clears = {} /\ blocks'[2].frees = {}
       /\ blocks'[2].term.value = 0
  BY <1>10, NewBlockIs DEF Unreachable
<1>12. blocks'[1].ins = blocks[1].ins /\ blocks'[1].clears = {} /\ blocks'[1].frees = {}
  BY <1>5, <1>7, <1>8 DEF Level
<1> QED BY <1>4, <1>7, <1>8, <1>9, <1>11, <1>12, LevelKept

LEMMA EvenFinishes ==
  ASSUME Shape, Even, Finishes
  PROVE  Even'
<1> SUFFICES ASSUME Flat' PROVE Level'
  BY DEF Even
<1>1. PICK x \in Readable \cup {0} : (~open => x = 0) /\ Jumped(Return(x), {}, <<>>)
  BY DEF Finishes
<1>2. PICK t : t = Return(x) OBVIOUS
<1>3. /\ blocks' \in Seq(Blocks) /\ DOMAIN blocks' = DOMAIN blocks /\ cur \in DOMAIN blocks
      /\ blocks'[cur].term = t /\ blocks'[cur].frees = {} /\ phase = "lower"
      /\ \A b \in DOMAIN blocks : /\ blocks'[b].ins = blocks[b].ins
                                  /\ blocks'[b].clears = blocks[b].clears
                                  /\ b # cur => /\ blocks'[b].term = blocks[b].term
                                                /\ blocks'[b].frees = blocks[b].frees
  BY <1>1, <1>2, JumpedOnly
<1>4. UNCHANGED <<fragment, frames, declared, visible, moved, inited, open>>
      /\ phase' = "elaborate"
  BY <1>1 DEF Jumped, Finishes
<1>5. Flat
  <2> SUFFICES ASSUME NEW b \in DOMAIN blocks
               PROVE  blocks[b].term.kind \in {"return", "unreachable"}
    BY DEF Flat
  <2>1. CASE b = cur
    BY <1>3, <2>1, Unfreed DEF Unreachable
  <2>2. CASE b # cur
    BY <1>3, <2>2 DEF Flat
  <2> QED BY <2>1, <2>2
<1>6. Level
  BY <1>5 DEF Even
<1>7. Len(blocks') = Len(blocks) /\ Len(blocks) \in {1, 2} /\ cur = Len(blocks)
      /\ DOMAIN blocks = 1 .. Len(blocks)
  BY <1>3, <1>6, ShapeFacts DEF Level
<1>8. 1 \in DOMAIN blocks
  BY <1>7
<1>9. blocks'[1].ins = blocks[1].ins /\ blocks'[1].clears = {} /\ blocks'[1].frees = {}
  BY <1>3, <1>6, <1>8 DEF Level
<1>10. ASSUME Len(blocks) = 2
       PROVE  /\ ~open' /\ blocks'[2].ins = <<>> /\ blocks'[2].clears = {}
              /\ blocks'[2].frees = {} /\ blocks'[2].term.value = 0
  <2>1. cur = 2 /\ 2 \in DOMAIN blocks /\ ~open
    BY <1>6, <1>7, <1>10 DEF Level
  <2>2. t.value = 0
    BY <1>1, <1>2, <2>1 DEF Return
  <2> QED BY <1>3, <1>4, <1>6, <1>10, <2>1, <2>2 DEF Level
<1> QED BY <1>4, <1>6, <1>7, <1>9, <1>10, LevelKept

LEMMA EvenSame ==
  ASSUME Even,
         UNCHANGED <<blocks, fragment, frames, declared, visible, moved, inited, open, cur>>,
         phase' = "lower" => phase = "lower"
  PROVE  Even'
<1> SUFFICES ASSUME Flat' PROVE Level'
  BY DEF Even
<1>1. Level
  BY DEF Even, Flat
<1> QED BY <1>1, LevelKept DEF Level

-----------------------------------------------------------------------------
(* What drop elaboration frees *)

LEMMA AllDefinedInit ==
  ASSUME Init
  PROVE  AllDefined
<1>1. declared = 0
  BY DEF Init
<1> QED BY <1>1 DEF AllDefined

LEMMA AllDefinedGrows ==
  ASSUME Shape, Ordered, AllDefined, Statements
  PROVE  AllDefined'
<1>1. PICK is : Emits(is)
  BY StatementHolds
<1>2. /\ cur \in DOMAIN blocks /\ cur' = cur /\ is \in Seq(Instructions)
      /\ Grows(blocks', blocks, cur, is) /\ blocks' \in Seq(Blocks)
      /\ blocks \in Seq(Blocks)
  BY <1>1, ShapeFacts DEF Emits
<1>3. Len(blocks') = Len(blocks) /\ Len(blocks) \in Nat /\ cur \in 1 .. Len(blocks)
  BY <1>2, ShapeFacts DEF Grows
<1>4. \A c : Defined(blocks, c) \subseteq Defined(blocks', c)
  <2> SUFFICES ASSUME NEW c, NEW x \in Defined(blocks, c) PROVE x \in Defined(blocks', c)
    OBVIOUS
  <2>1. PICK b \in DOMAIN blocks : \E j \in DOMAIN blocks[b].ins :
               b <= c /\ Defines(blocks, b, j, x)
    BY DEF Defined
  <2>2. PICK j \in DOMAIN blocks[b].ins : b <= c /\ Defines(blocks, b, j, x)
    BY <2>1
  <2>3. j \in DOMAIN blocks'[b].ins /\ blocks'[b].ins[j] = blocks[b].ins[j]
    <3>1. CASE b = cur
      <4>1. /\ blocks[b].ins \in Seq(Instructions) /\ blocks'[b].ins \in Seq(Instructions)
            /\ Len(blocks'[b].ins) = Len(blocks[b].ins) + Len(is)
            /\ Len(is) \in Nat
        BY <1>2, <3>1, BlockParts DEF Grows
      <4> QED BY <1>2, <3>1, <4>1 DEF Grows
    <3>2. CASE b # cur
      BY <1>2, <3>2 DEF Grows
    <3> QED BY <3>1, <3>2
  <2>4. b \in DOMAIN blocks' /\ x \in Locals
    BY <1>2 DEF Grows, Defined
  <2> QED BY <2>2, <2>3, <2>4 DEF Defined, Defines
<1>5. CASE declared' = declared
  BY <1>3, <1>4, <1>5 DEF AllDefined
<1>6. CASE Lets \/ \E y \in Movable : LetsFrom(y)
  <2>1. Declares
    BY <1>6 DEF Lets, LetsFrom
  <2>2. declared' = declared + 1 /\ declared' \in visible' /\ declared \in Nat
    BY <2>1, ShapeFacts DEF Declares
  <2>3. Ordered' /\ phase' = "lower"
    <3>1. Ordered'
      BY <1>6, OrderedStatement
    <3> QED BY <1>1, <3>1 DEF Emits
  <2>4. declared' \in Defined(blocks', cur)
    BY <1>2, <2>2, <2>3 DEF Ordered
  <2>5. declared' \in Defined(blocks', Len(blocks))
    BY <1>2, <1>3, <2>4, DefinedLater
  <2>6. 1 .. declared + 1 = (1 .. declared) \cup {declared + 1}
    BY <2>2
  <2> QED BY <1>3, <1>4, <2>2, <2>5, <2>6 DEF AllDefined
<1>7. \/ declared' = declared
      \/ Lets \/ \E y \in Movable : LetsFrom(y)
  BY DEF Statements, Sets, SetsFrom, Gives, Declared
<1> QED BY <1>5, <1>6, <1>7

\* What the other steps leave of it: nothing is declared or taken away.
LEMMA AllDefinedKept ==
  ASSUME AllDefined, declared' = declared, Len(blocks) \in Nat, Len(blocks') \in Nat,
         DOMAIN blocks = 1 .. Len(blocks), DOMAIN blocks' = 1 .. Len(blocks'),
         Len(blocks) <= Len(blocks'),
         \A b \in DOMAIN blocks : blocks'[b].ins = blocks[b].ins
  PROVE  AllDefined'
<1>1. Defined(blocks, Len(blocks)) \subseteq Defined(blocks', Len(blocks'))
  <2> SUFFICES ASSUME NEW x \in Defined(blocks, Len(blocks))
               PROVE  x \in Defined(blocks', Len(blocks'))
    OBVIOUS
  <2>1. PICK b \in DOMAIN blocks : \E j \in DOMAIN blocks[b].ins : Defines(blocks, b, j, x)
    BY DEF Defined
  <2>2. PICK j \in DOMAIN blocks[b].ins : Defines(blocks, b, j, x)
    BY <2>1
  <2>3. b \in DOMAIN blocks' /\ b <= Len(blocks') /\ j \in DOMAIN blocks'[b].ins
        /\ Defines(blocks', b, j, x) /\ x \in Locals
    BY <2>2 DEF Defines, Defined
  <2> QED BY <2>3 DEF Defined
<1> QED BY <1>1 DEF AllDefined

LEMMA RootsTracks ==
  ASSUME NEW s, NEW defined, NEW E, Roots(s, defined, E), NEW i \in Instructions,
         i.op \notin {"alloc", "free"} => {i.from, i.to} \subseteq E
  PROVE  Roots(Track(s, i), defined \cup (IF i.op \in Defining THEN {i.to} ELSE {}), E)
<1>0. s \in Owners /\ s.tainted \subseteq E /\ defined \subseteq s.rooted \cup E
  BY DEF Roots
<1>1. PICK r : r = Track(s, i) OBVIOUS
<1>2. r \in Owners /\ i.op \in Ops
  BY <1>0, <1>1, TrackIs DEF Instructions
<1>3. s.rooted \subseteq Rooted(s, i.to) /\ i.to \in Rooted(s, i.to) \cup s.tainted
  BY DEF Rooted
<1>4. /\ r.tainted \subseteq E /\ s.rooted \subseteq r.rooted \cup E
      /\ i.op \in Defining => i.to \in r.rooted \cup E
  <2>1. CASE i.op = "alloc"
    <3>1. r.rooted = Rooted(s, i.to) /\ r.tainted = s.tainted
      BY <1>0, <1>1, <2>1, TrackIs
    <3> QED BY <1>0, <1>3, <3>1
  <2>2. CASE i.op \in {"assign", "move"} /\ i.from \in s.rooted
    <3>1. r.rooted = Rooted(s, i.to) \ {i.from} /\ r.tainted = s.tainted \cup {i.from}
      BY <1>0, <1>1, <2>2, TrackIs
    <3> QED BY <1>0, <1>3, <2>2, <3>1
  <2>3. CASE i.op \in {"assign", "move"} /\ i.from \notin s.rooted
    <3>1. r.rooted = s.rooted \ {i.to} /\ r.tainted = s.tainted \cup {i.to}
      BY <1>0, <1>1, <2>3, TrackIs
    <3> QED BY <1>0, <2>3, <3>1
  <2>4. CASE i.op \in GivingOps
    <3>1. r.rooted = s.rooted \ {i.from} /\ r.tainted = s.tainted \cup {i.from}
      BY <1>0, <1>1, <2>4, TrackIs
    <3>2. i.op \notin Defining /\ i.op \notin {"alloc", "free"}
      BY <2>4 DEF Defining, GivingOps
    <3> QED BY <1>0, <3>1, <3>2
  <2>5. CASE i.op = "free"
    <3>1. r = s /\ i.op \notin Defining
      BY <1>0, <1>1, <2>5, TrackIs DEF Defining
    <3> QED BY <1>0, <3>1
  <2> QED BY <1>2, <2>1, <2>2, <2>3, <2>4, <2>5 DEF Ops
<1>5. defined \cup (IF i.op \in Defining THEN {i.to} ELSE {}) \subseteq r.rooted \cup E
  BY <1>0, <1>4
<1> QED BY <1>1, <1>2, <1>4, <1>5 DEF Roots

LEMMA RootsLess ==
  ASSUME NEW s, NEW defined, NEW E, Roots(s, defined, E), NEW less \in SUBSET defined
  PROVE  Roots(s, less, E)
BY DEF Roots

LEMMA RootsTaints ==
  ASSUME NEW s, NEW defined, NEW E, Roots(s, defined, E), NEW xs \in SUBSET Locals, xs \subseteq E
  PROVE  Roots(TaintAll(s, xs), defined, E)
<1>1. s \in Owners /\ s.tainted \subseteq E /\ defined \subseteq s.rooted \cup E
  BY DEF Roots
<1>2. PICK r : r = TaintAll(s, xs) OBVIOUS
<1>3. r \in Owners /\ r.rooted = s.rooted \ xs /\ r.tainted = s.tainted \cup xs
  BY <1>1, <1>2, OwnersAre
<1> QED BY <1>1, <1>2, <1>3 DEF Roots

LEMMA RootsBlock ==
  ASSUME NEW bs \in Seq(Blocks), NEW b \in DOMAIN bs, NEW E, Confined(bs[b], E),
         NEW s, Roots(s, Earlier(bs, b, 1), E)
  PROVE  Roots(TrackBlock(s, bs[b]), Earlier(bs, b + 1, 1), E)
<1>1. PICK c : c = bs[b] OBVIOUS
<1>2. /\ c \in Blocks /\ c.ins \in Seq(Instructions) /\ Len(c.ins) \in Nat
      /\ DOMAIN c.ins = 1 .. Len(c.ins) /\ c.clears \subseteq Locals /\ c.frees \subseteq Locals
      /\ c.clears \subseteq E /\ c.frees \subseteq E
  BY <1>1, BlockParts DEF Confined
<1>3. PICK f \in [0 .. Len(c.ins) -> Owners] :
           /\ f[0] = TaintAll(s, c.clears)
           /\ \A i \in 1 .. Len(c.ins) : f[i] = Track(f[i - 1], c.ins[i])
           /\ TrackBlock(s, c) = TaintAll(f[Len(c.ins)], c.frees)
  BY <1>2, TrackBlockIs DEF Roots
<1> DEFINE Done(k) == k \in 0 .. Len(c.ins) => Roots(f[k], Earlier(bs, b, k + 1), E)
           K == {k \in Nat : Done(k)}
<1>4. 0 \in K
  BY <1>2, <1>3, RootsTaints
<1>5. ASSUME NEW k \in Nat, k \in K PROVE k + 1 \in K
  <2> SUFFICES ASSUME k + 1 \in 0 .. Len(c.ins)
               PROVE  Roots(f[k + 1], Earlier(bs, b, (k + 1) + 1), E)
    OBVIOUS
  <2>1. PICK i : i = k + 1 OBVIOUS
  <2>2. i \in 1 .. Len(c.ins) /\ i - 1 = k /\ k \in 0 .. Len(c.ins)
    BY <1>2, <2>1
  <2>3. PICK ins : ins = c.ins[i] OBVIOUS
  <2>4. ins \in Instructions
    BY <1>2, <2>2, <2>3
  <2>5. Roots(f[k], Earlier(bs, b, i), E)
    BY <1>5, <2>1, <2>2
  <2>6. ins.op \notin {"alloc", "free"} => {ins.from, ins.to} \subseteq E
    BY <1>1, <1>2, <2>2, <2>3 DEF Confined
  <2>7. Roots(Track(f[k], ins), Earlier(bs, b, i) \cup (IF ins.op \in Defining THEN {ins.to} ELSE {}), E)
    BY <2>4, <2>5, <2>6, RootsTracks
  <2>8. f[i] = Track(f[k], ins)
    BY <1>3, <2>2, <2>3
  <2>9. Earlier(bs, b, i + 1) \subseteq
              Earlier(bs, b, i) \cup (IF ins.op \in Defining THEN {ins.to} ELSE {})
    BY <1>1, <1>2, <2>2, <2>3, PlaceNext
  <2>10. Roots(f[i], Earlier(bs, b, i + 1), E)
    BY <2>7, <2>8, <2>9, RootsLess
  <2> QED BY <2>1, <2>10
<1> HIDE DEF K
<1>6. Len(c.ins) \in K
  BY <1>2, <1>4, <1>5, NatIn
<1>7. Roots(f[Len(c.ins)], Earlier(bs, b, Len(c.ins) + 1), E)
  BY <1>2, <1>6 DEF K
<1>8. Roots(f[Len(c.ins)], Earlier(bs, b + 1, 1), E)
  BY <1>1, <1>7, PlaceBlock, RootsLess
<1>9. Roots(TrackBlock(s, c), Earlier(bs, b + 1, 1), E)
  BY <1>2, <1>3, <1>8, RootsTaints
<1> QED BY <1>1, <1>9

LEMMA EntangledWithin ==
  \A b \in DOMAIN blocks : Confined(blocks[b], Entangled)
<1> DEFINE Touched == {{i.from, i.to} : i \in {j \in Body : j.op \notin {"alloc", "free"}}}
           Edges == {blocks[b].clears \cup blocks[b].frees : b \in DOMAIN blocks}
<1>1. \A b \in DOMAIN blocks : blocks[b].clears \cup blocks[b].frees \in Edges
  OBVIOUS
<1>2. \A i \in Body : i.op \notin {"alloc", "free"} => {i.from, i.to} \in Touched
  OBVIOUS
<1>3. Entangled = ReturnAliases \cup (UNION Touched) \cup (UNION Edges)
  BY Zenon DEF Entangled
<1> HIDE DEF Touched, Edges
<1> SUFFICES ASSUME NEW b \in DOMAIN blocks PROVE Confined(blocks[b], Entangled)
  OBVIOUS
<1>4. blocks[b].clears \cup blocks[b].frees \subseteq Entangled
  BY <1>1, <1>3
<1>5. ASSUME NEW j \in DOMAIN blocks[b].ins, blocks[b].ins[j].op \notin {"alloc", "free"}
      PROVE  {blocks[b].ins[j].from, blocks[b].ins[j].to} \subseteq Entangled
  <2>1. PICK i : i = blocks[b].ins[j] OBVIOUS
  <2>2. i \in Body
    BY <2>1 DEF Body, Range
  <2> QED BY <1>2, <1>3, <1>5, <2>1, <2>2
<1> QED BY <1>4, <1>5 DEF Confined

\* A local that only ever holds its own objects is dropped.
LEMMA UntangledDropped ==
  ASSUME Shape, AllDefined
  PROVE  (1 .. declared) \ Entangled \subseteq DropLocals
<1>1. PICK bs : bs = blocks OBVIOUS
<1>2. PICK E : E = Entangled OBVIOUS
<1>3. bs \in Seq(Blocks) /\ DOMAIN bs = 1 .. Len(bs) /\ Len(bs) \in Nat
      /\ \A b \in DOMAIN bs : Confined(bs[b], E)
  BY <1>1, <1>2, ShapeFacts, EntangledWithin
<1>4. PICK f : /\ f[0] = [rooted |-> {}, tainted |-> {}]
               /\ \A b \in 1 .. Len(bs) : f[b] = TrackBlock(f[b - 1], bs[b])
               /\ DeallocSafe = f[Len(bs)].rooted
  BY <1>1, <1>3, DeallocSafeIs
<1> DEFINE Done(k) == k \in 0 .. Len(bs) => Roots(f[k], Earlier(bs, k + 1, 1), E)
           K == {k \in Nat : Done(k)}
<1>5. 0 \in K
  <2>1. Earlier(bs, 1, 1) = {}
    BY <1>3, PlaceBlock
  <2>2. PICK s : s = [rooted |-> {}, tainted |-> {}] OBVIOUS
  <2>3. s \in Owners /\ s.rooted = {} /\ s.tainted = {}
    BY <2>2 DEF Owners
  <2>4. Roots(s, {}, E)
    BY <2>3 DEF Roots
  <2>5. Roots(f[0], Earlier(bs, 1, 1), E)
    BY <1>4, <2>1, <2>2, <2>4
  <2>6. 0 + 1 = 1 OBVIOUS
  <2> QED BY <2>5, <2>6
<1>6. ASSUME NEW k \in Nat, k \in K PROVE k + 1 \in K
  <2> SUFFICES ASSUME k + 1 \in 0 .. Len(bs)
               PROVE  Roots(f[k + 1], Earlier(bs, (k + 1) + 1, 1), E)
    OBVIOUS
  <2>1. PICK b : b = k + 1 OBVIOUS
  <2>2. b \in 1 .. Len(bs) /\ b - 1 = k /\ k \in 0 .. Len(bs)
    BY <1>3, <2>1
  <2>3. Roots(f[k], Earlier(bs, b, 1), E)
    BY <1>6, <2>1, <2>2
  <2>4. f[b] = TrackBlock(f[k], bs[b])
    BY <1>4, <2>2
  <2>5. Roots(f[b], Earlier(bs, b + 1, 1), E)
    BY <1>3, <2>2, <2>3, <2>4, RootsBlock
  <2> QED BY <2>1, <2>5
<1> HIDE DEF K
<1>7. Len(bs) \in K
  BY <1>3, <1>5, <1>6, NatIn
<1>8. Earlier(bs, Len(bs) + 1, 1) \subseteq DeallocSafe \cup E
  BY <1>3, <1>4, <1>7 DEF K, Roots
<1>9. 1 .. declared \subseteq Earlier(bs, Len(bs) + 1, 1)
  <2>1. Defined(bs, Len(bs)) \subseteq Earlier(bs, Len(bs) + 1, 1)
    BY <1>3 DEF Defined, Earlier
  <2> QED BY <1>1, <2>1 DEF AllDefined
<1>10. ReturnAliases \subseteq E
  BY <1>2 DEF Entangled
<1>11. MovedToFfi \subseteq E
  <2> SUFFICES ASSUME NEW i \in Body, i.op = "spawn" PROVE i.from \in E
    BY DEF MovedToFfi
  <2>1. PICK b \in DOMAIN bs : i \in Range(bs[b].ins)
    BY <1>1 DEF Body
  <2>2. PICK j \in DOMAIN bs[b].ins : bs[b].ins[j] = i
    BY <2>1 DEF Range
  <2> QED BY <1>3, <2>1, <2>2 DEF Confined
<1> QED BY <1>2, <1>8, <1>9, <1>10, <1>11 DEF DropLocals

\* A body without branches, in which nothing moved is set again, drops what
\* is held, but for the value it returns.
LEMMA LevelDrops ==
  ASSUME Shape, Level, phase # "lower", "revive" \notin fragment.outside
  PROVE  Holders \ {blocks[1].term.value} \subseteq DropLocals
<1>1. PICK b1 : b1 = blocks[1] OBVIOUS
<1>2. PICK v : v = b1.term.value OBVIOUS
<1>3. /\ DOMAIN blocks = 1 .. Len(blocks) /\ Len(blocks) \in {1, 2} /\ blocks \in Seq(Blocks)
      /\ 1 \in DOMAIN blocks /\ moved \subseteq Locals /\ Holders \subseteq Locals
      /\ Holders \cap moved = {}
  BY ShapeFacts DEF Level, Holders
<1>4. b1 \in Blocks /\ Len(b1.ins) \in Nat /\ b1.clears = {} /\ b1.frees = {}
      /\ b1.term \in Jumps /\ v \in {0} \cup Locals
  <2>1. b1.term \in Jumps
    BY <1>1, <1>3 DEF Shape, Lowered
  <2> QED BY <1>1, <1>2, <1>3, <2>1, BlockParts DEF Level, Jumps
<1>5. PICK f : /\ f[0] = [rooted |-> {}, tainted |-> {}]
               /\ \A b \in 1 .. Len(blocks) : f[b] = TrackBlock(f[b - 1], blocks[b])
               /\ DeallocSafe = f[Len(blocks)].rooted
  BY <1>3, DeallocSafeIs
<1>6. Fits(f[0], {}, {})
  <2>1. PICK s : s = [rooted |-> {}, tainted |-> {}] OBVIOUS
  <2>2. s \in Owners /\ s.rooted = {} /\ s.tainted = {}
    BY <2>1 DEF Owners
  <2> QED BY <1>5, <2>1, <2>2 DEF Fits
<1>7. ASSUME NEW s \in Owners
      PROVE  LET r == TaintAll(s, {}) IN r \in Owners /\ r.rooted = s.rooted /\ r.tainted = s.tainted
  <2>1. PICK xs : xs = {} OBVIOUS
  <2>2. PICK r : r = TaintAll(s, xs) OBVIOUS
  <2>3. r \in Owners /\ r.rooted = s.rooted \ xs /\ r.tainted = s.tainted \cup xs
    BY <1>7, <2>1, <2>2, OwnersAre
  <2>4. r.rooted = s.rooted /\ r.tainted = s.tainted
    BY <2>1, <2>3
  <2> QED BY <2>1, <2>2, <2>3, <2>4
<1>8. f[1] = TrackBlock(f[0], b1)
  <2>1. 1 \in 1 .. Len(blocks) /\ 1 - 1 = 0
    BY <1>3
  <2> QED BY <1>1, <1>5, <2>1
<1>9. f[1] \in Owners /\ Holders \subseteq f[1].rooted
  <2>1. PICK g \in [0 .. Len(b1.ins) -> Owners] :
             /\ g[0] = TaintAll(f[0], {})
             /\ \A i \in 1 .. Len(b1.ins) : g[i] = Track(g[i - 1], b1.ins[i])
             /\ TrackBlock(f[0], b1) = TaintAll(g[Len(b1.ins)], {})
    <3>1. PICK g \in [0 .. Len(b1.ins) -> Owners] :
             /\ g[0] = TaintAll(f[0], b1.clears)
             /\ \A i \in 1 .. Len(b1.ins) : g[i] = Track(g[i - 1], b1.ins[i])
             /\ TrackBlock(f[0], b1) = TaintAll(g[Len(b1.ins)], b1.frees)
      BY <1>4, <1>6, TrackBlockIs DEF Fits
    <3> QED BY <1>4, <3>1
  <2>2. Fits(g[0], {}, {})
    BY <1>6, <1>7, <2>1 DEF Fits
  <2>3. Follows(g, b1.ins)
    BY <2>1 DEF Follows
  <2>4. Tracks(b1.ins, {}, {}, Holders, moved)
    BY <1>1 DEF Level
  <2>5. Fits(g[Len(b1.ins)], Holders, moved)
    BY <2>2, <2>3, <2>4 DEF Tracks
  <2> QED BY <1>7, <1>8, <2>1, <2>5 DEF Fits
<1>10. Holders \subseteq DeallocSafe
  <2>1. CASE Len(blocks) = 1
    BY <1>5, <1>9, <2>1
  <2>2. CASE Len(blocks) = 2
    <3>1. PICK b2 : b2 = blocks[2] OBVIOUS
    <3>2. b2 \in Blocks /\ b2.ins = <<>> /\ b2.clears = {} /\ b2.frees = {} /\ Len(b2.ins) = 0
      BY <1>3, <2>2, <3>1, BlockParts DEF Level
    <3>3. f[2] = TrackBlock(f[1], b2)
      <4>1. 2 \in 1 .. Len(blocks) /\ 2 - 1 = 1
        BY <2>2
      <4> QED BY <1>5, <3>1, <4>1
    <3>4. PICK g \in [0 .. 0 -> Owners] :
             g[0] = TaintAll(f[1], {}) /\ TrackBlock(f[1], b2) = TaintAll(g[0], {})
      <4>1. PICK g \in [0 .. Len(b2.ins) -> Owners] :
               /\ g[0] = TaintAll(f[1], b2.clears)
               /\ \A i \in 1 .. Len(b2.ins) : g[i] = Track(g[i - 1], b2.ins[i])
               /\ TrackBlock(f[1], b2) = TaintAll(g[Len(b2.ins)], b2.frees)
        BY <1>9, <3>2, TrackBlockIs
      <4> QED BY <3>2, <4>1
    <3> QED BY <1>5, <1>7, <1>9, <2>2, <3>3, <3>4
  <2> QED BY <1>3, <2>1, <2>2
<1>11. \A i \in Body : i.op \in TakingOps => i.from \in moved
  <2> SUFFICES ASSUME NEW b \in DOMAIN blocks, NEW j \in DOMAIN blocks[b].ins,
                      blocks[b].ins[j].op \in TakingOps
               PROVE  blocks[b].ins[j].from \in moved
    BY DEF Body, Range
  <2>1. b = 1
    <3>1. CASE b = 2
      <4>1. Len(blocks) = 2
        BY <1>3, <3>1
      <4>2. blocks[b].ins = <<>>
        BY <3>1, <4>1 DEF Level
      <4> QED BY <4>2
    <3> QED BY <1>3, <3>1
  <2> QED BY <2>1 DEF Level
<1>12. ReturnAliases \subseteq moved \cup {v}
  <2>1. PICK chain : chain = moved \cup ({v} \ {0}) OBVIOUS
  <2>2. chain \in SUBSET Locals
    BY <1>3, <1>4, <2>1
  <2>3. ReturnLocals \subseteq chain
    <3> SUFFICES ASSUME NEW b \in DOMAIN blocks, blocks[b].term.value # 0
                 PROVE  blocks[b].term.value \in chain
      BY DEF ReturnLocals
    <3>1. b = 1
      BY <1>3 DEF Level
    <3> QED BY <1>1, <1>2, <2>1, <3>1
  <2>4. ClosedUnderCopy(chain)
    BY <1>11, <2>1 DEF ClosedUnderCopy, TakingOps
  <2> QED BY <2>1, <2>2, <2>3, <2>4 DEF ReturnAliases
<1>13. MovedToFfi \subseteq moved
  BY <1>11 DEF MovedToFfi, TakingOps
<1> QED BY <1>1, <1>2, <1>3, <1>10, <1>12, <1>13 DEF DropLocals

-----------------------------------------------------------------------------
(* The end of a run *)

LEMMA LeaveIs ==
  ASSUME NEW m \in Memory, NEW x \in {0} \cup Locals, drops \subseteq Locals,
         NEW n, n = Leave(m, x), n.fault = "none"
  PROVE  /\ m.fault = "none" /\ n.env = m.env /\ n.kept = m.kept
         /\ x # 0 => n.result = m.env[x]
         /\ \A o \in Objects : n.heap[o] = "live" =>
              m.heap[o] = "live" /\ \A y \in drops : m.env[y] # o
<1>1. PICK v : v = IF x = 0 THEN Nil ELSE m.env[x] OBVIOUS
<1>2. v \in {Nil, Junk} \cup Objects
  BY <1>1, MemoryParts
<1>3. PICK read : read = IF m.fault = "none" /\ x # 0 THEN ReadFault(m, v) ELSE m.fault
  OBVIOUS
<1>4. read \in Faults
  BY <1>2, <1>3, ReadFaultIs, MemoryParts
<1>5. PICK r : r = [m EXCEPT !.result = v, !.fault = read] OBVIOUS
<1>6. r \in Memory /\ r.fault = read /\ r.env = m.env /\ r.kept = m.kept
      /\ r.heap = m.heap /\ r.result = v
  BY <1>2, <1>4, <1>5 DEF Memory
<1>7. n = Freed(r, drops)
  BY <1>1, <1>3, <1>5 DEF Leave
<1>8. /\ r.fault = "none" /\ n.env = r.env /\ n.kept = r.kept /\ n.result = r.result
      /\ \A o \in Objects : n.heap[o] = IF \E y \in drops : r.env[y] = o THEN "freed"
                                        ELSE r.heap[o]
  BY <1>6, <1>7, FreedIs
<1>9. m.fault = "none"
  BY <1>3, <1>6, <1>8
<1> QED BY <1>1, <1>6, <1>8, <1>9

\* Where every object that is not returned is dropped, none is left.
LEMMA LeaveSnug ==
  ASSUME NEW m, NEW S \in SUBSET Locals, Snug(m, S), NEW x \in {0} \cup Locals,
         drops \subseteq Locals, S \ {x} \subseteq drops, NEW n, n = Leave(m, x), n.fault = "none"
  PROVE  \A o \in Objects : n.heap[o] = "live" => o \in n.kept \cup {n.result}
<1>0. m \in Memory
  BY DEF Snug
<1>1. /\ m.fault = "none" /\ n.env = m.env /\ n.kept = m.kept
      /\ x # 0 => n.result = m.env[x]
      /\ \A o \in Objects : n.heap[o] = "live" =>
           m.heap[o] = "live" /\ \A y \in drops : m.env[y] # o
  BY <1>0, LeaveIs
<1>2. Held(m, S)
  BY <1>1 DEF Snug
<1> SUFFICES ASSUME NEW o \in Objects, n.heap[o] = "live", o \notin n.kept
             PROVE  o = n.result
  OBVIOUS
<1>3. PICK y \in S : m.env[y] = o
  BY <1>1, <1>2 DEF Held
<1>4. y = x /\ x # 0
  BY <1>1, <1>3, Constants
<1> QED BY <1>1, <1>3, <1>4

-----------------------------------------------------------------------------
(* Bodies in which no object changes hands *)

LEMMA CountedInit ==
  ASSUME Init
  PROVE  \E count : Counted(count)
<1>1. /\ blocks = <<NewBlock>> /\ cur = 1 /\ frames = <<>> /\ declared = 0 /\ inited = {}
  BY DEF Init
<1>2. PICK count : count = [b \in DOMAIN blocks |-> 0] OBVIOUS
<1>3. DOMAIN blocks = {1} /\ blocks[1] = NewBlock
  BY <1>1
<1>4. /\ blocks[1].ins = <<>> /\ blocks[1].clears = {} /\ blocks[1].term = Unreachable
  BY <1>3, NewBlockIs
<1>5. count \in [DOMAIN blocks -> 0 .. declared] /\ count[1] = 0
  BY <1>1, <1>2, <1>3
<1>6. Carries(blocks[cur].ins, 1 .. count[cur], 1 .. declared)
  BY <1>1, <1>4, <1>5, CarriesNothing
<1>7. DOMAIN frames = {} /\ inited = 1 .. declared
  BY <1>1
<1> QED BY <1>3, <1>4, <1>5, <1>6, <1>7 DEF Counted

\* The current block is closed, and what is new is empty.
LEMMA CountedControl ==
  ASSUME Shape, phase = "lower", NEW count, Counted(count),
         DOMAIN blocks \subseteq DOMAIN blocks',
         \A b \in DOMAIN blocks : /\ blocks'[b].ins = blocks[b].ins
                                  /\ blocks'[b].clears = {}
                                  /\ b # cur => blocks'[b].term = blocks[b].term,
         \A b \in DOMAIN blocks' \ DOMAIN blocks :
           /\ blocks'[b].ins = <<>> /\ blocks'[b].clears = {}
           /\ blocks'[b].term # Unreachable =>
                /\ blocks'[b].term.kind # "return"
                /\ Full(count, blocks'[b].term.then) /\ Full(count, blocks'[b].term.else),
         blocks'[cur].term.kind # "return" =>
           Full(count, blocks'[cur].term.then) /\ Full(count, blocks'[cur].term.else),
         UNCHANGED <<declared, inited>>,
         \A i \in DOMAIN frames' :
           /\ \A c \in Pending(frames[i])' : Full(count, c) /\ c # 1
           /\ frames'[i].kind = "loop" => Full(count, frames'[i].target),
         phase' = "lower" => Full(count, cur') /\ blocks'[cur'].ins = <<>>
  PROVE  \E c2 : Counted(c2)'
<1>1. /\ cur \in DOMAIN blocks /\ declared \in Nat /\ 1 \in DOMAIN blocks
  BY ShapeFacts
<1>2. /\ count \in [DOMAIN blocks -> 0 .. declared] /\ count[1] = 0 /\ inited = 1 .. declared
      /\ \A b \in DOMAIN blocks : blocks[b].term # Unreachable => Closed(count, b)
      /\ Carries(blocks[cur].ins, 1 .. count[cur], 1 .. declared)
  BY DEF Counted
<1>3. PICK c2 : c2 = [b \in DOMAIN blocks' |-> IF b \in DOMAIN blocks THEN count[b] ELSE declared]
  OBVIOUS
<1>4. /\ c2 \in [DOMAIN blocks' -> 0 .. declared] /\ c2[1] = 0
      /\ \A b \in DOMAIN blocks : c2[b] = count[b]
      /\ \A b \in DOMAIN blocks' \ DOMAIN blocks : c2[b] = declared
  BY <1>1, <1>2, <1>3
<1>5. \A b : Full(count, b) => c2[b] = declared
  BY <1>4 DEF Full
<1>6. \A b \in DOMAIN blocks' : blocks'[b].clears = {} OBVIOUS
<1>7. ASSUME NEW b \in DOMAIN blocks', blocks'[b].term # Unreachable
      PROVE  Closed(c2, b)'
  <2>1. CASE b = cur
    <3>1. Carries(blocks'[b].ins, 1 .. c2[b], 1 .. declared)
      BY <1>1, <1>2, <1>4, <2>1
    <3>2. CASE blocks'[b].term.kind = "return"
      BY <3>1, <3>2 DEF Closed
    <3>3. CASE blocks'[b].term.kind # "return"
      <4>1. \A c \in {blocks'[b].term.then, blocks'[b].term.else} : c2[c] = declared
        BY <1>5, <2>1, <3>3
      <4> QED BY <3>1, <3>3, <4>1 DEF Closed
    <3> QED BY <3>2, <3>3
  <2>2. CASE b \in DOMAIN blocks /\ b # cur
    <3>1. PICK t : t = blocks[b].term OBVIOUS
    <3>2. blocks'[b].term = t /\ blocks'[b].ins = blocks[b].ins /\ c2[b] = count[b]
      BY <1>4, <2>2, <3>1
    <3>3. t \in Jumps /\ Closed(count, b)
      BY <1>2, <1>7, <2>2, <3>1, <3>2, BlockParts, ShapeFacts DEF Terminators
    <3>4. CASE t.kind = "return"
      BY <3>1, <3>2, <3>3, <3>4 DEF Closed
    <3>5. CASE t.kind # "return"
      <4>1. {t.then, t.else} \subseteq DOMAIN blocks
        BY <2>2, <3>1, <3>3, <3>5 DEF Shape, Targets
      <4>2. \A c \in {t.then, t.else} : c2[c] = count[c]
        BY <1>4, <4>1
      <4>3. \A c \in {t.then, t.else} : Carries(blocks[b].ins, 1 .. count[b], 1 .. count[c])
        BY <3>1, <3>3, <3>5 DEF Closed
      <4>4. \A c \in {t.then, t.else} : Carries(blocks'[b].ins, 1 .. c2[b], 1 .. c2[c])
        BY <3>2, <4>2, <4>3
      <4> QED BY <3>2, <3>5, <4>4 DEF Closed
    <3> QED BY <3>4, <3>5
  <2>3. CASE b \notin DOMAIN blocks
    <3>1. /\ blocks'[b].term.kind # "return" /\ blocks'[b].ins = <<>> /\ c2[b] = declared
          /\ \A c \in {blocks'[b].term.then, blocks'[b].term.else} : c2[c] = declared
      BY <1>4, <1>5, <1>7, <2>3
    <3>2. Carries(<<>>, 1 .. declared, 1 .. declared)
      BY CarriesNothing
    <3> QED BY <3>1, <3>2 DEF Closed
  <2> QED BY <2>1, <2>2, <2>3
<1>8. phase' = "lower" => Carries(blocks'[cur'].ins, 1 .. c2[cur'], 1 .. declared')
  <2> SUFFICES ASSUME phase' = "lower" PROVE Carries(blocks'[cur'].ins, 1 .. c2[cur'], 1 .. declared')
    OBVIOUS
  <2>1. c2[cur'] = declared /\ blocks'[cur'].ins = <<>>
    BY <1>5
  <2> QED BY <2>1, CarriesNothing
<1>9. \A i \in DOMAIN frames' :
        /\ \A c \in Pending(frames[i])' : c2[c] = declared' /\ c # 1
        /\ frames'[i].kind = "loop" => c2[frames'[i].target] = declared'
  BY <1>5
<1>10. inited' = 1 .. declared'
  BY <1>2
<1>11. c2 \in [DOMAIN blocks' -> 0 .. declared']
  BY <1>4
<1> QED BY <1>4, <1>6, <1>7, <1>8, <1>9, <1>10, <1>11 DEF Counted

\* What holds of a state without a construct or a jump stays.
LEMMA CountedSame ==
  ASSUME NEW count, Counted(count), UNCHANGED <<blocks, cur, frames, declared, inited>>,
         phase' = "lower" => phase = "lower"
  PROVE  Counted(count)'
<1>1. \A b : Closed(count, b)' <=> Closed(count, b)
  BY DEF Closed
<1>2. \A i : Pending(frames[i])' = Pending(frames[i])
  BY DEF Pending
<1> QED BY <1>1, <1>2 DEF Counted

\* A statement after which a body is neat is one of two.
LEMMA NeatStatements ==
  ASSUME Shape, Statements, Neat'
  PROVE  /\ Neat
         /\ (Lets /\ ~InLoop) \/ \E x \in Settable : Sets(x) /\ frames' = frames
<1>1. PICK is : Emits(is)
  BY StatementHolds
<1>2. /\ phase = "lower" /\ cur \in DOMAIN blocks /\ is \in Seq(Instructions)
      /\ Grows(blocks', blocks, cur, is) /\ blocks' \in Seq(Blocks) /\ blocks \in Seq(Blocks)
      /\ DOMAIN blocks' = DOMAIN blocks
  BY <1>1, ShapeFacts DEF Emits, Grows
<1>3. ASSUME NEW js, Emits(js), NEW j \in DOMAIN js
      PROVE  js[j].op \in {"alloc", "free"}
  <2>1. /\ js \in Seq(Instructions) /\ Grows(blocks', blocks, cur, js)
    BY <1>3 DEF Emits
  <2>2. PICK k : k = Len(blocks[cur].ins) + j OBVIOUS
  <2>3. k \in DOMAIN blocks'[cur].ins /\ blocks'[cur].ins[k] = js[j]
    BY <1>2, <2>1, <2>2, BlockParts DEF Grows
  <2> QED BY <1>2, <2>3 DEF Neat
<1>4. ASSUME NEW b \in DOMAIN blocks
      PROVE  /\ blocks[b].frees = {}
             /\ \A j \in DOMAIN blocks[b].ins : blocks[b].ins[j].op \in {"alloc", "free"}
  <2>1. blocks'[b].frees = blocks[b].frees
    BY <1>2 DEF Grows
  <2>2. ASSUME NEW j \in DOMAIN blocks[b].ins
        PROVE  j \in DOMAIN blocks'[b].ins /\ blocks'[b].ins[j] = blocks[b].ins[j]
    <3>1. CASE b = cur
      <4>1. /\ DOMAIN blocks[b].ins = 1 .. Len(blocks[b].ins) /\ Len(blocks[b].ins) \in Nat
            /\ DOMAIN blocks'[b].ins = 1 .. Len(blocks'[b].ins) /\ Len(is) \in Nat
        BY <1>2, BlockParts
      <4> QED BY <1>2, <3>1, <4>1 DEF Grows
    <3>2. CASE b # cur
      BY <1>2, <3>2 DEF Grows
    <3> QED BY <3>1, <3>2
  <2> QED BY <1>2, <2>1, <2>2 DEF Neat
<1>5. DOMAIN frames' = DOMAIN frames
      /\ \A i \in DOMAIN frames : frames'[i].kind = frames[i].kind
  BY <1>1 DEF Emits, Relisted
<1>6. ASSUME \A i \in DOMAIN frames : frames'[i].locals = frames[i].locals
      PROVE  Neat
  BY <1>4, <1>5, <1>6 DEF Neat
<1>7. CASE Lets \/ \E y \in Movable : LetsFrom(y)
  <2>1. Declares
    BY <1>7 DEF Lets, LetsFrom
  <2>2. ~InLoop
    <3> SUFFICES ASSUME InLoop PROVE FALSE OBVIOUS
    <3>1. LoopAt \in DOMAIN frames /\ frames[LoopAt].kind = "loop"
      BY LoopAtIs
    <3>2. declared' \in frames'[LoopAt].locals
      BY <2>1, <3>1 DEF Declares
    <3> QED BY <1>5, <3>1, <3>2 DEF Neat
  <2>3. Neat
    BY <1>6, <2>1, <2>2 DEF Declares
  <2>4. ~ \E y \in Movable : LetsFrom(y)
    <3> SUFFICES ASSUME NEW y \in Movable, LetsFrom(y) PROVE FALSE OBVIOUS
    <3>1. PICK i : i = Move(declared + 1, y) OBVIOUS
    <3>2. Emits(<<i>>) /\ i.op = "move"
      BY <3>1 DEF LetsFrom, Move
    <3>3. 1 \in DOMAIN <<i>> /\ <<i>>[1] = i OBVIOUS
    <3> QED BY <1>3, <3>2, <3>3
  <2> QED BY <1>7, <2>2, <2>3, <2>4
<1>8. ASSUME NEW x \in Settable, Sets(x) /\ frames' = frames
      PROVE  Neat
  BY <1>6, <1>8
<1>9. ASSUME NEW x \in Settable, NEW y \in Movable, SetsFrom(x, y) PROVE FALSE
  <2>1. x \in Locals /\ y \in Locals
    BY ReadFacts
  <2>2. PICK i : i = Assign(x, y) OBVIOUS
  <2>3. i \in Instructions /\ i.op = "assign"
    BY <2>1, <2>2, OwnInstructions DEF Assign
  <2>4. PICK js : js = FreePrior(x) \o <<i>> OBVIOUS
  <2>5. Emits(js)
    BY <1>9, <2>2, <2>4 DEF SetsFrom
  <2>6. js = IF x \in inited THEN <<Dealloc(x), i>> ELSE <<i>>
    BY <2>1, <2>3, <2>4, PriorIs
  <2>7. CASE x \in inited
    <3>1. 2 \in DOMAIN js /\ js[2] = i
      BY <2>6, <2>7
    <3> QED BY <1>3, <2>3, <2>5, <3>1
  <2>8. CASE x \notin inited
    <3>1. 1 \in DOMAIN js /\ js[1] = i
      BY <2>6, <2>8
    <3> QED BY <1>3, <2>3, <2>5, <3>1
  <2> QED BY <2>7, <2>8
<1>10. ASSUME NEW how \in GivingOps, NEW x \in Movable, Gives(x, how) PROVE FALSE
  <2>1. PICK i : i = Give(x, how) OBVIOUS
  <2>2. Emits(<<i>>) /\ i.op = how
    BY <1>10, <2>1 DEF Gives, Give
  <2>3. 1 \in DOMAIN <<i>> /\ <<i>>[1] = i OBVIOUS
  <2> QED BY <1>3, <2>2, <2>3 DEF GivingOps
<1> QED BY <1>7, <1>8, <1>9, <1>10 DEF Statements

\* More instructions in the current block, and more locals.
LEMMA CountedEmits ==
  ASSUME Shape, NEW is, Emits(is), NEW count, Counted(count),
         declared' \in Nat, declared <= declared', inited' = 1 .. declared',
         NEW c2 \in [DOMAIN blocks -> 0 .. declared'], c2[1] = 0, c2[cur] = count[cur],
         \A b \in DOMAIN blocks : /\ count[b] <= c2[b]
                                  /\ blocks[b].term # Unreachable => c2[b] = count[b],
         \A i \in DOMAIN frames :
           /\ \A c \in Pending(frames[i]) : c2[c] = declared'
           /\ frames[i].kind = "loop" => c2[frames[i].target] = declared',
         Carries(is, 1 .. declared, 1 .. declared')
  PROVE  Counted(c2)'
<1>1. /\ phase = "lower" /\ phase' = phase /\ cur' = cur /\ is \in Seq(Instructions)
      /\ Grows(blocks', blocks, cur, is) /\ blocks' \in Seq(Blocks)
      /\ Relisted(frames', frames)
  BY DEF Emits
<1>2. /\ cur \in DOMAIN blocks /\ blocks \in Seq(Blocks) /\ declared \in Nat
      /\ blocks[cur].term = Unreachable
  BY <1>1, ShapeFacts, Unfreed
<1>3. /\ DOMAIN blocks' = DOMAIN blocks
      /\ \A b \in DOMAIN blocks : /\ blocks'[b].term = blocks[b].term
                                  /\ blocks'[b].clears = blocks[b].clears
                                  /\ b # cur => blocks'[b].ins = blocks[b].ins
  BY <1>1 DEF Grows
<1>4. /\ count \in [DOMAIN blocks -> 0 .. declared]
      /\ \A b \in DOMAIN blocks : blocks[b].clears = {}
      /\ \A b \in DOMAIN blocks : blocks[b].term # Unreachable => Closed(count, b)
      /\ Carries(blocks[cur].ins, 1 .. count[cur], 1 .. declared)
      /\ \A i \in DOMAIN frames : \A c \in Pending(frames[i]) : c # 1
  BY <1>1 DEF Counted
<1>5. ASSUME NEW b \in DOMAIN blocks', blocks'[b].term # Unreachable
      PROVE  Closed(c2, b)'
  <2>1. /\ b \in DOMAIN blocks /\ b # cur /\ blocks'[b].ins = blocks[b].ins
        /\ c2[b] = count[b] /\ Closed(count, b)
    BY <1>2, <1>3, <1>4, <1>5
  <2>2. PICK t : t = blocks[b].term OBVIOUS
  <2>3. blocks'[b].term = t /\ t \in Jumps
    BY <1>2, <1>3, <1>5, <2>1, <2>2, BlockParts DEF Terminators
  <2>4. CASE t.kind = "return"
    <3>1. Carries(blocks[b].ins, 1 .. count[b], 1 .. declared)
      BY <2>1, <2>2, <2>4 DEF Closed
    <3>2. 1 .. declared \subseteq 1 .. declared'
      BY <1>2
    <3>3. Carries(blocks[b].ins, 1 .. count[b], 1 .. declared')
      BY <3>1, <3>2, CarriesMore
    <3> QED BY <2>1, <2>3, <2>4, <3>3 DEF Closed
  <2>5. CASE t.kind # "return"
    <3> SUFFICES ASSUME NEW c \in {t.then, t.else}
                 PROVE  Carries(blocks'[b].ins, 1 .. c2[b], 1 .. c2[c])
      BY <2>3, <2>5 DEF Closed
    <3>1. c \in DOMAIN blocks
      BY <2>1, <2>2, <2>3, <2>5 DEF Shape, Targets
    <3>2. Carries(blocks[b].ins, 1 .. count[b], 1 .. count[c])
      BY <2>1, <2>2, <2>5 DEF Closed
    <3>3. 1 .. count[c] \subseteq 1 .. c2[c]
      BY <1>4, <3>1
    <3>4. Carries(blocks[b].ins, 1 .. count[b], 1 .. c2[c])
      BY <3>2, <3>3, CarriesMore
    <3> QED BY <2>1, <3>4
  <2> QED BY <2>4, <2>5
<1>6. Carries(blocks'[cur'].ins, 1 .. c2[cur'], 1 .. declared')
  <2>1. Carries(blocks[cur].ins, 1 .. c2[cur], 1 .. declared)
    BY <1>4
  <2>2. PICK S : S = 1 .. c2[cur] OBVIOUS
  <2>3. PICK T : T = 1 .. declared OBVIOUS
  <2>4. PICK U : U = 1 .. declared' OBVIOUS
  <2>5. PICK new : new = blocks' OBVIOUS
  <2>6. Carries(blocks[cur].ins, S, T) /\ Carries(is, T, U) /\ Grows(new, blocks, cur, is)
    BY <1>1, <2>1, <2>2, <2>3, <2>4, <2>5
  <2>7. Carries(new[cur].ins, S, U)
    BY <1>1, <1>2, <2>6, CarriesGrow
  <2> QED BY <1>1, <2>2, <2>4, <2>5, <2>7
<1>7. \A i \in DOMAIN frames' :
        /\ \A c \in Pending(frames[i])' : c2[c] = declared' /\ c # 1
        /\ frames'[i].kind = "loop" => c2[frames'[i].target] = declared'
  <2>1. \A i \in DOMAIN frames : Pending(frames'[i]) = Pending(frames[i])
    BY <1>1, RelistedPending
  <2>2. DOMAIN frames' = DOMAIN frames
        /\ \A i \in DOMAIN frames : frames'[i].kind = frames[i].kind
                                    /\ frames'[i].target = frames[i].target
    BY <1>1 DEF Relisted
  <2>3. \A i : Pending(frames[i])' = Pending(frames'[i])
    BY DEF Pending
  <2> QED BY <1>4, <2>1, <2>2, <2>3
<1>8. \A b \in DOMAIN blocks' : blocks'[b].clears = {}
  BY <1>3, <1>4
<1>9. c2 \in [DOMAIN blocks' -> 0 .. declared']
  BY <1>3
<1> QED BY <1>5, <1>6, <1>7, <1>8, <1>9 DEF Counted

LEMMA CountedStatements ==
  ASSUME Shape, Statements, Neat', NEW count, Counted(count)
  PROVE  \E c2 : Counted(c2)'
<1>0. phase = "lower"
  BY StatementHolds DEF Emits
<1>1. /\ declared \in Nat /\ 1 .. declared \subseteq Locals /\ cur \in DOMAIN blocks
      /\ blocks[cur].term = Unreachable
  BY <1>0, ShapeFacts, Unfreed
<1>2. /\ count \in [DOMAIN blocks -> 0 .. declared] /\ count[1] = 0 /\ inited = 1 .. declared
      /\ \A i \in DOMAIN frames :
           /\ \A c \in Pending(frames[i]) : count[c] = declared /\ c # 1
           /\ frames[i].kind = "loop" => count[frames[i].target] = declared
  BY DEF Counted
<1>3. CASE Lets /\ ~InLoop
  <2>1. Emits(<<Alloc(declared + 1)>>) /\ Declares
    BY <1>3 DEF Lets
  <2>2. PICK x : x = declared + 1 OBVIOUS
  <2>3. /\ x \in Locals /\ declared' = x /\ inited' = inited \cup {x}
    BY <2>1, <2>2 DEF Declares
  <2>4. (1 .. declared) \cup {x} = 1 .. x /\ x \notin 1 .. declared
    BY <1>1, <2>2
  <2>5. PICK S : S = 1 .. declared OBVIOUS
  <2>6. S \in SUBSET Locals /\ x \in Locals \ S
    BY <1>1, <2>3, <2>4, <2>5
  <2>7. Carries(<<Alloc(x)>>, S, S \cup {x})
    BY <2>6, CarriesAlloc
  <2>8. Carries(<<Alloc(x)>>, 1 .. declared, 1 .. declared')
    BY <2>3, <2>4, <2>5, <2>7
  <2>9. PICK late : late = {c \in DOMAIN blocks : \E i \in DOMAIN frames : c \in Pending(frames[i])}
    OBVIOUS
  <2>10. PICK c2 : c2 = [b \in DOMAIN blocks |-> IF b \in late THEN x ELSE count[b]]
    OBVIOUS
  <2>11. cur \notin late /\ 1 \notin late /\ 1 \in DOMAIN blocks
         /\ \A b \in late : blocks[b].term = Unreachable
    <3>1. Lowering
      BY <1>0 DEF Shape
    <3> QED BY <1>2, <2>9, <3>1, ShapeFacts DEF Lowering
  <2>12. /\ c2 \in [DOMAIN blocks -> 0 .. declared'] /\ c2[1] = 0 /\ c2[cur] = count[cur]
         /\ \A b \in DOMAIN blocks : /\ count[b] <= c2[b]
                                     /\ blocks[b].term # Unreachable => c2[b] = count[b]
    <3>1. ASSUME NEW b \in DOMAIN blocks
          PROVE  /\ c2[b] \in 0 .. declared' /\ count[b] <= c2[b]
                 /\ blocks[b].term # Unreachable => c2[b] = count[b]
      BY <1>1, <1>2, <2>2, <2>3, <2>10, <2>11
    <3>2. c2[1] = 0 /\ c2[cur] = count[cur]
      BY <1>1, <1>2, <2>10, <2>11
    <3> QED BY <2>10, <3>1, <3>2
  <2>13. ASSUME NEW i \in DOMAIN frames
         PROVE  /\ \A c \in Pending(frames[i]) : c2[c] = declared'
                /\ frames[i].kind = "loop" => c2[frames[i].target] = declared'
    <3>1. frames[i].kind # "loop"
      BY <1>3 DEF InLoop, LoopDepths
    <3>2. Pending(frames[i]) \subseteq DOMAIN blocks
      BY FrameTypes DEF Pending
    <3> QED BY <2>3, <2>9, <2>10, <3>1, <3>2
  <2>14. declared' \in Nat /\ declared <= declared' /\ inited' = 1 .. declared'
    BY <1>1, <1>2, <2>2, <2>3, <2>4
  <2>15. PICK is : is = <<Alloc(x)>> OBVIOUS
  <2>16. Emits(is) /\ Carries(is, 1 .. declared, 1 .. declared')
    BY <2>1, <2>2, <2>8, <2>15
  <2>17. Counted(c2)'
    BY <2>12, <2>13, <2>14, <2>16, CountedEmits
  <2> QED BY <2>17
<1>4. ASSUME NEW x \in Settable, Sets(x), frames' = frames
      PROVE  \E c2 : Counted(c2)'
  <2>1. PICK is : is = FreePrior(x) \o <<Alloc(x)>> OBVIOUS
  <2>2. /\ Emits(is) /\ declared' = declared /\ inited' = inited \cup {x}
    BY <1>4, <2>1 DEF Sets, Declared
  <2>3. x \in 1 .. declared /\ x \in Locals
    BY ReadFacts
  <2>4. PICK S : S = 1 .. declared OBVIOUS
  <2>5. PICK R : R = S \ {x} OBVIOUS
  <2>6. S \in SUBSET Locals /\ R \in SUBSET Locals /\ x \in Locals \ R /\ R \cup {x} = S
    BY <1>1, <2>3, <2>4, <2>5
  <2>7. Carries(<<Alloc(x)>>, R, S)
    <3>1. Carries(<<Alloc(x)>>, R, R \cup {x})
      BY <2>6, CarriesAlloc
    <3> QED BY <2>6, <3>1
  <2>8. PICK i : i = Alloc(x) OBVIOUS
  <2>9. Carries(is, S, S)
    <3>1. i \in Instructions /\ x \in inited
      BY <1>2, <2>3, <2>8, OwnInstructions
    <3>2. Carries(<<i>>, S \ {x}, S)
      BY <2>5, <2>7, <2>8
    <3>3. Carries(FreePrior(x) \o <<i>>, S, S)
      BY <2>3, <2>6, <3>1, <3>2, CarriesPrior
    <3> QED BY <2>1, <2>8, <3>3
  <2>10. Carries(is, 1 .. declared, 1 .. declared')
    BY <2>2, <2>4, <2>9
  <2>11. inited' = 1 .. declared' /\ declared' \in Nat /\ declared <= declared'
    BY <1>1, <1>2, <2>2, <2>3
  <2>12. /\ count \in [DOMAIN blocks -> 0 .. declared']
         /\ \A b \in DOMAIN blocks : count[b] <= count[b]
         /\ \A j \in DOMAIN frames :
              /\ \A c \in Pending(frames[j]) : count[c] = declared'
              /\ frames[j].kind = "loop" => count[frames[j].target] = declared'
    <3>1. \A b \in DOMAIN blocks : count[b] \in 0 .. declared
      BY <1>2
    <3> QED BY <1>1, <1>2, <2>2, <3>1
  <2>13. Counted(count)'
    BY <1>2, <2>2, <2>10, <2>11, <2>12, CountedEmits
  <2> QED BY <2>13
<1> QED BY <1>3, <1>4, NeatStatements

\* A body that control has left neat was neat.
LEMMA NeatLess ==
  ASSUME Neat', DOMAIN blocks \subseteq DOMAIN blocks',
         \A b \in DOMAIN blocks : /\ blocks'[b].ins = blocks[b].ins
                                  /\ blocks[b].frees = {} \/ blocks'[b].frees = blocks[b].frees,
         \A i \in DOMAIN frames : frames[i].kind = "loop" =>
           \/ frames[i].locals = {}
           \/ /\ i \in DOMAIN frames' /\ frames'[i].kind = "loop"
              /\ frames'[i].locals = frames[i].locals
  PROVE  Neat
BY DEF Neat

LEMMA JumpedKeeps ==
  ASSUME Shape, NEW t, NEW xs, NEW more, Jumped(t, xs, more)
  PROVE  JumpKeeps(t, more)
<1>1. PICK n : n = Len(blocks) OBVIOUS
<1>2. /\ phase = "lower" /\ n \in Nat /\ cur \in 1 .. n /\ DOMAIN blocks = 1 .. n
      /\ DOMAIN blocks' = 1 .. n + Len(more)
      /\ Len(more) \in Nat /\ DOMAIN more = 1 .. Len(more)
      /\ blocks'[cur].term = t
      /\ \A b \in 1 .. n : /\ blocks'[b].ins = blocks[b].ins
                           /\ blocks'[b].clears = blocks[b].clears
                           /\ b # cur => /\ blocks'[b].term = blocks[b].term
                                         /\ blocks'[b].frees = blocks[b].frees
      /\ \A b \in 1 .. n + Len(more) : b \notin 1 .. n =>
           b - n \in 1 .. Len(more) /\ blocks'[b] = more[b - n]
  BY <1>1, JumpedBlocks
<1>3. \A b \in DOMAIN blocks' \ DOMAIN blocks :
        \E j \in DOMAIN more : b = n + j /\ blocks'[b] = more[j]
  <2> SUFFICES ASSUME NEW b \in 1 .. n + Len(more), b \notin 1 .. n
               PROVE  \E j \in DOMAIN more : b = n + j /\ blocks'[b] = more[j]
    BY <1>2
  <2>1. PICK j : j = b - n OBVIOUS
  <2>2. j \in DOMAIN more /\ b = n + j /\ blocks'[b] = more[j]
    BY <1>2, <2>1
  <2> QED BY <2>2
<1>4. declared' = declared /\ inited' = inited
  BY DEF Jumped
<1>5. blocks[cur].frees = {}
  BY <1>2, Unfreed
<1>6. DOMAIN blocks \subseteq DOMAIN blocks'
  BY <1>2
<1> QED BY <1>1, <1>2, <1>3, <1>4, <1>5, <1>6 DEF JumpKeeps

\* The blocks that the open constructs count on.
LEMMA FramesFull ==
  ASSUME Shape, NEW count, Counted(count), DOMAIN blocks \subseteq DOMAIN blocks',
         declared' = declared, NEW i \in DOMAIN frames
  PROVE  /\ \A c \in Pending(frames[i]) : Full(count, c) /\ c # 1
         /\ frames[i].kind = "loop" => Full(count, frames[i].target)
<1>1. /\ {frames[i].target, frames[i].exit, frames[i].entry} \subseteq DOMAIN blocks
      /\ Pending(frames[i]) \subseteq {frames[i].target, frames[i].exit}
  BY FrameTypes DEF Pending
<1>2. /\ \A c \in Pending(frames[i]) : count[c] = declared /\ c # 1
      /\ frames[i].kind = "loop" => count[frames[i].target] = declared
  BY DEF Counted
<1> QED BY <1>1, <1>2 DEF Full

\* What a jump leaves is counted if what it leads to is full.
LEMMA CountedJumped ==
  ASSUME Shape, NEW count, Counted(count), NEW t, NEW more, JumpKeeps(t, more),
         NEW n, n = Len(blocks),
         \A j \in DOMAIN more :
           /\ more[j].ins = <<>> /\ more[j].clears = {}
           /\ more[j].term # Unreachable =>
                /\ more[j].term.kind # "return"
                /\ {more[j].term.then, more[j].term.else} \subseteq n + 1 .. n + Len(more),
         t.kind # "return" => Full(count, t.then) /\ Full(count, t.else),
         \A i \in DOMAIN frames' :
           /\ \A c \in Pending(frames[i])' : Full(count, c) /\ c # 1
           /\ frames'[i].kind = "loop" => Full(count, frames'[i].target),
         phase' = "lower" => Full(count, cur') /\ blocks'[cur'].ins = <<>>
  PROVE  \E c2 : Counted(c2)'
<1>1. /\ phase = "lower" /\ DOMAIN blocks \subseteq DOMAIN blocks' /\ cur \in DOMAIN blocks
      /\ blocks'[cur].term = t
      /\ DOMAIN blocks' = 1 .. n + Len(more)
      /\ DOMAIN blocks = 1 .. n /\ n \in Nat /\ Len(more) \in Nat
      /\ \A b \in DOMAIN blocks :
           /\ blocks'[b].ins = blocks[b].ins /\ blocks'[b].clears = blocks[b].clears
           /\ b # cur => blocks'[b].term = blocks[b].term
      /\ \A b \in DOMAIN blocks' \ DOMAIN blocks : \E j \in DOMAIN more : blocks'[b] = more[j]
      /\ declared' = declared /\ inited' = inited
  BY DEF JumpKeeps
<1>2. \A b \in DOMAIN blocks : blocks'[b].clears = {}
  BY <1>1 DEF Counted
<1>3. \A c \in n + 1 .. n + Len(more) : Full(count, c)
  BY <1>1 DEF Full
<1>4. ASSUME NEW b \in DOMAIN blocks' \ DOMAIN blocks
      PROVE  /\ blocks'[b].ins = <<>> /\ blocks'[b].clears = {}
             /\ blocks'[b].term # Unreachable =>
                  /\ blocks'[b].term.kind # "return"
                  /\ Full(count, blocks'[b].term.then) /\ Full(count, blocks'[b].term.else)
  <2>1. PICK j \in DOMAIN more : blocks'[b] = more[j]
    BY <1>1
  <2> QED BY <1>3, <2>1
<1>5. blocks'[cur].term.kind # "return" =>
        Full(count, blocks'[cur].term.then) /\ Full(count, blocks'[cur].term.else)
  BY <1>1
<1> QED BY <1>1, <1>2, <1>4, <1>5, CountedControl

LEMMA CountedOpening ==
  ASSUME Shape, NEW count, Counted(count), NEW t, NEW more, NEW f, Opening(t, more, f),
         NEW n, n = Len(blocks), Opened(n, t, more, f), t.kind # "return",
         {t.then, t.else} \subseteq n + 1 .. n + Len(more),
         \A j \in DOMAIN more : more[j].term # Unreachable =>
           /\ more[j].term.kind # "return"
           /\ {more[j].term.then, more[j].term.else} \subseteq n + 1 .. n + Len(more)
  PROVE  \E c2 : Counted(c2)'
<1>1. PICK xs : xs = {} OBVIOUS
<1>2. Jumped(t, xs, more) /\ frames' = Append(frames, f) /\ f \in Frames /\ phase' = phase
  BY <1>1 DEF Opening
<1>3. JumpKeeps(t, more)
  BY <1>2, JumpedKeeps
<1>4. /\ DOMAIN blocks \subseteq DOMAIN blocks' /\ n \in Nat /\ Len(more) \in Nat
      /\ DOMAIN blocks = 1 .. n /\ DOMAIN blocks' = 1 .. n + Len(more)
      /\ declared' = declared /\ cur \in 1 .. n
      /\ \A b \in DOMAIN blocks' \ DOMAIN blocks : \E j \in DOMAIN more : blocks'[b] = more[j]
  BY <1>3 DEF JumpKeeps
<1>5. \A c \in n + 1 .. n + Len(more) : Full(count, c) /\ c # 1
  BY <1>4 DEF Full
<1>6. /\ \A j \in DOMAIN more : more[j].ins = <<>> /\ more[j].clears = {}
      /\ cur' \in n + 1 .. n + Len(more)
      /\ Pending(f) \cup {f.target, f.exit} \subseteq n + 1 .. n + Len(more)
  BY DEF Opened
<1>7. \A i \in DOMAIN frames' :
           /\ \A c \in Pending(frames[i])' : Full(count, c) /\ c # 1
           /\ frames'[i].kind = "loop" => Full(count, frames'[i].target)
  <2> SUFFICES ASSUME NEW i \in DOMAIN frames'
               PROVE  /\ \A c \in Pending(frames'[i]) : Full(count, c) /\ c # 1
                      /\ frames'[i].kind = "loop" => Full(count, frames'[i].target)
    BY DEF Pending
  <2>1. /\ frames \in Seq(Frames)
        /\ \A k \in DOMAIN frames : frames'[k] = frames[k]
        /\ i \in DOMAIN frames \/ frames'[i] = f
    BY <1>2, ShapeFacts, AppendedIsOne
  <2>2. CASE i \in DOMAIN frames
    <3>1. frames'[i] = frames[i]
      BY <2>1, <2>2
    <3>2. /\ \A c \in Pending(frames[i]) : Full(count, c) /\ c # 1
          /\ frames[i].kind = "loop" => Full(count, frames[i].target)
      BY <1>4, <2>2, FramesFull
    <3> QED BY <3>1, <3>2
  <2>3. CASE frames'[i] = f
    BY <1>5, <1>6, <2>3
  <2> QED BY <2>1, <2>2, <2>3
<1>8. Full(count, cur') /\ blocks'[cur'].ins = <<>>
  <2>1. cur' \in DOMAIN blocks' \ DOMAIN blocks
    BY <1>4, <1>6
  <2> QED BY <1>4, <1>5, <1>6, <2>1
<1>9. Full(count, t.then) /\ Full(count, t.else)
  BY <1>5
<1> QED BY <1>3, <1>6, <1>7, <1>8, <1>9, CountedJumped

LEMMA CountedStarts ==
  ASSUME Shape, NEW count, Counted(count), Starts
  PROVE  \E c2 : Counted(c2)'
<1>1. PICK n \in {Len(blocks)} : Ifs(n) \/ Whiles(n) \/ Loops(n)
  BY DEF Starts
<1>2. n = Len(blocks) /\ n \in Nat
  BY ShapeFacts
<1>3. CASE Ifs(n)
  <2>1. PICK t : t = Branch(n + 1, n + 2) OBVIOUS
  <2>2. PICK f : f = IfFrame(n + 2, n + 3) OBVIOUS
  <2>3. Opened(n, t, Three, f) /\ Opening(t, Three, f)
    BY <1>2, <1>3, <2>1, <2>2, IfOpened DEF Ifs
  <2>4. t.kind = "branch" /\ t.then = n + 1 /\ t.else = n + 2
    BY <1>2, <2>1 DEF Branch
  <2>5. Len(Three) = 3 /\ \A j \in DOMAIN Three : Three[j].term = Unreachable
    BY <1>2, ThreeIs, NewBlockIs
  <2>6. {t.then, t.else} \subseteq n + 1 .. n + Len(Three)
    BY <1>2, <2>4, <2>5
  <2> QED BY <1>2, <2>3, <2>4, <2>5, <2>6, CountedOpening
<1>4. CASE Whiles(n)
  <2>1. PICK t : t = Goto(n + 1) OBVIOUS
  <2>2. PICK f : f = LoopFrame(n + 1, n + 3, n + 2) OBVIOUS
  <2>3. PICK more : more = <<Header(n), NewBlock, NewBlock>> OBVIOUS
  <2>4. Opened(n, t, more, f) /\ Opening(t, more, f)
    BY <1>2, <1>4, <2>1, <2>2, <2>3, WhileOpened DEF Whiles
  <2>5. t.kind = "goto" /\ t.then = n + 1 /\ t.else = n + 1
    BY <1>2, <2>1 DEF Goto
  <2>6. /\ DOMAIN more = 1 .. 3 /\ Len(more) = 3
        /\ more[1] = Header(n) /\ more[2] = NewBlock /\ more[3] = NewBlock
    BY <1>2, <2>3, ThreeIs
  <2>7. \A j \in DOMAIN more : j = 1 \/ more[j].term = Unreachable
    BY <2>6, NewBlockIs
  <2>8. /\ more[1].term.kind = "branch" /\ more[1].term.then = n + 2
        /\ more[1].term.else = n + 3
    <3>1. Header(n).term = Branch(n + 2, n + 3)
      BY <1>2, Openings
    <3> QED BY <2>6, <3>1 DEF Branch
  <2>9. /\ {t.then, t.else} \subseteq n + 1 .. n + Len(more)
        /\ {more[1].term.then, more[1].term.else} \subseteq n + 1 .. n + Len(more)
    BY <1>2, <2>5, <2>6, <2>8
  <2>10. \A j \in DOMAIN more : more[j].term # Unreachable =>
           /\ more[j].term.kind # "return"
           /\ {more[j].term.then, more[j].term.else} \subseteq n + 1 .. n + Len(more)
    BY <2>7, <2>8, <2>9
  <2> QED BY <1>2, <2>4, <2>5, <2>9, <2>10, CountedOpening
<1>5. CASE Loops(n)
  <2>1. PICK t : t = Goto(n + 1) OBVIOUS
  <2>2. PICK f : f = LoopFrame(n + 1, n + 2, n + 1) OBVIOUS
  <2>3. PICK more : more = <<NewBlock, NewBlock>> OBVIOUS
  <2>4. Opened(n, t, more, f) /\ Opening(t, more, f)
    BY <1>2, <1>5, <2>1, <2>2, <2>3, LoopOpened DEF Loops
  <2>5. t.kind = "goto" /\ t.then = n + 1 /\ t.else = n + 1
    BY <1>2, <2>1 DEF Goto
  <2>6. DOMAIN more = 1 .. 2 /\ Len(more) = 2 /\ more[1] = NewBlock /\ more[2] = NewBlock
    BY <1>2, <2>3, ThreeIs
  <2>7. \A j \in DOMAIN more : more[j].term = Unreachable
    BY <2>6, NewBlockIs
  <2>8. {t.then, t.else} \subseteq n + 1 .. n + Len(more)
    BY <1>2, <2>5, <2>6
  <2> QED BY <1>2, <2>4, <2>5, <2>7, <2>8, CountedOpening
<1> QED BY <1>1, <1>3, <1>4, <1>5

\* The block that waits behind the current one.
LEMMA PendingFull ==
  ASSUME Shape, phase = "lower", NEW count, Counted(count),
         NEW t, NEW more, JumpKeeps(t, more),
         NEW i \in DOMAIN frames, NEW c \in Pending(frames[i])
  PROVE  Full(count, c) /\ blocks'[c].ins = <<>>
<1>1. Lowering
  BY DEF Shape
<1>2. c # cur /\ blocks[c].ins = <<>>
  BY <1>1 DEF Lowering
<1>3. c \in DOMAIN blocks
  BY FrameTypes DEF Pending
<1>4. DOMAIN blocks \subseteq DOMAIN blocks' /\ declared' = declared
      /\ blocks'[c].ins = blocks[c].ins
  BY <1>3 DEF JumpKeeps
<1>5. Full(count, c)
  BY <1>4, FramesFull
<1> QED BY <1>2, <1>4, <1>5

LEMMA CountedElses ==
  ASSUME Shape, NEW count, Counted(count), Elses
  PROVE  \E c2 : Counted(c2)'
<1>1. PICK t : t = Goto(Top.exit) OBVIOUS
<1>2. PICK more : more = <<>> OBVIOUS
<1>3. PICK xs : xs = {} OBVIOUS
<1>4. Jumped(t, xs, more)
  BY <1>1, <1>2, <1>3 DEF Elses
<1>5. JumpKeeps(t, more) /\ phase = "lower"
  BY <1>4, JumpedKeeps DEF JumpKeeps
<1>6. PICK top : top = Len(frames) OBVIOUS
<1>7. /\ frames # <<>> /\ Top.kind = "then" /\ cur' = Top.target
      /\ DOMAIN frames' = DOMAIN frames
      /\ \A i \in DOMAIN frames \ {top} : frames'[i] = frames[i]
      /\ frames'[top].kind = "else" /\ frames'[top].exit = Top.exit
  BY <1>6 DEF Elses
<1>8. top \in DOMAIN frames /\ Top = frames[top]
  BY <1>6, <1>7, TopIs
<1>9. DOMAIN blocks \subseteq DOMAIN blocks' /\ declared' = declared
  BY <1>5 DEF JumpKeeps
<1>10. Top.target \in Pending(frames[top]) /\ Top.exit \in Pending(frames[top])
  BY <1>7, <1>8 DEF Pending
<1>11. Full(count, cur') /\ blocks'[cur'].ins = <<>>
  BY <1>5, <1>7, <1>8, <1>10, PendingFull
<1>12. Full(count, Top.exit) /\ Top.exit # 1
  BY <1>8, <1>9, <1>10, FramesFull
<1>13. \A i \in DOMAIN frames' :
           /\ \A c \in Pending(frames[i])' : Full(count, c) /\ c # 1
           /\ frames'[i].kind = "loop" => Full(count, frames'[i].target)
  <2> SUFFICES ASSUME NEW i \in DOMAIN frames
               PROVE  /\ \A c \in Pending(frames'[i]) : Full(count, c) /\ c # 1
                      /\ frames'[i].kind = "loop" => Full(count, frames'[i].target)
    BY <1>7 DEF Pending
  <2>1. CASE i = top
    <3>1. Pending(frames'[i]) = {Top.exit} /\ frames'[i].kind # "loop"
      BY <1>7, <2>1 DEF Pending
    <3> QED BY <1>12, <3>1
  <2>2. CASE i # top
    <3>1. frames'[i] = frames[i]
      BY <1>7, <2>2
    <3>2. /\ \A c \in Pending(frames[i]) : Full(count, c) /\ c # 1
          /\ frames[i].kind = "loop" => Full(count, frames[i].target)
      BY <1>9, FramesFull
    <3> QED BY <3>1, <3>2
  <2> QED BY <2>1, <2>2
<1>14. t.then = Top.exit /\ t.else = Top.exit
  BY <1>1 DEF Goto
<1>15. DOMAIN more = {}
  BY <1>2
<1>16. Full(count, t.then) /\ Full(count, t.else)
  BY <1>12, <1>14
<1> QED BY <1>5, <1>11, <1>13, <1>15, <1>16, CountedJumped

LEMMA CountedEndsIf ==
  ASSUME Shape, NEW count, Counted(count), EndsIf
  PROVE  \E c2 : Counted(c2)'
<1>1. PICK t : t = Goto(Top.exit) OBVIOUS
<1>2. PICK more : more = <<>> OBVIOUS
<1>3. PICK xs : xs = {} OBVIOUS
<1>4. Jumped(t, xs, more) /\ Pops
  BY <1>1, <1>2, <1>3 DEF EndsIf
<1>5. JumpKeeps(t, more) /\ phase = "lower"
  BY <1>4, JumpedKeeps DEF JumpKeeps
<1>6. PICK top : top = Len(frames) OBVIOUS
<1>7. /\ top \in DOMAIN frames /\ Top = frames[top] /\ cur' = Top.exit
      /\ DOMAIN frames' = DOMAIN frames \ {top}
      /\ \A i \in DOMAIN frames' : frames'[i] = frames[i]
  BY <1>4, <1>5, <1>6, PopsFrames
<1>8. DOMAIN blocks \subseteq DOMAIN blocks' /\ declared' = declared
  BY <1>5 DEF JumpKeeps
<1>9. Top.exit \in Pending(frames[top])
  BY <1>7 DEF Pending
<1>10. Full(count, cur') /\ blocks'[cur'].ins = <<>>
  BY <1>5, <1>7, <1>9, PendingFull
<1>11. \A i \in DOMAIN frames' :
           /\ \A c \in Pending(frames[i])' : Full(count, c) /\ c # 1
           /\ frames'[i].kind = "loop" => Full(count, frames'[i].target)
  <2> SUFFICES ASSUME NEW i \in DOMAIN frames'
               PROVE  /\ \A c \in Pending(frames'[i]) : Full(count, c) /\ c # 1
                      /\ frames'[i].kind = "loop" => Full(count, frames'[i].target)
    BY DEF Pending
  <2>1. frames'[i] = frames[i] /\ i \in DOMAIN frames
    BY <1>7
  <2>2. /\ \A c \in Pending(frames[i]) : Full(count, c) /\ c # 1
        /\ frames[i].kind = "loop" => Full(count, frames[i].target)
    BY <1>8, <2>1, FramesFull
  <2> QED BY <2>1, <2>2
<1>12. t.then = cur' /\ t.else = cur'
  BY <1>1, <1>7 DEF Goto
<1>13. DOMAIN more = {}
  BY <1>2
<1>14. Full(count, t.then) /\ Full(count, t.else)
  BY <1>10, <1>12
<1> QED BY <1>5, <1>10, <1>11, <1>13, <1>14, CountedJumped

LEMMA CountedEndsLoop ==
  ASSUME Shape, Neat', NEW count, Counted(count), EndsLoop
  PROVE  \E c2 : Counted(c2)'
<1>1. /\ phase = "lower" /\ Top.kind = "loop" /\ Pops /\ declared' = declared /\ inited' = inited
      /\ DOMAIN blocks' = DOMAIN blocks
      /\ \A c \in DOMAIN blocks :
           /\ blocks'[c].ins = blocks[c].ins
           /\ blocks'[c].clears = IF c = Top.entry THEN Top.locals ELSE blocks[c].clears
           /\ blocks'[c].frees = IF c = cur THEN Top.locals ELSE blocks[c].frees
           /\ blocks'[c].term = IF c = cur THEN Goto(Top.target) ELSE blocks[c].term
  BY DEF EndsLoop
<1>2. PICK top : top = Len(frames) OBVIOUS
<1>3. /\ top \in DOMAIN frames /\ Top = frames[top] /\ cur' = Top.exit
      /\ DOMAIN frames' = DOMAIN frames \ {top}
      /\ \A i \in DOMAIN frames' : frames'[i] = frames[i]
      /\ blocks[cur'].ins = <<>> /\ cur' \in DOMAIN blocks
  BY <1>1, <1>2, PopsFrames
<1>4. cur \in DOMAIN blocks
  BY ShapeFacts
<1>5. Top.locals = {}
  BY <1>1, <1>4 DEF Neat
<1>6. \A b \in DOMAIN blocks : /\ blocks'[b].ins = blocks[b].ins
                               /\ blocks'[b].clears = {}
                               /\ b # cur => blocks'[b].term = blocks[b].term
  BY <1>1, <1>5 DEF Counted
<1>7. Full(count, Top.target)
  BY <1>1, <1>3, FramesFull
<1>8. Full(count, cur') /\ blocks'[cur'].ins = <<>>
  <2>1. cur' \in Pending(frames[top])
    BY <1>3 DEF Pending
  <2> QED BY <1>1, <1>3, <2>1, FramesFull
<1>9. \A i \in DOMAIN frames' :
           /\ \A c \in Pending(frames[i])' : Full(count, c) /\ c # 1
           /\ frames'[i].kind = "loop" => Full(count, frames'[i].target)
  <2> SUFFICES ASSUME NEW i \in DOMAIN frames'
               PROVE  /\ \A c \in Pending(frames'[i]) : Full(count, c) /\ c # 1
                      /\ frames'[i].kind = "loop" => Full(count, frames'[i].target)
    BY DEF Pending
  <2>1. frames'[i] = frames[i] /\ i \in DOMAIN frames
    BY <1>3
  <2>2. /\ \A c \in Pending(frames[i]) : Full(count, c) /\ c # 1
        /\ frames[i].kind = "loop" => Full(count, frames[i].target)
    BY <1>1, <2>1, FramesFull
  <2> QED BY <2>1, <2>2
<1>10. Full(count, blocks'[cur].term.then) /\ Full(count, blocks'[cur].term.else)
  <2>1. blocks'[cur].term = Goto(Top.target)
    BY <1>1, <1>4
  <2> QED BY <1>7, <2>1 DEF Goto
<1>11. DOMAIN blocks' \ DOMAIN blocks = {}
  BY <1>1
<1> QED BY <1>1, <1>6, <1>8, <1>9, <1>10, <1>11, CountedControl

LEMMA CountedLeaves ==
  ASSUME Shape, NEW count, Counted(count), NEW t, NEW xs, Leaves(t, xs),
         t.kind # "return" =>
           /\ {t.then, t.else} \subseteq DOMAIN blocks
           /\ count[t.then] = declared /\ count[t.else] = declared
  PROVE  \E c2 : Counted(c2)'
<1>1. PICK more : more = <<NewBlock>> OBVIOUS
<1>2. PICK n : n = Len(blocks) OBVIOUS
<1>3. Jumped(t, xs, more) /\ cur' = n + 1 /\ phase' = phase /\ frames' = frames
  BY <1>1, <1>2 DEF Leaves
<1>4. JumpKeeps(t, more)
  BY <1>3, JumpedKeeps
<1>5. /\ DOMAIN blocks \subseteq DOMAIN blocks' /\ declared' = declared
      /\ DOMAIN blocks' = 1 .. n + Len(more) /\ DOMAIN blocks = 1 .. n /\ n \in Nat
      /\ \A b \in DOMAIN blocks' \ DOMAIN blocks : \E j \in DOMAIN more : blocks'[b] = more[j]
  BY <1>2, <1>4 DEF JumpKeeps
<1>6. Len(more) = 1 /\ DOMAIN more = {1} /\ more[1] = NewBlock
  BY <1>1
<1>7. \A j \in DOMAIN more : more[j].ins = <<>> /\ more[j].clears = {}
                             /\ more[j].term = Unreachable
  BY <1>6, NewBlockIs
<1>8. Full(count, cur') /\ blocks'[cur'].ins = <<>>
  <2>1. cur' \in DOMAIN blocks' \ DOMAIN blocks
    BY <1>3, <1>5, <1>6
  <2> QED BY <1>5, <1>7, <2>1 DEF Full
<1>9. \A i \in DOMAIN frames' :
           /\ \A c \in Pending(frames[i])' : Full(count, c) /\ c # 1
           /\ frames'[i].kind = "loop" => Full(count, frames'[i].target)
  <2> SUFFICES ASSUME NEW i \in DOMAIN frames
               PROVE  /\ \A c \in Pending(frames[i]) : Full(count, c) /\ c # 1
                      /\ frames[i].kind = "loop" => Full(count, frames[i].target)
    BY <1>3 DEF Pending
  <2> QED BY <1>5, FramesFull
<1>10. t.kind # "return" => Full(count, t.then) /\ Full(count, t.else)
  BY <1>5 DEF Full
<1> QED BY <1>2, <1>4, <1>7, <1>8, <1>9, <1>10, CountedJumped

LEMMA CountedBreaks ==
  ASSUME Shape, NEW count, Counted(count), Breaks
  PROVE  \E c2 : Counted(c2)'
<1>1. PICK b \in {Innermost.exit, Innermost.target} : Leaves(Goto(b), Innermost.locals)
  BY DEF Breaks
<1>2. PICK i : i = LoopAt OBVIOUS
<1>3. i \in DOMAIN frames /\ Innermost = frames[i] /\ frames[i].kind = "loop"
  BY <1>2, LoopAtIs DEF Breaks
<1>4. b \in DOMAIN blocks
  BY <1>3, FrameTypes
<1>5. count[b] = declared
  BY <1>3 DEF Counted, Pending
<1>6. PICK t : t = Goto(b) OBVIOUS
<1>7. t.then = b /\ t.else = b
  BY <1>6 DEF Goto
<1> QED BY <1>1, <1>4, <1>5, <1>6, <1>7, CountedLeaves

LEMMA CountedReturns ==
  ASSUME Shape, NEW count, Counted(count), Returns
  PROVE  \E c2 : Counted(c2)'
<1>1. PICK x : Leaves(Return(x), {})
  BY DEF Returns
<1>2. PICK t : t = Return(x) OBVIOUS
<1>3. PICK xs : xs = {} OBVIOUS
<1>4. t.kind = "return" /\ Leaves(t, xs)
  BY <1>1, <1>2, <1>3 DEF Return
<1> QED BY <1>4, CountedLeaves

LEMMA CountedFinishes ==
  ASSUME Shape, NEW count, Counted(count), Finishes
  PROVE  \E c2 : Counted(c2)'
<1>1. PICK x : Jumped(Return(x), {}, <<>>)
  BY DEF Finishes
<1>2. PICK t : t = Return(x) OBVIOUS
<1>3. PICK xs : xs = {} OBVIOUS
<1>4. PICK more : more = <<>> OBVIOUS
<1>5. Jumped(t, xs, more) /\ t.kind = "return" /\ DOMAIN more = {}
  BY <1>1, <1>2, <1>3, <1>4 DEF Return
<1>6. JumpKeeps(t, more)
  BY <1>5, JumpedKeeps
<1>7. frames' = <<>> /\ phase' = "elaborate"
  BY DEF Finishes
<1>8. DOMAIN frames' = {}
  BY <1>7
<1> QED BY <1>5, <1>6, <1>7, <1>8, CountedJumped

\* What every step of the control keeps.
LEMMA ControlKeeps ==
  ASSUME Shape, Controls
  PROVE  /\ phase = "lower" /\ phase' \in {"lower", "elaborate"}
         /\ declared' = declared /\ inited' = inited
         /\ Len(blocks) \in Nat /\ Len(blocks') \in Nat /\ Len(blocks) <= Len(blocks')
         /\ DOMAIN blocks = 1 .. Len(blocks) /\ DOMAIN blocks' = 1 .. Len(blocks')
         /\ \A b \in DOMAIN blocks :
              /\ blocks'[b].ins = blocks[b].ins
              /\ blocks[b].frees = {} \/ blocks'[b].frees = blocks[b].frees
<1>1. ASSUME NEW t, NEW xs, NEW more, Jumped(t, xs, more), phase' \in {"lower", "elaborate"}
      PROVE  /\ phase = "lower" /\ phase' \in {"lower", "elaborate"}
             /\ declared' = declared /\ inited' = inited
             /\ Len(blocks) \in Nat /\ Len(blocks') \in Nat /\ Len(blocks) <= Len(blocks')
             /\ DOMAIN blocks = 1 .. Len(blocks) /\ DOMAIN blocks' = 1 .. Len(blocks')
             /\ \A b \in DOMAIN blocks :
                  /\ blocks'[b].ins = blocks[b].ins
                  /\ blocks[b].frees = {} \/ blocks'[b].frees = blocks[b].frees
  <2>1. JumpKeeps(t, more) /\ blocks' \in Seq(Blocks)
    BY <1>1, JumpedKeeps DEF Jumped
  <2>2. /\ phase = "lower" /\ declared' = declared /\ inited' = inited
        /\ DOMAIN blocks' = 1 .. Len(blocks) + Len(more)
        /\ DOMAIN blocks = 1 .. Len(blocks) /\ Len(blocks) \in Nat /\ Len(more) \in Nat
        /\ blocks[cur].frees = {}
        /\ \A b \in DOMAIN blocks :
              /\ blocks'[b].ins = blocks[b].ins
              /\ b # cur => blocks'[b].frees = blocks[b].frees
    BY <2>1 DEF JumpKeeps
  <2>3. Len(blocks') = Len(blocks) + Len(more)
    BY <2>1, <2>2
  <2> QED BY <1>1, <2>2, <2>3
<1>2. ASSUME NEW t, NEW more, NEW f, Opening(t, more, f)
      PROVE  \E xs : Jumped(t, xs, more) /\ phase' \in {"lower", "elaborate"}
  BY <1>2 DEF Opening, Jumped
<1>3. CASE Starts
  <2>1. \E t, more, f : Opening(t, more, f)
    BY <1>3 DEF Starts, Ifs, Whiles, Loops
  <2> QED BY <1>1, <1>2, <2>1
<1>4. CASE Elses \/ EndsIf
  <2>1. PICK t : t = Goto(Top.exit) OBVIOUS
  <2>2. PICK xs : xs = {} OBVIOUS
  <2>3. PICK more : more = <<>> OBVIOUS
  <2>4. Jumped(t, xs, more) /\ phase' = phase
    BY <1>4, <2>1, <2>2, <2>3 DEF Elses, EndsIf, Pops
  <2>5. phase' \in {"lower", "elaborate"}
    BY <2>4 DEF Jumped
  <2> QED BY <1>1, <2>4, <2>5
<1>5. CASE EndsLoop
  <2>1. /\ phase = "lower" /\ phase' = phase /\ declared' = declared /\ inited' = inited
        /\ DOMAIN blocks' = DOMAIN blocks /\ blocks' \in Seq(Blocks)
        /\ \A b \in DOMAIN blocks :
             /\ blocks'[b].ins = blocks[b].ins
             /\ b # cur => blocks'[b].frees = blocks[b].frees
    BY <1>5 DEF EndsLoop, Pops
  <2>2. blocks[cur].frees = {}
    BY <2>1, Unfreed
  <2>3. DOMAIN blocks = 1 .. Len(blocks) /\ Len(blocks) \in Nat
    BY ShapeFacts
  <2>4. Len(blocks') = Len(blocks)
    BY <2>1, <2>3
  <2> QED BY <2>1, <2>2, <2>3, <2>4
<1>6. CASE Breaks \/ Returns
  <2>1. \E t, xs : Leaves(t, xs)
    BY <1>6 DEF Breaks, Returns
  <2>2. \E t, xs, more : Jumped(t, xs, more) /\ phase' \in {"lower", "elaborate"}
    BY <2>1 DEF Leaves, Jumped
  <2> QED BY <1>1, <2>2
<1>7. CASE Finishes
  <2>1. \E t, xs, more : Jumped(t, xs, more) /\ phase' \in {"lower", "elaborate"}
    BY <1>7 DEF Finishes
  <2> QED BY <1>1, <2>1
<1> QED BY <1>3, <1>4, <1>5, <1>6, <1>7 DEF Controls

LEMMA NeatControls ==
  ASSUME Shape, Controls, Neat'
  PROVE  Neat
<1>1. /\ DOMAIN blocks \subseteq DOMAIN blocks' /\ phase = "lower"
      /\ \A b \in DOMAIN blocks :
              /\ blocks'[b].ins = blocks[b].ins
              /\ blocks[b].frees = {} \/ blocks'[b].frees = blocks[b].frees
  <2>1. /\ phase = "lower"
        /\ Len(blocks) \in Nat /\ Len(blocks') \in Nat /\ Len(blocks) <= Len(blocks')
        /\ DOMAIN blocks = 1 .. Len(blocks) /\ DOMAIN blocks' = 1 .. Len(blocks')
        /\ \A b \in DOMAIN blocks :
              /\ blocks'[b].ins = blocks[b].ins
              /\ blocks[b].frees = {} \/ blocks'[b].frees = blocks[b].frees
    BY ControlKeeps
  <2> QED BY <2>1
<1>2. \A i \in DOMAIN frames : frames[i].kind = "loop" =>
         \/ frames[i].locals = {}
         \/ /\ i \in DOMAIN frames' /\ frames'[i].kind = "loop"
            /\ frames'[i].locals = frames[i].locals
  <2>1. CASE Starts
    <3>1. PICK f : frames' = Append(frames, f) /\ f \in Frames
      BY <2>1 DEF Starts, Ifs, Whiles, Loops, Opening
    <3>2. /\ DOMAIN frames' = 1 .. Len(frames) + 1 /\ DOMAIN frames = 1 .. Len(frames)
          /\ Len(frames) \in Nat /\ \A i \in DOMAIN frames : frames'[i] = frames[i]
      BY <3>1, ShapeFacts, AppendedIsOne
    <3> QED BY <3>2
  <2>2. CASE Elses
    <3>1. /\ Top.kind = "then" /\ DOMAIN frames' = DOMAIN frames
          /\ \A i \in DOMAIN frames \ {Len(frames)} : frames'[i] = frames[i]
      BY <2>2 DEF Elses
    <3> QED BY <3>1 DEF Top
  <2>3. CASE EndsIf \/ EndsLoop
    <3>1. PICK top : top = Len(frames) OBVIOUS
    <3>2. /\ DOMAIN frames' = DOMAIN frames \ {top} /\ Top = frames[top]
          /\ \A i \in DOMAIN frames' : frames'[i] = frames[i]
      BY <1>1, <2>3, <3>1, PopsFrames DEF EndsIf, EndsLoop
    <3>3. frames[top].kind # "loop" \/ frames[top].locals = {}
      <4>1. CASE EndsIf
        BY <3>2, <4>1 DEF EndsIf
      <4>2. CASE EndsLoop
        <5>1. cur \in DOMAIN blocks
          BY ShapeFacts
        <5>2. cur \in DOMAIN blocks' /\ blocks'[cur].frees = Top.locals
          BY <4>2, <5>1 DEF EndsLoop
        <5> QED BY <3>2, <5>2 DEF Neat
      <4> QED BY <2>3, <4>1, <4>2
    <3> QED BY <3>2, <3>3
  <2>4. CASE Breaks \/ Returns \/ Finishes
    <3>1. frames' = frames
      BY <2>4 DEF Breaks, Returns, Finishes, Leaves
    <3> QED BY <3>1
  <2> QED BY <2>1, <2>2, <2>3, <2>4 DEF Controls
<1> QED BY <1>1, <1>2, NeatLess

LEMMA CountedControls ==
  ASSUME Shape, Neat', NEW count, Counted(count), Controls
  PROVE  \E c2 : Counted(c2)'
BY CountedStarts, CountedElses, CountedEndsIf, CountedEndsLoop, CountedBreaks,
   CountedReturns, CountedFinishes DEF Controls

LEMMA EvenControls ==
  ASSUME Shape, Even, Controls
  PROVE  Even'
BY EvenBranches, EvenReturns, EvenFinishes DEF Controls

-----------------------------------------------------------------------------
(* No object is left *)

LEMMA TidyInit ==
  ASSUME Init
  PROVE  Tidy
<1>1. phase = "lower"
  BY DEF Init
<1> QED
  BY <1>1, EvenInit, AllDefinedInit, CountedInit DEF Tidy, NothingLeaks, Returned

LEMMA TidyLowers ==
  ASSUME Owning, Disciplined(fragment), Tidy, Statements \/ Controls
  PROVE  Tidy'
<1>0. Shape /\ Ordered /\ AllDefined /\ Even
  BY DEF Owning, Tidy
<1>1. phase = "lower" /\ phase' \in {"lower", "elaborate"}
  BY <1>0, ControlKeeps, StatementHolds DEF Emits
<1>2. AllDefined'
  BY <1>0, AllDefinedGrows, ControlKeeps, AllDefinedKept
<1>3. Even'
  BY <1>0, EvenStatements, EvenControls
<1>4. ASSUME Neat' PROVE \E c2 : Counted(c2)'
  <2>1. Neat
    BY <1>0, <1>4, NeatStatements, NeatControls
  <2>2. PICK count : Counted(count)
    BY <2>1 DEF Tidy
  <2> QED BY <1>0, <1>4, <2>2, CountedStatements, CountedControls
<1> QED BY <1>1, <1>2, <1>3, <1>4 DEF Tidy, NothingLeaks, Returned

\* Drop elaboration and the leftovers read nothing but the blocks.
LEMMA ElaborationSame ==
  ASSUME blocks' = blocks
  PROVE  DropLocals' = DropLocals /\ Entangled' = Entangled
<1>1. Body' = Body
  BY DEF Body
<1>2. ReturnAliases' = ReturnAliases
  BY <1>1 DEF ReturnAliases, ReturnLocals, ClosedUnderCopy
<1>3. DeallocSafe' = DeallocSafe
  BY DEF DeallocSafe
<1>4. MovedToFfi' = MovedToFfi
  BY <1>1 DEF MovedToFfi
<1> QED BY <1>1, <1>2, <1>3, <1>4 DEF DropLocals, Entangled

LEMMA BlankSnug ==
  ASSUME Shape, mem = Blank, NEW S
  PROVE  Snug(mem, S)
<1>1. mem \in Memory
  BY DEF Shape, StateTypes
<1>2. \A o \in Objects : mem.heap[o] = "unborn"
  BY DEF Blank
<1> QED BY <1>1, <1>2 DEF Snug, Held

LEMMA TidyInsertDrops ==
  ASSUME Owning, Tidy, InsertDrops
  PROVE  Tidy'
<1>1. /\ phase = "elaborate" /\ phase' = "run" /\ drops' = DropLocals
      /\ UNCHANGED <<fragment, returns, blocks, cur, frames, declared, visible, moved,
                     inited, open, spent, at, jumps, mem>>
  BY DEF InsertDrops, lowering, running
<1>2. DropLocals' = DropLocals
  BY <1>1, ElaborationSame
<1>3. Even' /\ AllDefined'
  BY <1>1, EvenSame DEF Tidy, AllDefined
<1>4. at = 1 /\ mem = Blank /\ Shape
  BY <1>1 DEF Owning
<1>5. at' = 1 /\ mem' = Blank'
  BY <1>1, <1>4 DEF Blank, Unset
<1>6. ASSUME Neat'
      PROVE  \E count : Counted(count)' /\ Snug(mem', 1 .. count[at'])
  <2>1. Neat
    BY <1>1, <1>6 DEF Neat
  <2>2. PICK count : Counted(count)
    BY <2>1 DEF Tidy
  <2>3. Counted(count)'
    BY <1>1, <2>2, CountedSame
  <2>4. Snug(mem, 1 .. count[at])
    BY <1>4, BlankSnug
  <2> QED BY <1>1, <2>3, <2>4
<1>7. NothingLeaks'
  BY <1>1 DEF NothingLeaks, Returned
<1> QED BY <1>1, <1>2, <1>3, <1>5, <1>6, <1>7 DEF Tidy

LEMMA TidyStutters ==
  ASSUME Tidy, UNCHANGED vars
  PROVE  Tidy'
<1>1. UNCHANGED <<phase, fragment, returns, blocks, cur, frames, declared, visible, moved,
                  inited, open, spent, drops, at, jumps, mem>>
  BY DEF vars, lowering, running
<1>2. DropLocals' = DropLocals /\ Entangled' = Entangled
  BY <1>1, ElaborationSame
<1>3. Even' /\ AllDefined'
  BY <1>1, EvenSame DEF Tidy, AllDefined
<1>4. Blank' = Blank /\ Flat' = Flat
  BY <1>1 DEF Blank, Unset, Flat
<1>5. ASSUME Neat'
      PROVE  \E count : Counted(count)' /\ (phase' = "run" => Snug(mem', 1 .. count[at']))
  <2>1. Neat
    BY <1>1, <1>5 DEF Neat
  <2>2. PICK count : Counted(count) /\ (phase = "run" => Snug(mem, 1 .. count[at]))
    BY <2>1 DEF Tidy
  <2>3. Counted(count)'
    BY <1>1, <2>2, CountedSame
  <2> QED BY <1>1, <2>2, <2>3
<1>6. NothingLeaks'
  BY <1>1, <1>2 DEF Tidy, NothingLeaks, Returned, Leaked
<1> QED BY <1>1, <1>2, <1>3, <1>4, <1>5, <1>6 DEF Tidy

\* Where nothing is entangled, no object changes hands.
LEMMA UntangledNeat ==
  ASSUME Shape, phase # "lower", Entangled = {}
  PROVE  Neat
<1>1. PICK E : E = Entangled OBVIOUS
<1>2. \A b \in DOMAIN blocks : Confined(blocks[b], E)
  BY <1>1, EntangledWithin
<1>3. E = {}
  BY <1>1
<1>4. ASSUME NEW b \in DOMAIN blocks
      PROVE  /\ blocks[b].frees = {}
             /\ \A j \in DOMAIN blocks[b].ins : blocks[b].ins[j].op \in {"alloc", "free"}
  BY <1>2, <1>3 DEF Confined
<1>5. frames = <<>>
  BY DEF Shape, Lowered
<1> QED BY <1>4, <1>5 DEF Neat

\* A step from one block to the next, or to the end.
LEMMA RunIs ==
  ASSUME Owning, RunBlock
  PROVE  /\ phase = "run" /\ at \in DOMAIN blocks /\ blocks[at] \in Blocks
         /\ blocks[at].term \in Jumps /\ mem \in Memory
         /\ blocks[at].term.value \in {0} \cup Locals
         /\ Executed(mem, blocks[at]) \in Memory
         /\ IF blocks[at].term.kind = "return"
            THEN /\ mem' = Leave(Executed(mem, blocks[at]), blocks[at].term.value)
                 /\ phase' = "done" /\ at' = at
            ELSE /\ mem' = Executed(mem, blocks[at])
                 /\ phase' = IF mem'.fault = "none" THEN "run" ELSE "done"
                 /\ at' \in {blocks[at].term.then, blocks[at].term.else}
         /\ UNCHANGED <<fragment, returns, blocks, cur, frames, declared, visible, moved,
                        inited, open, spent, drops>>
<1>1. /\ phase = "run"
      /\ UNCHANGED <<fragment, returns, blocks, cur, frames, declared, visible, moved,
                     inited, open, spent, drops>>
  BY DEF RunBlock, lowering
<1>2. /\ at \in DOMAIN blocks /\ blocks[at] \in Blocks /\ mem \in Memory
      /\ blocks[at].term \in Jumps
  <2>1. Lowered /\ mem \in Memory /\ at \in DOMAIN blocks /\ blocks \in Seq(Blocks)
    BY <1>1 DEF Owning, Shape, StateTypes
  <2> QED BY <2>1, BlockParts DEF Lowered
<1>3. blocks[at].term.value \in {0} \cup Locals
  BY <1>2 DEF Jumps
<1>4. Executed(mem, blocks[at]) \in Memory
  BY <1>2, ExecutedType
<1>5. PICK b : b = blocks[at] OBVIOUS
<1>6. PICK after : after = Executed(mem, b) OBVIOUS
<1>7. IF b.term.kind = "return"
      THEN mem' = Leave(after, b.term.value) /\ phase' = "done" /\ at' = at
      ELSE /\ mem' = after
           /\ phase' = IF after.fault = "none" THEN "run" ELSE "done"
           /\ at' \in {b.term.then, b.term.else}
  BY <1>5, <1>6 DEF RunBlock
<1> QED BY <1>1, <1>2, <1>3, <1>4, <1>5, <1>6, <1>7

\* In a neat body the next block finds every object with the locals it
\* counts on, and so does the return.
LEMMA NeatRuns ==
  ASSUME Owning, RunBlock, NEW count, Counted(count), Neat, Snug(mem, 1 .. count[at]),
         NEW b, b = blocks[at], NEW after, after = Executed(mem, b)
  PROVE  /\ b.term.kind = "return" => Snug(after, 1 .. declared)
         /\ b.term.kind # "return" =>
              \A c \in {b.term.then, b.term.else} : Snug(after, 1 .. count[c])
<1>1. /\ at \in DOMAIN blocks /\ b \in Blocks /\ b.term \in Jumps
  BY RunIs
<1>2. /\ b.clears = {} /\ b.frees = {} /\ Closed(count, at)
      /\ count \in [DOMAIN blocks -> 0 .. declared]
  <2>1. b.term # Unreachable
    BY <1>1, JumpsEnd
  <2> QED BY <1>1, <2>1 DEF Counted, Neat
<1>3. declared \in Nat /\ 1 .. declared \subseteq Locals
  BY ShapeFacts DEF Owning
<1>4. \A c \in DOMAIN blocks : 1 .. count[c] \in SUBSET Locals
  <2> SUFFICES ASSUME NEW c \in DOMAIN blocks PROVE 1 .. count[c] \subseteq Locals
    OBVIOUS
  <2>1. count[c] \in 0 .. declared
    BY <1>2
  <2> QED BY <1>3, <2>1
<1>5. PICK S : S = 1 .. count[at] OBVIOUS
<1>6. S \in SUBSET Locals /\ Snug(mem, S)
  BY <1>1, <1>4, <1>5
<1>7. ASSUME b.term.kind = "return" PROVE Snug(after, 1 .. declared)
  <2>1. PICK T : T = 1 .. declared OBVIOUS
  <2>2. Carries(b.ins, S, T) /\ T \in SUBSET Locals
    BY <1>2, <1>3, <1>5, <1>7, <2>1 DEF Closed
  <2>3. Snug(after, T)
    BY <1>1, <1>2, <1>6, <2>2, SnugBlock
  <2> QED BY <2>1, <2>3
<1>8. ASSUME b.term.kind # "return", NEW c \in {b.term.then, b.term.else}
      PROVE  Snug(after, 1 .. count[c])
  <2>1. c \in DOMAIN blocks
    BY <1>1, <1>8 DEF Owning, Shape, Targets
  <2>2. PICK T : T = 1 .. count[c] OBVIOUS
  <2>3. Carries(b.ins, S, T) /\ T \in SUBSET Locals
    BY <1>2, <1>4, <1>5, <1>8, <2>1, <2>2 DEF Closed
  <2>4. Snug(after, T)
    BY <1>1, <1>2, <1>6, <2>3, SnugBlock
  <2> QED BY <2>2, <2>4
<1> QED BY <1>7, <1>8

\* The three ways of the last block: without branches, local by local, and
\* where nothing is entangled.
LEMMA EndLeaks ==
  ASSUME Owning, Tidy, RunBlock, Returned'
  PROVE  NothingLeaks'
<1>0. /\ Shape /\ AllDefined /\ Even /\ phase = "run" /\ drops = DropLocals
      /\ drops \subseteq Locals
  <2>1. Shape /\ phase = "run" /\ DropsOwn
    BY RunIs DEF Owning
  <2>2. drops \subseteq Locals
    BY <2>1, ShapeFacts DEF DropsOwn
  <2> QED BY <2>1, <2>2 DEF Tidy
<1>1. PICK b : b = blocks[at] OBVIOUS
<1>2. PICK m : m = Executed(mem, b) OBVIOUS
<1>3. PICK v : v = b.term.value OBVIOUS
<1>4. PICK n : n = mem' OBVIOUS
<1>5. /\ at \in DOMAIN blocks /\ b \in Blocks /\ b.term \in Jumps /\ m \in Memory
      /\ v \in {0} \cup Locals /\ n.fault = "none"
      /\ IF b.term.kind = "return" THEN n = Leave(m, v)
         ELSE phase' = IF n.fault = "none" THEN "run" ELSE "done"
      /\ UNCHANGED <<fragment, returns, blocks, cur, frames, declared, visible, moved,
                     inited, open, spent, drops>>
  BY <1>1, <1>2, <1>3, <1>4, RunIs DEF Returned
<1>6. b.term.kind = "return" /\ n = Leave(m, v)
  BY <1>5 DEF Returned
<1>7. Entangled' = Entangled
  BY <1>5, ElaborationSame
<1>8. PICK left : left = Leaked' OBVIOUS
<1>9. left = {o \in Objects : n.heap[o] = "live"} \ (n.kept \cup {n.result})
  BY <1>4, <1>8 DEF Leaked
<1>10. ASSUME NEW S \in SUBSET Locals, Snug(m, S), S \ {v} \subseteq drops
       PROVE  left = {}
  <2>1. \A o \in Objects : n.heap[o] = "live" => o \in n.kept \cup {n.result}
    BY <1>0, <1>5, <1>6, <1>10, LeaveSnug
  <2> QED BY <1>9, <2>1
<1>11. ASSUME "revive" \notin fragment.outside,
              \A c \in DOMAIN blocks : blocks[c].term.kind = "return"
       PROVE  left = {}
  <2>1. Flat
    BY <1>11 DEF Flat
  <2>2. Level /\ at = 1 /\ mem = Blank
    BY <1>0, <2>1 DEF Even, Tidy
  <2>3. b.clears = {} /\ b.frees = {} /\ Carries(b.ins, {}, Holders)
    BY <1>1, <2>2 DEF Level
  <2>4. PICK S : S = {} OBVIOUS
  <2>5. PICK T : T = Holders OBVIOUS
  <2>6. S \in SUBSET Locals /\ T \in SUBSET Locals /\ Carries(b.ins, S, T) /\ Snug(mem, S)
    BY <1>0, <2>2, <2>3, <2>4, <2>5, BlankSnug, ShapeFacts DEF Holders
  <2>7. Snug(m, T)
    BY <1>2, <1>5, <2>3, <2>6, SnugBlock
  <2>8. T \ {v} \subseteq drops
    BY <1>0, <1>1, <1>3, <1>11, <2>2, <2>5, LevelDrops
  <2> QED BY <1>10, <2>6, <2>7, <2>8
<1>12. ASSUME NEW x \in (1 .. declared) \ Entangled
       PROVE  n.env[x] \notin left
  <2>1. x \in drops
    BY <1>0, <1>12, UntangledDropped
  <2>2. /\ n.env = m.env
        /\ \A o \in Objects : n.heap[o] = "live" => \A y \in drops : m.env[y] # o
    BY <1>0, <1>5, <1>6, LeaveIs
  <2> QED BY <1>9, <2>1, <2>2
<1>13. ASSUME Entangled = {}
       PROVE  left = {}
  <2>1. Neat
    BY <1>0, <1>13, UntangledNeat
  <2>2. PICK count : Counted(count) /\ Snug(mem, 1 .. count[at])
    BY <1>0, <2>1 DEF Tidy
  <2>3. PICK S : S = 1 .. declared OBVIOUS
  <2>4. Snug(m, S)
    BY <1>1, <1>2, <1>6, <2>1, <2>2, <2>3, NeatRuns
  <2>5. S \in SUBSET Locals
    BY <1>0, <2>3, ShapeFacts
  <2>6. S \subseteq drops
    BY <1>0, <1>13, <2>3, UntangledDropped
  <2> QED BY <1>10, <2>4, <2>5, <2>6
<1>14. /\ ("revive" \notin fragment'.outside
           /\ \A c \in DOMAIN blocks' : blocks'[c].term.kind = "return") => Leaked' = {}
       /\ \A x \in (1 .. declared') \ Entangled' : mem'.env[x] \notin Leaked'
       /\ Entangled' = {} => Leaked' = {}
  BY <1>4, <1>5, <1>7, <1>8, <1>11, <1>12, <1>13
<1> QED BY <1>14 DEF NothingLeaks

LEMMA TidyRunBlock ==
  ASSUME Owning, Tidy, RunBlock
  PROVE  Tidy'
<1>1. PICK b : b = blocks[at] OBVIOUS
<1>2. PICK after : after = Executed(mem, b) OBVIOUS
<1>3. /\ phase = "run" /\ at \in DOMAIN blocks /\ b.term \in Jumps
      /\ phase' \in {"run", "done"}
      /\ phase' = "run" => /\ b.term.kind # "return" /\ mem' = after
                           /\ at' \in {b.term.then, b.term.else}
      /\ UNCHANGED <<fragment, returns, blocks, cur, frames, declared, visible, moved,
                     inited, open, spent, drops>>
  BY <1>1, <1>2, RunIs
<1>4. DropLocals' = DropLocals
  BY <1>3, ElaborationSame
<1>5. Even' /\ AllDefined'
  BY <1>3, EvenSame DEF Tidy, AllDefined
<1>6. ~(phase' = "run" /\ Flat')
  <2> SUFFICES ASSUME phase' = "run", Flat' PROVE FALSE OBVIOUS
  <2>1. b.term.kind \in {"return", "unreachable"}
    BY <1>1, <1>3 DEF Flat
  <2>2. b.term.kind \in {"goto", "branch", "return"}
    BY <1>3 DEF Jumps
  <2> QED BY <1>3, <2>1, <2>2
<1>7. ASSUME Neat'
      PROVE  \E count : Counted(count)' /\ (phase' = "run" => Snug(mem', 1 .. count[at']))
  <2>1. Neat
    BY <1>3, <1>7 DEF Neat
  <2>2. PICK count : Counted(count) /\ Snug(mem, 1 .. count[at])
    BY <1>3, <2>1 DEF Tidy
  <2>3. Counted(count)'
    BY <1>3, <2>2, CountedSame
  <2>4. phase' = "run" => Snug(mem', 1 .. count[at'])
    BY <1>1, <1>2, <1>3, <2>1, <2>2, NeatRuns
  <2> QED BY <2>3, <2>4
<1>8. NothingLeaks'
  BY EndLeaks DEF NothingLeaks
<1>9. drops' = DropLocals'
  BY <1>3, <1>4 DEF Tidy
<1> QED BY <1>5, <1>6, <1>7, <1>8, <1>9 DEF Tidy

\* Every object of a program that returns has an owner: without branches all
\* of them do, with branches those that only ever had one local.
THEOREM DropsNothingLeaks == WellBehaved => (Spec => []NothingLeaks)
<1> SUFFICES ASSUME WellBehaved PROVE Spec => []NothingLeaks OBVIOUS
<1>1. Init => Tidy
  BY TidyInit
<1>2. Owning /\ Tidy /\ [Next]_vars => Tidy'
  <2> SUFFICES ASSUME Owning, Tidy, [Next]_vars PROVE Tidy' OBVIOUS
  <2>1. Disciplined(fragment) /\ Shape
    BY ShapeFacts DEF Owning, WellBehaved
  <2>2. \/ Statements \/ Controls \/ InsertDrops \/ RunBlock \/ UNCHANGED vars
    BY <2>1, NextSays DEF Controls
  <2> QED BY <2>1, <2>2, TidyLowers, TidyInsertDrops, TidyRunBlock, TidyStutters
<1>3. Tidy => NothingLeaks
  BY DEF Tidy
<1>4. Spec => []Owning
  BY DropsOwning
<1> QED BY <1>1, <1>2, <1>3, <1>4, PTL DEF Spec
=============================================================================
