-------------------------- MODULE PackagesProofs --------------------------
(***************************************************************************)
(* Theorems about Packages, for any number of pieces, revisions, commands  *)
(* and processes, and whatever pieces come to need: a resolution does not  *)
(* go in circles and is never deeper than there are pieces, a command that *)
(* ends leaves a lock for all it built, a complete lock that no manifest   *)
(* contradicts decides what is built, and a piece is compiled after all    *)
(* that it depends on.                                                     *)
(***************************************************************************)
EXTENDS Packages, SequenceTheorems, FiniteSetTheorems, TLAPS

-----------------------------------------------------------------------------
(* The inductive invariant *)

GitDirs == Pieces \X Refs
Dirs    == ({0} \cup Pieces) \X ({Local} \cup Refs)
Frames  == [piece: {0} \cup Pieces, dir: Dirs, wants: Manifest,
            left: SUBSET Pieces]
Deps    == [dir: Dirs, deps: SUBSET Pieces]

IsLock(lk) == DOMAIN lk \subseteq Pieces /\ \A p \in DOMAIN lk : lk[p] \in LockedPiece
IsResolved(res) == DOMAIN res \subseteq Pieces /\ \A p \in DOMAIN res : res[p] \in Deps

Shape ==
  /\ needs \in Worlds
  /\ tip \in [Pieces -> Revisions] /\ tag \in [Pieces -> Revisions]
  /\ manifest \in Manifest /\ IsLock(lock)
  /\ \A d \in DOMAIN clones : d \in GitDirs /\ clones[d] \in Clone
  /\ spent \in 0 .. MaxCommands
  /\ pc \in [Processes -> {"idle", "visit", "clone", "checkout", "save"}]
  /\ DOMAIN job = Processes
  /\ \A q \in Processes :
       /\ job[q].saves \in BOOLEAN
       /\ job[q].man \in Manifest /\ IsLock(job[q].pins)
  /\ stack \in [Processes -> Seq(Frames)]
  /\ fetching \in [Processes -> GitDirs]
  /\ DOMAIN resolved = Processes
  /\ \A q \in Processes : IsResolved(resolved[q])

\* The piece that resolve_git_dep is busy with.
Fetched(q) == IF pc[q] \in {"clone", "checkout"} THEN {fetching[q][1]} ELSE {}

\* The calls s of resolve_dep with res resolved: each was made for a
\* dependency of its caller, and what a call has done with is resolved or
\* in the hands of the next one.
Calls(s, res, man, fetched) ==
  /\ s # <<>> => s[1].piece = 0 /\ s[1].dir = Project /\ s[1].wants = man
  /\ \A i \in DOMAIN s :
       /\ i # 1 => s[i].piece \in DOMAIN s[i - 1].wants
       /\ s[i].left \subseteq DOMAIN s[i].wants
       /\ DOMAIN s[i].wants \ s[i].left \subseteq
            DOMAIN res \cup (IF i = Len(s) THEN fetched ELSE {s[i + 1].piece})
       /\ s[i].piece \notin DOMAIN res \cup fetched
  /\ \A i, j \in DOMAIN s : s[i].piece = s[j].piece => i = j
  /\ fetched \intersect DOMAIN res = {}
  /\ s # <<>> => fetched \subseteq DOMAIN s[Len(s)].wants
  /\ \A p \in DOMAIN res : res[p].deps \subseteq DOMAIN res

\* The pieces met, in flight and resolved, with where they were found and
\* what they need.
Met(s, res) ==
  {<<s[i].piece, s[i].dir, DOMAIN s[i].wants>> : i \in DOMAIN s \ {1}}
    \cup {<<p, res[p].dir, res[p].deps>> : p \in DOMAIN res}

\* The manifest leads to every piece met.
Leads(met, man) ==
  \A S \in SUBSET Pieces :
    /\ DOMAIN man \subseteq S
    /\ \A m \in met : m[1] \in S => m[3] \subseteq S
    => \A m \in met : m[1] \in S

\* The calls s have read the manifests of the revisions in the lock.
ReadAsLocked(s, pins, deps) ==
  \A i \in DOMAIN s \ {1} : s[i].wants = deps[s[i].piece][pins[s[i].piece].rev]

\* A piece was found where the lock says.
Locked(q) ==
  /\ \A m \in Met(stack[q], resolved[q]) :
       /\ m[1] \in DOMAIN job[q].pins
       /\ m[2] = <<m[1], job[q].pins[m[1]].rev>>
       /\ m[3] = DOMAIN needs[m[1]][job[q].pins[m[1]].rev]
  /\ ReadAsLocked(stack[q], job[q].pins, needs)
  /\ \A p \in Fetched(q) :
       p \in DOMAIN job[q].pins /\ fetching[q] = <<p, job[q].pins[p].rev>>

\* A directory for a revision, once checked out, stays so.
CheckedOut(dir) ==
  dir[2] \in Revisions =>
    /\ dir \in DOMAIN clones
    /\ clones[dir].at = dir[2] /\ dir[2] <= clones[dir].known

Resolving(q) ==
  /\ pc[q] = "idle" => stack[q] = <<>>
  /\ pc[q] # "idle" =>
       /\ stack[q] = <<>> <=> pc[q] = "save"
       /\ Calls(stack[q], resolved[q], job[q].man, Fetched(q))
       /\ pc[q] = "save" => DOMAIN job[q].man \subseteq DOMAIN resolved[q]
       /\ Leads(Met(stack[q], resolved[q]), job[q].man)
       /\ Pinned(q) => Locked(q)
       /\ \A m \in Met(stack[q], resolved[q]) : CheckedOut(m[2])

\* A clone in progress is nobody else's.
Cloning ==
  \A q \in Processes : pc[q] = "clone" =>
    /\ fetching[q] \in DOMAIN clones /\ clones[fetching[q]] = Partial
    /\ \A r \in Processes : pc[r] = "clone" /\ fetching[r] = fetching[q] => r = q

IInv == Shape /\ Cloning /\ \A q \in Processes : Resolving(q)

-----------------------------------------------------------------------------
(* Pieces *)

\* What the bounds mean.
LEMMA Bounds ==
  /\ MaxPiece \in Nat \ {0} /\ MaxRevision \in Nat \ {0} /\ MaxCommands \in Nat
  /\ Pieces \subseteq Nat /\ 0 \notin Pieces /\ 1 \in Pieces
  /\ Revisions \subseteq Nat /\ HeadRef \notin Revisions
  /\ Local \notin Refs /\ NoRevision \notin Revisions
  /\ {Branch, Tag} \cap Revisions = {} /\ Branch # HeadRef /\ Tag \notin {HeadRef, Branch}
  /\ Refs \subseteq Nat
BY PackagesAssumption
   DEF Pieces, Revisions, Refs, Local, HeadRef, Branch, Tag, NoRevision

\* What a manifest is, and what is one.
LEMMA ManifestIs ==
  ASSUME NEW man \in Manifest
  PROVE  DOMAIN man \subseteq Pieces /\ \A p \in DOMAIN man : man[p] \in Spec_
BY DEF Manifest

LEMMA IsAManifest ==
  ASSUME NEW ps \in SUBSET Pieces, NEW man, man = [p \in ps |-> man[p]],
         \A p \in ps : man[p] \in Spec_
  PROVE  man \in Manifest
<1>1. man \in [ps -> Spec_]
  OBVIOUS
<1> QED
  BY <1>1 DEF Manifest

LEMMA NoManifest == None \in Manifest /\ DOMAIN None = {}
<1>1. DOMAIN None = {} /\ None = [p \in {} |-> None[p]]
  BY DEF None
<1> QED
  BY <1>1, IsAManifest

LEMMA HeadSpec == GitDep(HeadRef) \in Spec_
BY DEF GitDep, Spec_, Refs

\* The next dependency is one that is left.
LEMMA LeastElement ==
  ASSUME NEW S \in SUBSET Pieces, S # {}
  PROVE  Min(S) \in S
<1> DEFINE Below == {ss \in Nat \X Nat : ss[1] < ss[2]}
<1>1. IsWellFoundedOn(Below, Nat)
  BY NatLessThanWellFounded DEF OpToRel
<1>2. S \subseteq Nat
  BY Bounds
<1>3. PICK x \in S : \A y \in S : ~(<<y, x>> \in Below)
  <2> HIDE DEF Below
  <2> QED
    BY <1>1, <1>2, WFMin
<1>4. ASSUME NEW y \in S PROVE x =< y
  <2>1. <<y, x>> \notin Below
    BY <1>3
  <2>2. x \in Nat /\ y \in Nat
    BY <1>2
  <2>3. ~(y < x)
    BY <2>1, <2>2
  <2> QED
    BY <2>2, <2>3
<1> QED
  BY <1>4 DEF Min

-----------------------------------------------------------------------------
(* The calls in progress *)

\* The calls s once the innermost has done with p.
Advance(s, p) == [s EXCEPT ![Len(s)].left = @ \ {p}]

\* t is s, but the innermost call has done with p.
OneLess(t, s, p) ==
  /\ Len(s) \in Nat \ {0} /\ DOMAIN s = 1 .. Len(s)
  /\ t \in Seq(Frames) /\ Len(t) = Len(s) /\ DOMAIN t = DOMAIN s /\ t # <<>>
  /\ \A i \in DOMAIN s :
       /\ t[i].piece = s[i].piece /\ t[i].dir = s[i].dir /\ t[i].wants = s[i].wants
       /\ t[i].left = IF i = Len(s) THEN s[i].left \ {p} ELSE s[i].left

LEMMA AdvanceFacts ==
  ASSUME NEW s \in Seq(Frames), s # <<>>, NEW p
  PROVE  OneLess(Advance(s, p), s, p)
<1> DEFINE n == Len(s)
           t == Advance(s, p)
           f == [s[n] EXCEPT !.left = @ \ {p}]
<1>1. n \in Nat \ {0} /\ n \in 1 .. Len(s) /\ DOMAIN s = 1 .. Len(s)
  BY EmptySeq, LenProperties
<1>2. s[n] \in Frames
  BY <1>1, ElementOfSeq
<1>3. /\ f \in Frames /\ f.piece = s[n].piece /\ f.dir = s[n].dir
      /\ f.wants = s[n].wants /\ f.left = s[n].left \ {p}
  BY <1>2 DEF Frames
<1>4. t = [s EXCEPT ![n] = f]
  BY DEF Advance
<1> HIDE DEF f, n, t
<1>5. /\ t \in Seq(Frames)
      /\ Len(t) = Len(s)
      /\ \A j \in 1 .. Len(s) : t[j] = IF j = n THEN f ELSE s[j]
  BY <1>1, <1>3, <1>4, ExceptSeq
<1>6. DOMAIN t = 1 .. Len(s)
  BY <1>5, LenProperties
<1>7. t # <<>>
  BY <1>1, <1>5 DEF n
<1>8. OneLess(t, s, p)
  BY <1>1, <1>3, <1>5, <1>6, <1>7 DEF n, OneLess
<1> QED
  BY <1>8 DEF t

\* A dependency that is resolved is passed over, one that is not is
\* fetched.
LEMMA CallsAdvance ==
  ASSUME NEW s \in Seq(Frames), s # <<>>, NEW res, NEW man, NEW got,
         Calls(s, res, man, {}),
         NEW p \in s[Len(s)].left,
         \/ p \in DOMAIN res /\ got = {}
         \/ /\ p \notin DOMAIN res /\ got = {p}
            /\ \A i \in DOMAIN s : s[i].piece # p
  PROVE  Calls(Advance(s, p), res, man, got)
<1> DEFINE t == Advance(s, p)
<1>a. OneLess(t, s, p)
  BY AdvanceFacts
<1> HIDE DEF t
<1>1. /\ Len(s) \in Nat \ {0} /\ DOMAIN s = 1 .. Len(s)
      /\ Len(t) = Len(s) /\ DOMAIN t = DOMAIN s
      /\ \A i \in DOMAIN s :
           /\ t[i].piece = s[i].piece /\ t[i].dir = s[i].dir
           /\ t[i].wants = s[i].wants
           /\ t[i].left = IF i = Len(s) THEN s[i].left \ {p} ELSE s[i].left
  BY <1>a DEF OneLess
<1>2. t # <<>>
  BY <1>a DEF OneLess
<1>3. t[1].piece = 0 /\ t[1].dir = Project /\ t[1].wants = man
  <2>1. s[1].piece = 0 /\ s[1].dir = Project /\ s[1].wants = man
    BY DEF Calls
  <2>2. 1 \in DOMAIN s
    BY <1>1
  <2>3. t[1].piece = s[1].piece /\ t[1].dir = s[1].dir /\ t[1].wants = s[1].wants
    BY <1>1, <2>2
  <2> QED
    BY <2>1, <2>3
<1>4. ASSUME NEW i \in DOMAIN t
      PROVE  /\ i # 1 => t[i].piece \in DOMAIN t[i - 1].wants
             /\ t[i].left \subseteq DOMAIN t[i].wants
             /\ t[i].piece \notin DOMAIN res \cup got
  <2>1. i # 1 => i - 1 \in DOMAIN s
    BY <1>1
  <2>2. t[i].left \subseteq s[i].left
    BY <1>1
  <2> QED
    BY <1>1, <2>1, <2>2 DEF Calls
<1>5. ASSUME NEW i \in DOMAIN t
      PROVE  DOMAIN t[i].wants \ t[i].left \subseteq
               DOMAIN res \cup (IF i = Len(t) THEN got ELSE {t[i + 1].piece})
  <2>1. DOMAIN s[i].wants \ s[i].left \subseteq
          DOMAIN res \cup (IF i = Len(s) THEN {} ELSE {s[i + 1].piece})
    BY <1>1 DEF Calls
  <2>2. t[i].wants = s[i].wants /\ t[i].left = IF i = Len(s) THEN s[i].left \ {p} ELSE s[i].left
    BY <1>1
  <2>3. CASE i = Len(s)
    <3>1. DOMAIN s[i].wants \ s[i].left \subseteq DOMAIN res
      BY <2>1, <2>3
    <3>2. t[i].left = s[i].left \ {p}
      BY <2>2, <2>3
    <3>3. p \in DOMAIN res \cup got
      OBVIOUS
    <3>4. DOMAIN t[i].wants \ t[i].left \subseteq DOMAIN res \cup got
      BY <2>2, <3>1, <3>2, <3>3
    <3> QED
      BY <1>1, <2>3, <3>4
  <2>4. CASE i # Len(s)
    <3>1. i + 1 \in DOMAIN s
      BY <1>1, <2>4
    <3>2. t[i + 1].piece = s[i + 1].piece
      BY <1>1, <3>1
    <3> QED
      BY <1>1, <2>1, <2>2, <2>4, <3>2
  <2> QED
    BY <2>3, <2>4
<1>6. \A i, j \in DOMAIN t : t[i].piece = t[j].piece => i = j
  BY <1>1 DEF Calls
<1>7. got \intersect DOMAIN res = {} /\ got \subseteq DOMAIN t[Len(t)].wants
  <2>1. Len(s) \in DOMAIN s
    BY <1>1
  <2>2. s[Len(s)].left \subseteq DOMAIN s[Len(s)].wants
    BY <2>1 DEF Calls
  <2>3. t[Len(t)].wants = s[Len(s)].wants
    BY <1>1, <2>1
  <2> QED
    BY <2>2, <2>3
<1>8. \A r \in DOMAIN res : res[r].deps \subseteq DOMAIN res
  BY DEF Calls
<1>9. Calls(t, res, man, got)
  BY <1>2, <1>3, <1>4, <1>5, <1>6, <1>7, <1>8 DEF Calls
<1> QED
  BY <1>9 DEF t

\* The call for a piece that was found in dir.
Frame(p, dir, own) == [piece |-> p, dir |-> dir, wants |-> own, left |-> DOMAIN own]

\* u is t with a call more.
OneMore(u, t, p, dir, own) ==
  /\ Len(t) \in Nat /\ DOMAIN t = 1 .. Len(t) /\ (t # <<>> => Len(t) # 0)
  /\ u \in Seq(Frames) /\ u # <<>>
  /\ Len(u) = Len(t) + 1 /\ DOMAIN u = 1 .. Len(t) + 1
  /\ \A i \in DOMAIN t : u[i] = t[i]
  /\ u[Len(u)].piece = p /\ u[Len(u)].dir = dir
  /\ u[Len(u)].wants = own /\ u[Len(u)].left = DOMAIN own

LEMMA EnterFacts ==
  ASSUME NEW t \in Seq(Frames), NEW p \in {0} \cup Pieces, NEW dir \in Dirs,
         NEW own \in Manifest
  PROVE  OneMore(Append(t, Frame(p, dir, own)), t, p, dir, own)
<1> DEFINE f == Frame(p, dir, own)
           u == Append(t, f)
<1>1. /\ f \in Frames /\ f.piece = p /\ f.dir = dir
      /\ f.wants = own /\ f.left = DOMAIN own
  BY ManifestIs DEF Frame, Frames
<1> HIDE DEF f
<1>2. u = Append(t, f)
  OBVIOUS
<1> HIDE DEF u
<1>3. Len(t) \in Nat /\ DOMAIN t = 1 .. Len(t) /\ (t # <<>> => Len(t) # 0)
  BY LenProperties, EmptySeq
<1>4. u \in Seq(Frames) /\ Len(u) = Len(t) + 1 /\ u[Len(t) + 1] = f
  BY <1>1, <1>2, <1>3
<1>5. \A i \in DOMAIN t : u[i] = t[i]
  BY <1>1, <1>2, <1>3
<1>6. DOMAIN u = 1 .. Len(t) + 1
  BY <1>4, LenProperties
<1>7. u # <<>>
  BY <1>3, <1>4
<1>8. OneMore(u, t, p, dir, own)
  BY <1>1, <1>3, <1>4, <1>5, <1>6, <1>7 DEF OneMore
<1> QED
  BY <1>8 DEF u, f

\* A piece that was fetched is entered.
LEMMA CallsEnter ==
  ASSUME NEW t \in Seq(Frames), t # <<>>, NEW res, NEW man,
         NEW p \in Pieces, NEW dir \in Dirs, NEW own \in Manifest,
         Calls(t, res, man, {p})
  PROVE  Calls(Append(t, Frame(p, dir, own)), res, man, {})
<1> DEFINE u == Append(t, Frame(p, dir, own))
<1>a. OneMore(u, t, p, dir, own)
  BY EnterFacts
<1> HIDE DEF u
<1>1. /\ Len(t) \in Nat \ {0} /\ DOMAIN t = 1 .. Len(t)
      /\ u # <<>>
      /\ Len(u) = Len(t) + 1 /\ DOMAIN u = 1 .. Len(t) + 1
      /\ \A i \in DOMAIN t : u[i] = t[i]
      /\ u[Len(u)].piece = p /\ u[Len(u)].wants = own /\ u[Len(u)].left = DOMAIN own
  BY <1>a DEF OneMore
<1>2. u[1].piece = 0 /\ u[1].dir = Project /\ u[1].wants = man
  BY <1>1 DEF Calls
<1>3. ASSUME NEW i \in DOMAIN u
      PROVE  /\ i # 1 => u[i].piece \in DOMAIN u[i - 1].wants
             /\ u[i].left \subseteq DOMAIN u[i].wants
             /\ u[i].piece \notin DOMAIN res
             /\ DOMAIN u[i].wants \ u[i].left \subseteq
                  DOMAIN res \cup (IF i = Len(u) THEN {} ELSE {u[i + 1].piece})
  <2>1. CASE i = Len(u)
    <3>1. u[i - 1] = t[Len(t)]
      BY <1>1, <2>1
    <3> QED
      BY <1>1, <2>1, <3>1 DEF Calls
  <2>2. CASE i # Len(u)
    <3>1. i \in DOMAIN t /\ u[i] = t[i]
      BY <1>1, <2>2
    <3>2. i # 1 => i - 1 \in DOMAIN t /\ u[i - 1] = t[i - 1]
      BY <1>1, <3>1
    <3>3. CASE i = Len(t)
      BY <1>1, <2>2, <3>1, <3>2, <3>3 DEF Calls
    <3>4. CASE i # Len(t)
      <4>1. i + 1 \in DOMAIN t /\ u[i + 1] = t[i + 1]
        BY <1>1, <3>1, <3>4
      <4> QED
        BY <1>1, <2>2, <3>1, <3>2, <3>4, <4>1 DEF Calls
    <3> QED
      BY <3>3, <3>4
  <2> QED
    BY <2>1, <2>2
<1>4. ASSUME NEW i \in DOMAIN u, NEW j \in DOMAIN u, u[i].piece = u[j].piece
      PROVE  i = j
  <2>1. \A k \in DOMAIN t : u[k].piece # p
    BY <1>1 DEF Calls
  <2>2. \A k \in DOMAIN u : k = Len(u) \/ k \in DOMAIN t
    BY <1>1
  <2>3. CASE i \in DOMAIN t /\ j \in DOMAIN t
    BY <1>1, <1>4, <2>3 DEF Calls
  <2> QED
    BY <1>1, <1>4, <2>1, <2>2, <2>3
<1>5. \A r \in DOMAIN res : res[r].deps \subseteq DOMAIN res
  BY DEF Calls
<1>6. Calls(u, res, man, {})
  BY <1>1, <1>2, <1>3, <1>4, <1>5 DEF Calls
<1> QED
  BY <1>6 DEF u

LEMMA FrontFacts ==
  ASSUME NEW s \in Seq(Frames), s # <<>>
  PROVE  /\ Len(s) \in Nat \ {0} /\ DOMAIN s = 1 .. Len(s)
         /\ Front(s) \in Seq(Frames)
         /\ Len(Front(s)) = Len(s) - 1 /\ DOMAIN Front(s) = 1 .. Len(s) - 1
         /\ \A i \in DOMAIN Front(s) : Front(s)[i] = s[i]
         /\ Front(s) = <<>> <=> Len(s) = 1
<1>1. Len(s) \in Nat \ {0} /\ DOMAIN s = 1 .. Len(s)
  BY EmptySeq, LenProperties
<1>2. \A i \in 1 .. Len(s) - 1 : s[i] \in Frames
  BY <1>1, ElementOfSeq
<1>3. 1 \in Int /\ Len(s) - 1 \in Int
  BY <1>1
<1>4. /\ Front(s) \in Seq(Frames)
      /\ Len(Front(s)) = IF 1 <= Len(s) - 1 THEN (Len(s) - 1) - 1 + 1 ELSE 0
      /\ \A i \in 1 .. (Len(s) - 1) - 1 + 1 : Front(s)[i] = s[1 + i - 1]
  BY <1>2, <1>3, SubSeqProperties DEF Front
<1>5. Len(Front(s)) = Len(s) - 1
  <2> DEFINE n == Len(s)
  <2>1. n \in Nat \ {0} /\ Len(Front(s)) = IF 1 <= n - 1 THEN (n - 1) - 1 + 1 ELSE 0
    BY <1>1, <1>4
  <2> HIDE DEF n
  <2>2. Len(Front(s)) = n - 1
    BY <2>1
  <2> QED
    BY <2>2 DEF n
<1>6. DOMAIN Front(s) = 1 .. Len(s) - 1
  BY <1>4, <1>5, LenProperties
<1>7. ASSUME NEW i \in DOMAIN Front(s) PROVE Front(s)[i] = s[i]
  <2>1. i \in Nat /\ i \in 1 .. (Len(s) - 1) - 1 + 1
    BY <1>1, <1>6
  <2>2. 1 + i - 1 = i
    BY <2>1
  <2> QED
    BY <1>4, <2>1, <2>2
<1>8. Front(s) = <<>> <=> Len(s) = 1
  <2>1. Front(s) = <<>> => Len(Front(s)) = 0
    OBVIOUS
  <2>2. Front(s) # <<>> => Len(Front(s)) # 0
    BY <1>4, EmptySeq
  <2> QED
    BY <1>1, <1>5, <2>1, <2>2
<1> QED
  BY <1>1, <1>4, <1>5, <1>6, <1>7, <1>8

\* What a call knows of its piece when it returns.
Found(f) == [dir |-> f.dir, deps |-> DOMAIN f.wants]

\* A call that has done with all dependencies of its piece returns.
LEMMA CallsReturn ==
  ASSUME NEW s \in Seq(Frames), s # <<>>, Len(s) # 1, NEW res, NEW man,
         Calls(s, res, man, {}), s[Len(s)].left = {}
  PROVE  Calls(Front(s), Put(res, s[Len(s)].piece, Found(s[Len(s)])), man, {})
<1> DEFINE t == Front(s)
           n == Len(s)
           p == s[n].piece
           new == Put(res, p, Found(s[n]))
<1>1. /\ n \in Nat \ {0} /\ DOMAIN s = 1 .. n /\ n \in DOMAIN s
      /\ Len(t) = n - 1 /\ DOMAIN t = 1 .. n - 1 /\ t # <<>>
      /\ \A i \in DOMAIN t : t[i] = s[i]
  BY FrontFacts
<1>2. /\ DOMAIN new = DOMAIN res \cup {p}
      /\ new[p].deps = DOMAIN s[n].wants
      /\ \A r \in DOMAIN res : r # p => new[r] = res[r]
  BY DEF Put, Found
<1>3. DOMAIN s[n].wants \subseteq DOMAIN res
  BY <1>1 DEF Calls
<1> HIDE DEF t, new
<1>4. t[1].piece = 0 /\ t[1].dir = Project /\ t[1].wants = man
  BY <1>1 DEF Calls
<1>5. ASSUME NEW i \in DOMAIN t
      PROVE  /\ i # 1 => t[i].piece \in DOMAIN t[i - 1].wants
             /\ t[i].left \subseteq DOMAIN t[i].wants
             /\ t[i].piece \notin DOMAIN new
             /\ DOMAIN t[i].wants \ t[i].left \subseteq
                  DOMAIN new \cup (IF i = Len(t) THEN {} ELSE {t[i + 1].piece})
  <2>1. i \in DOMAIN s /\ i + 1 \in DOMAIN s /\ i # n /\ t[i] = s[i]
    BY <1>1
  <2>2. i # 1 => i - 1 \in DOMAIN t /\ t[i - 1] = s[i - 1]
    BY <1>1
  <2>3. t[i].piece # p
    BY <1>1, <2>1 DEF Calls
  <2>4. DOMAIN s[i].wants \ s[i].left \subseteq DOMAIN res \cup {s[i + 1].piece}
    BY <2>1 DEF Calls
  <2>5. CASE i = Len(t)
    <3>1. i + 1 = n
      BY <1>1, <2>5
    <3> QED
      BY <1>1, <1>2, <2>1, <2>2, <2>3, <2>4, <2>5, <3>1 DEF Calls
  <2>6. CASE i # Len(t)
    <3>1. i + 1 \in DOMAIN t
      BY <1>1, <2>6
    <3> QED
      BY <1>1, <1>2, <2>1, <2>2, <2>3, <2>4, <2>6, <3>1 DEF Calls
  <2> QED
    BY <2>5, <2>6
<1>6. \A i, j \in DOMAIN t : t[i].piece = t[j].piece => i = j
  <2>1. \A i \in DOMAIN t : i \in DOMAIN s
    BY <1>1
  <2> QED
    BY <1>1, <2>1 DEF Calls
<1>7. \A r \in DOMAIN new : new[r].deps \subseteq DOMAIN new
  BY <1>2, <1>3 DEF Calls
<1>8. Calls(t, new, man, {})
  BY <1>1, <1>4, <1>5, <1>6, <1>7 DEF Calls
<1> QED
  BY <1>8 DEF t, new

\* The last return: all that the manifest names is resolved.
LEMMA CallsEnd ==
  ASSUME NEW s \in Seq(Frames), s # <<>>, Len(s) = 1, NEW res, NEW man,
         Calls(s, res, man, {}), s[Len(s)].left = {}
  PROVE  Calls(<<>>, res, man, {}) /\ DOMAIN man \subseteq DOMAIN res
<1>1. DOMAIN s = 1 .. 1
  BY LenProperties
<1>2. s[1].wants = man /\ DOMAIN s[1].wants \subseteq DOMAIN res
  BY <1>1 DEF Calls
<1>3. \A r \in DOMAIN res : res[r].deps \subseteq DOMAIN res
  BY DEF Calls
<1>4. Calls(<<>>, res, man, {})
  BY <1>3 DEF Calls
<1> QED
  BY <1>2, <1>4

\* The first call is that of the project itself.
LEMMA CallsStart ==
  ASSUME NEW man
  PROVE  Calls(<<Frame(0, Project, man)>>, None, man, {})
<1> DEFINE s == <<Frame(0, Project, man)>>
<1>1. /\ DOMAIN s = {1} /\ Len(s) = 1
      /\ s[1].piece = 0 /\ s[1].dir = Project /\ s[1].wants = man /\ s[1].left = DOMAIN man
  BY DEF Frame
<1>2. DOMAIN None = {}
  BY DEF None
<1> HIDE DEF s
<1>3. Calls(s, None, man, {})
  BY <1>1, <1>2 DEF Calls
<1> QED
  BY <1>3 DEF s

-----------------------------------------------------------------------------
(* The pieces met *)

\* What Met says of the calls, and of what is resolved.
InCalls(s, m) == \E i \in DOMAIN s \ {1} : m = <<s[i].piece, s[i].dir, DOMAIN s[i].wants>>
InResolved(res, m) == \E p \in DOMAIN res : m = <<p, res[p].dir, res[p].deps>>

LEMMA MetIs ==
  ASSUME NEW s, NEW res, NEW m
  PROVE  m \in Met(s, res) <=> InCalls(s, m) \/ InResolved(res, m)
BY DEF Met, InCalls, InResolved

LEMMA MetAdvance ==
  ASSUME NEW s \in Seq(Frames), s # <<>>, NEW res, NEW p
  PROVE  Met(Advance(s, p), res) = Met(s, res)
<1> DEFINE t == Advance(s, p)
<1>a. OneLess(t, s, p)
  BY AdvanceFacts
<1> HIDE DEF t
<1>1. /\ DOMAIN t = DOMAIN s
      /\ \A i \in DOMAIN s : /\ t[i].piece = s[i].piece /\ t[i].dir = s[i].dir
                             /\ t[i].wants = s[i].wants
  BY <1>a DEF OneLess
<1>2. \A m : InCalls(t, m) <=> InCalls(s, m)
  BY <1>1 DEF InCalls
<1>3. \A m : m \in Met(t, res) <=> m \in Met(s, res)
  BY <1>2, MetIs
<1> QED
  BY <1>3 DEF t

LEMMA MetEnter ==
  ASSUME NEW t \in Seq(Frames), t # <<>>, NEW res,
         NEW p \in Pieces, NEW dir \in Dirs, NEW own \in Manifest
  PROVE  Met(Append(t, Frame(p, dir, own)), res) = Met(t, res) \cup {<<p, dir, DOMAIN own>>}
<1> DEFINE u == Append(t, Frame(p, dir, own))
<1>a. OneMore(u, t, p, dir, own)
  BY EnterFacts
<1> HIDE DEF u
<1>1. /\ Len(t) \in Nat \ {0} /\ DOMAIN t = 1 .. Len(t)
      /\ Len(u) = Len(t) + 1 /\ DOMAIN u = 1 .. Len(t) + 1
      /\ \A i \in DOMAIN t : u[i] = t[i]
      /\ u[Len(u)].piece = p /\ u[Len(u)].dir = dir /\ u[Len(u)].wants = own
  BY <1>a DEF OneMore
<1>2. DOMAIN u \ {1} = (DOMAIN t \ {1}) \cup {Len(u)}
  BY <1>1
<1>3. \A m : InCalls(u, m) <=> InCalls(t, m) \/ m = <<p, dir, DOMAIN own>>
  BY <1>1, <1>2 DEF InCalls
<1>4. Met(u, res) = Met(t, res) \cup {<<p, dir, DOMAIN own>>}
  BY <1>3, MetIs
<1> QED
  BY <1>4 DEF u

LEMMA MetReturn ==
  ASSUME NEW s \in Seq(Frames), s # <<>>, Len(s) # 1, NEW res,
         s[Len(s)].piece \notin DOMAIN res
  PROVE  Met(Front(s), Put(res, s[Len(s)].piece, Found(s[Len(s)]))) = Met(s, res)
<1> DEFINE t == Front(s)
           n == Len(s)
           p == s[n].piece
           new == Put(res, p, Found(s[n]))
<1>1. /\ n \in Nat \ {0} /\ DOMAIN s = 1 .. n
      /\ DOMAIN t = 1 .. n - 1
      /\ \A i \in DOMAIN t : t[i] = s[i]
  BY FrontFacts
<1>2. /\ DOMAIN new = DOMAIN res \cup {p}
      /\ new[p].deps = DOMAIN s[n].wants /\ new[p].dir = s[n].dir
      /\ \A r \in DOMAIN res : new[r] = res[r]
  BY DEF Put, Found
<1>3. DOMAIN s \ {1} = (DOMAIN t \ {1}) \cup {n}
  BY <1>1
<1> HIDE DEF t, new
<1>4. \A m : InCalls(s, m) <=> InCalls(t, m) \/ m = <<p, s[n].dir, DOMAIN s[n].wants>>
  BY <1>1, <1>3 DEF InCalls
<1>5. \A m : InResolved(new, m) <=> InResolved(res, m) \/ m = <<p, s[n].dir, DOMAIN s[n].wants>>
  BY <1>2 DEF InResolved
<1>6. Met(t, new) = Met(s, res)
  BY <1>4, <1>5, MetIs
<1> QED
  BY <1>6 DEF t, new

LEMMA MetEnd ==
  ASSUME NEW s \in Seq(Frames), Len(s) = 1, NEW res
  PROVE  Met(<<>>, res) = Met(s, res)
<1>1. DOMAIN s \ {1} = {}
  BY LenProperties
<1>2. \A m : InCalls(<<>>, m) <=> InCalls(s, m)
  BY <1>1 DEF InCalls
<1>3. \A m : m \in Met(<<>>, res) <=> m \in Met(s, res)
  BY <1>2, MetIs
<1> QED
  BY <1>3

LEMMA MetStart ==
  ASSUME NEW f
  PROVE  Met(<<f>>, None) = {}
<1>1. \A m : ~InCalls(<<f>>, m) /\ ~InResolved(None, m)
  BY DEF InCalls, InResolved, None
<1> QED
  BY <1>1, MetIs

\* What calls have read, they have read.
LEMMA ReadAdvance ==
  ASSUME NEW s \in Seq(Frames), s # <<>>, NEW pins, NEW all, NEW p
  PROVE  ReadAsLocked(Advance(s, p), pins, all) <=> ReadAsLocked(s, pins, all)
<1> DEFINE t == Advance(s, p)
<1>a. OneLess(t, s, p)
  BY AdvanceFacts
<1> HIDE DEF t
<1>1. /\ DOMAIN t = DOMAIN s
      /\ \A i \in DOMAIN s : t[i].piece = s[i].piece /\ t[i].wants = s[i].wants
  BY <1>a DEF OneLess
<1>2. ReadAsLocked(t, pins, all) <=> ReadAsLocked(s, pins, all)
  BY <1>1 DEF ReadAsLocked
<1> QED
  BY <1>2 DEF t

LEMMA ReadEnter ==
  ASSUME NEW t \in Seq(Frames), t # <<>>, NEW pins, NEW all, NEW p \in Pieces,
         NEW dir \in Dirs, NEW own \in Manifest, own = all[p][pins[p].rev],
         ReadAsLocked(t, pins, all)
  PROVE  ReadAsLocked(Append(t, Frame(p, dir, own)), pins, all)
<1> DEFINE u == Append(t, Frame(p, dir, own))
<1>a. OneMore(u, t, p, dir, own)
  BY EnterFacts
<1> HIDE DEF u
<1>1. /\ DOMAIN t = 1 .. Len(t) /\ Len(t) \in Nat
      /\ Len(u) = Len(t) + 1 /\ DOMAIN u = 1 .. Len(t) + 1
      /\ \A i \in DOMAIN t : u[i] = t[i]
      /\ u[Len(u)].piece = p /\ u[Len(u)].wants = own
  BY <1>a DEF OneMore
<1>2. ReadAsLocked(u, pins, all)
  <2> SUFFICES ASSUME NEW i \in DOMAIN u \ {1}
               PROVE  u[i].wants = all[u[i].piece][pins[u[i].piece].rev]
    BY DEF ReadAsLocked
  <2>1. CASE i \in DOMAIN t
    BY <1>1, <2>1 DEF ReadAsLocked
  <2>2. CASE i \notin DOMAIN t
    BY <1>1, <2>2
  <2> QED
    BY <2>1, <2>2
<1> QED
  BY <1>2 DEF u

LEMMA ReadFront ==
  ASSUME NEW s \in Seq(Frames), s # <<>>, NEW pins, NEW all,
         ReadAsLocked(s, pins, all)
  PROVE  ReadAsLocked(Front(s), pins, all)
<1>1. /\ DOMAIN Front(s) \subseteq DOMAIN s
      /\ \A i \in DOMAIN Front(s) : Front(s)[i] = s[i]
  BY FrontFacts
<1> QED
  BY <1>1 DEF ReadAsLocked

\* What is entered is needed by the project, or by a piece met before.
LEMMA LeadsEnter ==
  ASSUME NEW met, NEW man, Leads(met, man), NEW p, NEW dir, NEW deps,
         p \in DOMAIN man \/ \E c \in met : p \in c[3],
         NEW all, all = met \cup {<<p, dir, deps>>}
  PROVE  Leads(all, man)
<1> SUFFICES ASSUME NEW S \in SUBSET Pieces, DOMAIN man \subseteq S,
                    \A m \in all : m[1] \in S => m[3] \subseteq S
             PROVE  \A m \in all : m[1] \in S
  BY DEF Leads
<1>1. \A m \in met : m[1] \in S
  BY DEF Leads
<1>2. p \in S
  BY <1>1
<1> QED
  BY <1>1, <1>2

\* The caller of a piece is the project or was met before.
LEMMA CallerMet ==
  ASSUME NEW s \in Seq(Frames), s # <<>>, NEW res, NEW man, NEW fetched,
         Calls(s, res, man, fetched), NEW p \in DOMAIN s[Len(s)].wants
  PROVE  p \in DOMAIN man \/ \E c \in Met(s, res) : p \in c[3]
<1>1. Len(s) \in Nat \ {0} /\ DOMAIN s = 1 .. Len(s)
  BY EmptySeq, LenProperties
<1>2. CASE Len(s) = 1
  BY <1>2 DEF Calls
<1>3. CASE Len(s) # 1
  <2> DEFINE c == <<s[Len(s)].piece, s[Len(s)].dir, DOMAIN s[Len(s)].wants>>
  <2>1. InCalls(s, c)
    BY <1>1, <1>3 DEF InCalls
  <2>2. c \in Met(s, res)
    BY <2>1, MetIs
  <2> QED
    BY <2>2
<1> QED
  BY <1>2, <1>3

-----------------------------------------------------------------------------
(* Steps and what they leave alone *)

Moves(q) == Command(q) \/ Step(q) \/ Crash(q) \/ CrashSaving(q)

\* What a process knows is its own.
Kept(r) ==
  /\ pc'[r] = pc[r] /\ job'[r] = job[r] /\ stack'[r] = stack[r]
  /\ fetching'[r] = fetching[r] /\ resolved'[r] = resolved[r]

LEMMA QuitFacts ==
  ASSUME Shape, NEW q \in Processes, Quit(q)
  PROVE  /\ pc'[q] = "idle" /\ stack'[q] = <<>>
         /\ \A r \in Processes \ {q} : Kept(r)
BY DEF Shape, Quit, Kept

LEMMA StartFacts ==
  ASSUME Shape, NEW q \in Processes, NEW saves, NEW man, NEW lk,
         Starts(q, saves, man, lk), Resolve(q, man)
  PROVE  /\ pc'[q] = "visit" /\ fetching' = fetching
         /\ stack'[q] = <<Frame(0, Project, man)>>
         /\ job'[q] = [saves |-> saves, man |-> man, pins |-> lk]
         /\ resolved'[q] = None
         /\ \A r \in Processes \ {q} : Kept(r)
BY DEF Shape, Starts, Resolve, Kept, Frame

LEMMA OthersKept ==
  ASSUME Shape, NEW q \in Processes, Moves(q), NEW r \in Processes \ {q}
  PROVE  Kept(r) /\ needs' = needs /\ tip' = tip /\ tag' = tag
<1>1. CASE Build(q) \/ BuildLocked(q) \/ Update(q)
  BY <1>1, StartFacts DEF Build, BuildLocked, Update, world
<1>2. CASE AddPiece(q)
  BY <1>2, StartFacts DEF AddPiece, world
<1>3. CASE RemovePiece(q)
  <2>1. CASE Starts(q, FALSE, None, None)
                /\ UNCHANGED <<needs, tip, tag, pc, stack, fetching, resolved>>
    BY <2>1 DEF Starts, Kept, Shape
  <2>2. CASE Starts(q, TRUE, manifest', lock) /\ Resolve(q, manifest')
                /\ UNCHANGED <<needs, tip, tag>>
    BY <2>2, StartFacts
  <2> QED
    BY <1>3, <2>1, <2>2 DEF RemovePiece, world
<1>4. CASE Precise(q) \/ KilledWriting(q)
  BY <1>4 DEF Precise, KilledWriting, Starts, Kept, Shape, world
<1>5. CASE SkipResolved(q) \/ FromPath(q)
  BY <1>5 DEF SkipResolved, FromPath, ReachesNew, Reaches, Enter, Kept, Shape, world
<1>6. CASE RefuseCycle(q) \/ RefuseRef(q) \/ RefusePath(q)
  BY <1>6, QuitFacts DEF RefuseCycle, RefuseRef, RefusePath, ReachesNew, Reaches, world
<1>7. CASE FromGit(q)
  <2>1. /\ UNCHANGED <<needs, tip, tag, job, resolved>>
        /\ \E dir, frames, at :
             /\ fetching' = [fetching EXCEPT ![q] = dir]
             /\ stack' = [stack EXCEPT ![q] = frames]
             /\ pc' = [pc EXCEPT ![q] = at]
    BY <1>7 DEF FromGit, ReachesNew, Reaches, world
  <2> QED
    BY <2>1 DEF Kept, Shape
<1>8. CASE Cloned(q)
  BY <1>8 DEF Cloned, Kept, Shape, world
<1>9. CASE CloneFails(q) \/ CheckoutFails(q)
  BY <1>9, QuitFacts DEF CloneFails, CheckoutFails, world
<1>10. CASE Checkout(q)
  BY <1>10 DEF Checkout, Enter, Kept, Shape, world
<1>11. CASE Return(q)
  <2>1. /\ UNCHANGED <<needs, tip, tag, job, fetching>>
        /\ stack' = [stack EXCEPT ![q] = Front(@)]
        /\ \/ pc' = [pc EXCEPT ![q] = "save"] /\ UNCHANGED resolved
           \/ /\ UNCHANGED pc
              /\ \E new : resolved' = [resolved EXCEPT ![q] = new]
    BY <1>11 DEF Return, world
  <2> QED
    BY <2>1 DEF Kept, Shape
<1>12. CASE Save(q)
  BY <1>12, QuitFacts DEF Save, world
<1>13. CASE Crash(q) \/ CrashSaving(q)
  BY <1>13, QuitFacts DEF Crash, CrashSaving, world
<1> QED
  BY <1>1, <1>2, <1>3, <1>4, <1>5, <1>6, <1>7, <1>8, <1>9, <1>10, <1>11, <1>12, <1>13
  DEF Moves, Command, Step

\* The clones change in four of the steps only.
LEMMA ClonesKept ==
  ASSUME NEW q \in Processes, Moves(q),
         ~FromGit(q), ~Cloned(q), ~CloneFails(q), ~Checkout(q)
  PROVE  clones' = clones
BY DEF Moves, Command, Build, BuildLocked, Update, AddPiece, RemovePiece, Precise,
       KilledWriting, Step, SkipResolved, RefuseCycle, FromPath, RefusePath, RefuseRef,
       CheckoutFails, Return, Save, Crash, CrashSaving, files

\* A piece that was checked out at a revision stays there.
LEMMA CheckedOutKept ==
  ASSUME Shape, Cloning, NEW q \in Processes, Moves(q), NEW dir, CheckedOut(dir)
  PROVE  CheckedOut(dir)'
<1> SUFFICES ASSUME dir[2] \in Revisions
             PROVE  /\ dir \in DOMAIN clones'
                    /\ clones'[dir].at = dir[2] /\ dir[2] <= clones'[dir].known
  BY DEF CheckedOut
<1>1. /\ dir \in DOMAIN clones
      /\ clones[dir].at = dir[2] /\ dir[2] <= clones[dir].known
      /\ dir[2] \in Nat /\ dir[2] # 0
  BY Bounds DEF CheckedOut, HeadRef
<1>2. pc[q] = "clone" => dir # fetching[q]
  BY <1>1 DEF Cloning, Partial, NoRevision
<1>3. CASE FromGit(q)
  <2>1. \/ clones' = clones
        \/ \E d : d \notin DOMAIN clones /\ clones' = Put(clones, d, Partial)
    BY <1>3 DEF FromGit
  <2> QED
    BY <1>1, <2>1 DEF Put
<1>4. CASE Cloned(q)
  <2>1. \E d, c : d = fetching[q] /\ clones' = Put(clones, d, c)
    BY <1>4 DEF Cloned
  <2>2. dir # fetching[q]
    BY <1>2, <1>4 DEF Cloned
  <2> QED
    BY <1>1, <2>1, <2>2 DEF Put
<1>5. CASE CloneFails(q)
  BY <1>1, <1>2, <1>5 DEF CloneFails
<1>6. CASE Checkout(q)
  <2> DEFINE d == fetching[q]
             rev == Named(d)
  <2>1. clones' = [clones EXCEPT ![d].at = rev] /\ d \in DOMAIN clones
    BY <1>6 DEF Checkout
  <2>2. CASE dir = d
    <3>1. dir[2] \notin {HeadRef, Branch, Tag}
      BY Bounds
    <3>2. rev = dir[2]
      BY <2>2, <3>1 DEF Named
    <3>3. clones[d] \in Clone
      BY <2>1 DEF Shape
    <3> HIDE DEF rev
    <3>4. clones'[d] = [clones[d] EXCEPT !.at = rev] /\ d \in DOMAIN clones'
      BY <2>1
    <3>5. clones'[d].at = rev /\ clones'[d].known = clones[d].known
      BY <3>3, <3>4 DEF Clone
    <3> QED
      BY <1>1, <2>2, <3>2, <3>4, <3>5
  <2>3. CASE dir # d
    BY <1>1, <2>1, <2>3
  <2> QED
    BY <2>2, <2>3
<1> QED
  BY <1>1, <1>3, <1>4, <1>5, <1>6, ClonesKept

-----------------------------------------------------------------------------
(* Locks that answer for everything *)

\* What the lock is asked, without the process that asks.
PinsOf(pins, all) ==
  [p \in Pieces |-> IF p \in DOMAIN pins THEN DOMAIN all[p][pins[p].rev] ELSE {}]
Answers(man, pins, all) ==
  /\ \A p \in DOMAIN pins : pins[p].rev \in Revisions
  /\ DOMAIN pins = Reached(man, PinsOf(pins, all))
  /\ Agrees(man, pins)
  /\ \A p \in DOMAIN pins : Agrees(all[p][pins[p].rev], pins)

LEMMA PinnedIs ==
  ASSUME NEW q \in Processes
  PROVE  Pinned(q) <=> Answers(job[q].man, job[q].pins, needs)
BY DEF Pinned, Answers, PinsOf

LEMMA PinnedKept ==
  ASSUME NEW q \in Processes, job'[q] = job[q], needs' = needs
  PROVE  Pinned(q)' <=> Pinned(q)
<1>1. Pinned(q)' <=> Answers(job'[q].man, job'[q].pins, needs')
  BY DEF Pinned, Answers, PinsOf
<1> QED
  BY <1>1, PinnedIs

\* Such a lock has what the project needs and what its pieces need.
LEMMA AnswersAll ==
  ASSUME NEW man, NEW pins, NEW all \in [Pieces -> [Revisions -> Manifest]],
         man \in Manifest, Answers(man, pins, all)
  PROVE  /\ DOMAIN man \subseteq DOMAIN pins
         /\ \A p \in DOMAIN pins :
              p \in Pieces /\ DOMAIN all[p][pins[p].rev] \subseteq DOMAIN pins
<1> DEFINE on == PinsOf(pins, all)
<1>1. DOMAIN pins \subseteq Pieces
  BY DEF Answers, Reached
<1>2. \A p \in DOMAIN pins :
        on[p] = DOMAIN all[p][pins[p].rev] /\ DOMAIN all[p][pins[p].rev] \subseteq Pieces
  BY <1>1, ManifestIs DEF PinsOf, Answers
<1> HIDE DEF on
<1>3. DOMAIN pins = Reached(man, on)
  BY DEF Answers, on
<1>4. DOMAIN man \subseteq Reached(man, on)
  BY ManifestIs DEF Reached
<1>5. ASSUME NEW p \in Reached(man, on), on[p] \subseteq Pieces
      PROVE  on[p] \subseteq Reached(man, on)
  BY <1>5 DEF Reached
<1> QED
  BY <1>1, <1>2, <1>3, <1>4, <1>5

-----------------------------------------------------------------------------
(* The process that moves *)

LEMMA ShapeFacts ==
  ASSUME Shape, NEW q \in Processes
  PROVE  /\ stack[q] \in Seq(Frames) /\ fetching[q] \in GitDirs
         /\ IsResolved(resolved[q]) /\ job[q].man \in Manifest /\ IsLock(job[q].pins)
         /\ needs \in [Pieces -> [Revisions -> Manifest]]
         /\ fetching[q][1] \in Pieces /\ fetching[q][2] \in Refs
         /\ fetching[q] \in Dirs
<1>1. fetching[q] \in GitDirs /\ needs \in Worlds
  BY DEF Shape
<1> QED
  BY <1>1, PackagesAssumption DEF Shape, GitDirs, Dirs

\* A process that visits its calls is in one, and knows what is left of it.
LEMMA VisitFacts ==
  ASSUME Shape, NEW q \in Processes, Resolving(q), pc[q] = "visit"
  PROVE  /\ stack[q] \in Seq(Frames) /\ stack[q] # <<>>
         /\ Len(stack[q]) \in Nat \ {0} /\ Called(q) = stack[q][Len(stack[q])]
         /\ Called(q) \in Frames
         /\ Fetched(q) = {}
         /\ Calls(stack[q], resolved[q], job[q].man, {})
         /\ Leads(Met(stack[q], resolved[q]), job[q].man)
         /\ Pinned(q) => Locked(q)
         /\ \A m \in Met(stack[q], resolved[q]) : CheckedOut(m[2])
         /\ Called(q).left \subseteq DOMAIN Called(q).wants
<1>1. stack[q] \in Seq(Frames)
  BY ShapeFacts
<1>2. Fetched(q) = {}
  BY DEF Fetched
<1>3. /\ stack[q] # <<>>
      /\ Calls(stack[q], resolved[q], job[q].man, {})
      /\ Leads(Met(stack[q], resolved[q]), job[q].man)
      /\ Pinned(q) => Locked(q)
      /\ \A m \in Met(stack[q], resolved[q]) : CheckedOut(m[2])
  BY <1>2 DEF Resolving
<1>4. Len(stack[q]) \in Nat \ {0} /\ DOMAIN stack[q] = 1 .. Len(stack[q])
  BY <1>1, <1>3, EmptySeq, LenProperties
<1>5. Called(q) = stack[q][Len(stack[q])]
  BY DEF Called, Last
<1>6. Called(q) \in Frames
  BY <1>1, <1>4, <1>5, ElementOfSeq
<1>7. Called(q).left \subseteq DOMAIN Called(q).wants
  BY <1>3, <1>4, <1>5 DEF Calls
<1> QED
  BY <1>1, <1>2, <1>3, <1>4, <1>5, <1>6, <1>7

LEMMA ReachFacts ==
  ASSUME Shape, NEW q \in Processes, Resolving(q), NEW p \in Pieces, Reaches(q, p)
  PROVE  /\ pc[q] = "visit" /\ needs' = needs
         /\ p \in stack[q][Len(stack[q])].left
         /\ p \in DOMAIN stack[q][Len(stack[q])].wants
         /\ Advanced(q) = Advance(stack[q], p)
<1>1. pc[q] = "visit" /\ Called(q).left # {} /\ p = Min(Called(q).left) /\ needs' = needs
  BY DEF Reaches, NextDep, world
<1>2. Called(q).left \in SUBSET Pieces
  BY <1>1, VisitFacts DEF Frames
<1>3. p \in Called(q).left
  BY <1>1, <1>2, LeastElement
<1>4. Advanced(q) = Advance(stack[q], p)
  BY <1>1 DEF Advanced, Advance, NextDep
<1> QED
  BY <1>1, <1>3, <1>4, VisitFacts

\* The call that starts with a command.
LEMMA ResolvingStart ==
  ASSUME Shape, NEW q \in Processes, NEW saves, NEW man, NEW lk, man \in Manifest,
         Starts(q, saves, man, lk), Resolve(q, man)
  PROVE  Resolving(q)'
<1>1. /\ pc'[q] = "visit"
      /\ stack'[q] = <<Frame(0, Project, man)>>
      /\ job'[q].man = man /\ resolved'[q] = None
  <2>1. job'[q] = [saves |-> saves, man |-> man, pins |-> lk]
    BY StartFacts
  <2> QED
    BY <2>1, StartFacts
<1>2. stack'[q] # <<>>
  BY <1>1
<1>3. Fetched(q)' = {}
  BY <1>1 DEF Fetched
<1>4. Calls(stack'[q], resolved'[q], job'[q].man, Fetched(q)')
  BY <1>1, <1>3, CallsStart
<1>5. Met(stack'[q], resolved'[q]) = {}
  BY <1>1, MetStart
<1>6. Leads({}, man)
  BY DEF Leads
<1>7. Leads(Met(stack'[q], resolved'[q]), job'[q].man)
  BY <1>1, <1>5, <1>6
<1>8. Locked(q)'
  <2>1. DOMAIN stack'[q] \ {1} = {}
    BY <1>1
  <2> QED
    BY <1>3, <1>5, <2>1 DEF Locked, ReadAsLocked
<1> QED
  BY <1>1, <1>2, <1>4, <1>5, <1>7, <1>8 DEF Resolving

LEMMA ResolvingSkip ==
  ASSUME Shape, NEW q \in Processes, Resolving(q), SkipResolved(q)
  PROVE  Resolving(q)'
<1>1. PICK p \in Pieces : Reaches(q, p) /\ p \in DOMAIN resolved[q]
  BY DEF SkipResolved, AlreadyResolved
<1>2. /\ pc' = pc /\ job' = job /\ fetching' = fetching /\ resolved' = resolved
      /\ clones' = clones /\ needs' = needs
      /\ stack'[q] = Advance(stack[q], p)
  <2>1. stack'[q] = Advanced(q)
    BY DEF SkipResolved, Shape
  <2>2. \E r \in Pieces : Reaches(q, r) /\ r = p
    BY <1>1
  <2> QED
    BY <1>1, <2>1, ReachFacts DEF SkipResolved
<1>3. /\ pc[q] = "visit" /\ stack[q] # <<>> /\ stack[q] \in Seq(Frames)
      /\ p \in stack[q][Len(stack[q])].left
      /\ Calls(stack[q], resolved[q], job[q].man, {})
  BY <1>1, ReachFacts, VisitFacts
<1>4. stack'[q] # <<>>
  <2>1. OneLess(Advance(stack[q], p), stack[q], p)
    BY <1>3, AdvanceFacts
  <2> QED
    BY <1>2, <2>1 DEF OneLess
<1>5. Fetched(q)' = {} /\ Fetched(q) = {}
  BY <1>2, <1>3 DEF Fetched
<1>6. Calls(stack'[q], resolved'[q], job'[q].man, Fetched(q)')
  BY <1>1, <1>2, <1>3, <1>5, CallsAdvance
<1>7. Met(stack'[q], resolved'[q]) = Met(stack[q], resolved[q])
  BY <1>2, <1>3, MetAdvance
<1>8. Pinned(q)' => Locked(q)'
  <2> SUFFICES ASSUME Pinned(q) PROVE Locked(q)'
    BY <1>2, PinnedKept
  <2>1. Locked(q)
    BY <1>3, VisitFacts
  <2>2. ReadAsLocked(stack'[q], job[q].pins, needs)
    BY <1>2, <1>3, <2>1, ReadAdvance DEF Locked
  <2> QED
    BY <1>2, <1>5, <1>7, <2>1, <2>2 DEF Locked
<1>9. \A m \in Met(stack'[q], resolved'[q]) : CheckedOut(m[2])'
  BY <1>2, <1>3, <1>7, VisitFacts DEF CheckedOut
<1>10. Leads(Met(stack'[q], resolved'[q]), job'[q].man)
  BY <1>2, <1>3, <1>7, VisitFacts
<1> QED
  BY <1>2, <1>3, <1>4, <1>6, <1>8, <1>9, <1>10 DEF Resolving

\* A dependency that the lock answers for is fetched as the lock says.
LEMMA AskedLock ==
  ASSUME Shape, NEW q \in Processes, Resolving(q), NEW p \in Pieces,
         Reaches(q, p), Pinned(q)
  PROVE  /\ ~SpecOf(q, p).path
         /\ p \in DOMAIN job[q].pins /\ job[q].pins[p].rev \in Revisions
         /\ EffectiveRef(q, p) = job[q].pins[p].rev
<1> DEFINE man == job[q].man
           pins == job[q].pins
<1>1. /\ Len(stack[q]) \in Nat \ {0}
      /\ Calls(stack[q], resolved[q], man, {}) /\ Locked(q)
      /\ stack[q] \in Seq(Frames) /\ stack[q] # <<>>
      /\ p \in DOMAIN stack[q][Len(stack[q])].wants
  BY ReachFacts, VisitFacts
<1>2. Answers(man, pins, needs)
  BY PinnedIs
<1>3. /\ DOMAIN man \subseteq DOMAIN pins
      /\ \A r \in DOMAIN pins : DOMAIN needs[r][pins[r].rev] \subseteq DOMAIN pins
  BY <1>2, AnswersAll, ShapeFacts
<1>4. p \in DOMAIN man \/ \E c \in Met(stack[q], resolved[q]) : p \in c[3]
  BY <1>1, CallerMet
<1>5. p \in DOMAIN pins
  BY <1>1, <1>3, <1>4 DEF Locked
<1>6. pins[p].rev \in Revisions
  BY <1>2, <1>5 DEF Answers
<1>7. PICK f : f = stack[q][Len(stack[q])] /\ SpecOf(q, p) = f.wants[p]
  BY ReachFacts, VisitFacts DEF SpecOf
<1>8. Agrees(f.wants, pins)
  <2>1. CASE Len(stack[q]) = 1
    <3>1. f.wants = man
      BY <1>1, <1>7, <2>1 DEF Calls
    <3> QED
      BY <1>2, <3>1 DEF Answers
  <2>2. CASE Len(stack[q]) # 1
    <3>1. Len(stack[q]) \in DOMAIN stack[q] \ {1}
      BY <1>1, <2>2, LenProperties
    <3>2. f.wants = needs[f.piece][pins[f.piece].rev]
      BY <1>1, <1>7, <3>1 DEF Locked, ReadAsLocked
    <3>3. PICK m : m = <<f.piece, f.dir, DOMAIN f.wants>>
      OBVIOUS
    <3>4. m \in Met(stack[q], resolved[q])
      BY <1>7, <3>1, <3>3, MetIs DEF InCalls
    <3>5. f.piece \in DOMAIN pins
      BY <1>1, <3>3, <3>4 DEF Locked
    <3> QED
      BY <1>2, <3>2, <3>5 DEF Answers
  <2> QED
    BY <2>1, <2>2
<1>9. ~SpecOf(q, p).path /\ SpecOf(q, p).ref \in {HeadRef, Branch, pins[p].rev}
  BY <1>1, <1>7, <1>8 DEF Agrees
<1>10. pins[p].rev # Local
  BY <1>6, Bounds DEF Refs
<1>11. EffectiveRef(q, p) = pins[p].rev
  BY <1>5, <1>9, <1>10 DEF EffectiveRef, LockDecides
<1> QED
  BY <1>5, <1>6, <1>9, <1>11

\* What a path leads to.
PathManifest(q, p) ==
  ManifestOf(p, IF PathDir(q, p)[2] = Local THEN tip[p] ELSE clones[PathDir(q, p)].at)

LEMMA ManifestOfIs ==
  ASSUME Shape, NEW p \in Pieces, NEW rev \in MaybeRevision
  PROVE  ManifestOf(p, rev) \in Manifest
<1>1. needs \in [Pieces -> [Revisions -> Manifest]]
  BY PackagesAssumption DEF Shape
<1> QED
  BY <1>1, NoManifest DEF ManifestOf, MaybeRevision

LEMMA PathFacts ==
  ASSUME Shape, NEW q \in Processes, Resolving(q), pc[q] = "visit", NEW p \in Pieces,
         PathDir(q, p)[2] # Local => PathDir(q, p) \in DOMAIN clones
  PROVE  /\ PathDir(q, p) \in Dirs /\ PathManifest(q, p) \in Manifest
         /\ CheckedOut(PathDir(q, p))
<1> DEFINE s == stack[q]
<1>1. /\ s \in Seq(Frames) /\ Len(s) \in Nat \ {0} /\ Called(q) = s[Len(s)]
      /\ Called(q) \in Frames /\ Calls(s, resolved[q], job[q].man, {})
      /\ \A m \in Met(s, resolved[q]) : CheckedOut(m[2])
  BY VisitFacts
<1>2. CASE Called(q).dir[2] = Local
  <2>1. PathDir(q, p) = <<p, Local>> /\ PathDir(q, p)[2] = Local
    BY <1>2 DEF PathDir
  <2>2. tip[p] \in MaybeRevision
    BY DEF Shape, MaybeRevision
  <2>3. CheckedOut(PathDir(q, p))
    BY <2>1, Bounds DEF CheckedOut, Refs
  <2> QED
    BY <2>1, <2>2, <2>3, ManifestOfIs DEF Dirs, PathManifest
<1>3. CASE Called(q).dir[2] # Local
  <2>1. PathDir(q, p) = Called(q).dir
    BY <1>3 DEF PathDir
  <2>2. Called(q).dir \in DOMAIN clones
    BY <1>3, <2>1
  <2>3. clones[Called(q).dir].at \in MaybeRevision
    BY <2>2 DEF Shape, Clone
  <2>4. Len(s) # 1
    <3>1. Called(q).dir \in GitDirs
      BY <2>2 DEF Shape
    <3> QED
      BY <1>1, <1>3, <3>1 DEF Calls, Project
  <2>5. PICK m : m = <<Called(q).piece, Called(q).dir, DOMAIN Called(q).wants>>
    OBVIOUS
  <2>6. Len(s) \in DOMAIN s \ {1}
    BY <1>1, <2>4, LenProperties
  <2>7. m \in Met(s, resolved[q])
    BY <1>1, <2>5, <2>6, MetIs DEF InCalls
  <2>8. CheckedOut(Called(q).dir)
    BY <1>1, <2>5, <2>7
  <2> QED
    BY <1>1, <1>3, <2>1, <2>3, <2>8, ManifestOfIs DEF PathManifest, Frames
<1> QED
  BY <1>2, <1>3

\* A dependency on disk is entered at once.
LEMMA ResolvingPath ==
  ASSUME Shape, NEW q \in Processes, Resolving(q), FromPath(q)
  PROVE  Resolving(q)'
<1>1. PICK p \in Pieces :
        /\ ReachesNew(q, p) /\ SpecOf(q, p).path
        /\ PathDir(q, p)[2] # Local => PathDir(q, p) \in DOMAIN clones
        /\ Enter(q, Advanced(q), p, PathDir(q, p), PathManifest(q, p))
        /\ UNCHANGED <<clones, pc, job, fetching, resolved>>
  BY DEF FromPath, PathManifest
<1> DEFINE s == stack[q]
           t == Advance(s, p)
           dir == PathDir(q, p)
           own == PathManifest(q, p)
           u == Append(t, Frame(p, dir, own))
<1>2. /\ Reaches(q, p) /\ p \notin DOMAIN resolved[q]
      /\ \A i \in DOMAIN s : s[i].piece # p
  BY <1>1 DEF ReachesNew, AlreadyResolved, InFlight
<1>3. /\ pc[q] = "visit" /\ needs' = needs /\ s # <<>> /\ s \in Seq(Frames)
      /\ p \in s[Len(s)].left /\ p \in DOMAIN s[Len(s)].wants
      /\ Calls(s, resolved[q], job[q].man, {})
  BY <1>2, ReachFacts, VisitFacts
<1>4. stack'[q] = u
  BY <1>1, <1>2, ReachFacts DEF Enter, Frame, Shape
<1>5. dir \in Dirs /\ own \in Manifest /\ CheckedOut(dir)
  BY <1>1, <1>2, <1>3, PathFacts
<1>6. t \in Seq(Frames) /\ t # <<>>
  <2>1. OneLess(t, s, p)
    BY <1>3, AdvanceFacts
  <2> QED
    BY <2>1 DEF OneLess
<1>7. Calls(t, resolved[q], job[q].man, {p})
  BY <1>2, <1>3, CallsAdvance
<1>8. Met(t, resolved[q]) = Met(s, resolved[q])
  BY <1>3, MetAdvance
<1> HIDE DEF t, dir, own
<1>9. Calls(u, resolved[q], job[q].man, {})
  BY <1>5, <1>6, <1>7, CallsEnter
<1>10. Met(u, resolved[q]) = Met(s, resolved[q]) \cup {<<p, dir, DOMAIN own>>}
  BY <1>5, <1>6, <1>8, MetEnter
<1>11. u # <<>>
  BY <1>5, <1>6, EnterFacts
<1>12. Leads(Met(u, resolved[q]), job[q].man)
  <2> DEFINE met == Met(s, resolved[q])
             all == Met(u, resolved[q])
             man == job[q].man
  <2>1. p \in DOMAIN man \/ \E c \in met : p \in c[3]
    BY <1>3, CallerMet
  <2>2. all = met \cup {<<p, dir, DOMAIN own>>}
    BY <1>10
  <2>3. Leads(met, man)
    BY <1>3, VisitFacts
  <2> HIDE DEF met, all, man
  <2>4. Leads(all, man)
    BY <2>1, <2>2, <2>3, LeadsEnter
  <2> QED
    BY <2>4 DEF all, man
<1>13. ~Pinned(q)
  BY <1>1, <1>2, AskedLock
<1>15. \A m \in Met(u, resolved[q]) : CheckedOut(m[2])
  BY <1>3, <1>5, <1>10, VisitFacts
<1> HIDE DEF u, s
<1>16. Fetched(q)' = {}
  BY <1>1, <1>3 DEF Fetched
<1>17. pc'[q] = "visit" /\ job'[q] = job[q] /\ resolved'[q] = resolved[q] /\ clones' = clones
  BY <1>1, <1>3
<1>18. \A m \in Met(stack'[q], resolved'[q]) : CheckedOut(m[2])'
  BY <1>4, <1>15, <1>17 DEF CheckedOut
<1> QED
  BY <1>3, <1>4, <1>9, <1>11, <1>12, <1>13, <1>16, <1>17, <1>18, PinnedKept DEF Resolving

\* A dependency in git is in hand until it has been checked out.
LEMMA ResolvingFetch ==
  ASSUME Shape, NEW q \in Processes, Resolving(q), FromGit(q), Cloning
  PROVE  Resolving(q)'
<1>1. PICK p \in Pieces :
        /\ ReachesNew(q, p)
        /\ stack' = [stack EXCEPT ![q] = Advanced(q)]
        /\ fetching' = [fetching EXCEPT ![q] = <<p, EffectiveRef(q, p)>>]
        /\ \E at \in {"clone", "checkout"} : pc' = [pc EXCEPT ![q] = at]
        /\ UNCHANGED <<job, resolved>>
  BY DEF FromGit
<1> DEFINE s == stack[q]
           t == Advance(s, p)
<1>2. /\ Reaches(q, p) /\ p \notin DOMAIN resolved[q]
      /\ \A i \in DOMAIN s : s[i].piece # p
  BY <1>1 DEF ReachesNew, AlreadyResolved, InFlight
<1>3. /\ pc[q] = "visit" /\ needs' = needs /\ s # <<>> /\ s \in Seq(Frames)
      /\ p \in s[Len(s)].left
      /\ Calls(s, resolved[q], job[q].man, {})
  BY <1>2, ReachFacts, VisitFacts
<1>4. /\ stack'[q] = t /\ fetching'[q] = <<p, EffectiveRef(q, p)>>
      /\ pc'[q] \in {"clone", "checkout"}
      /\ job'[q] = job[q] /\ resolved'[q] = resolved[q]
  BY <1>1, <1>2, ReachFacts DEF Shape
<1>5. Calls(t, resolved[q], job[q].man, {p})
  BY <1>2, <1>3, CallsAdvance
<1>6. Met(t, resolved[q]) = Met(s, resolved[q])
  BY <1>3, MetAdvance
<1>7. t # <<>>
  <2>1. OneLess(t, s, p)
    BY <1>3, AdvanceFacts
  <2> QED
    BY <2>1 DEF OneLess
<1>8. Fetched(q)' = {p}
  BY <1>4 DEF Fetched
<1> HIDE DEF t, s
<1>9. Pinned(q)' => Locked(q)'
  <2> SUFFICES ASSUME Pinned(q) PROVE Locked(q)'
    BY <1>3, <1>4, PinnedKept
  <2>1. p \in DOMAIN job[q].pins /\ EffectiveRef(q, p) = job[q].pins[p].rev
    BY <1>2, AskedLock
  <2>2. Locked(q)
    BY <1>3, VisitFacts
  <2>3. Met(stack'[q], resolved'[q]) = Met(stack[q], resolved[q])
    BY <1>4, <1>6 DEF s
  <2>4. ReadAsLocked(stack'[q], job[q].pins, needs)
    BY <1>3, <1>4, <2>2, ReadAdvance DEF Locked, t, s
  <2> QED
    BY <1>3, <1>4, <1>8, <2>1, <2>2, <2>3, <2>4 DEF Locked
<1>10. \A m \in Met(stack'[q], resolved'[q]) : CheckedOut(m[2])'
  <2>1. Moves(q)
    BY DEF Moves, Step
  <2>2. \A m \in Met(stack[q], resolved[q]) : CheckedOut(m[2])
    BY <1>3, VisitFacts
  <2>3. \A m \in Met(stack[q], resolved[q]) : CheckedOut(m[2])'
    BY <2>1, <2>2, CheckedOutKept
  <2> QED
    BY <1>4, <1>6, <2>3 DEF s
<1>11. Leads(Met(stack'[q], resolved'[q]), job'[q].man)
  BY <1>3, <1>4, <1>6, VisitFacts DEF s
<1> QED
  BY <1>4, <1>5, <1>7, <1>8, <1>9, <1>10, <1>11 DEF Resolving

LEMMA ResolvingCloned ==
  ASSUME Shape, NEW q \in Processes, Resolving(q), Cloned(q), Cloning
  PROVE  Resolving(q)'
<1>1. /\ pc[q] = "clone" /\ pc'[q] = "checkout" /\ needs' = needs
      /\ job' = job /\ stack' = stack /\ fetching' = fetching /\ resolved' = resolved
  BY DEF Cloned, Shape, world
<1>2. Fetched(q)' = Fetched(q)
  BY <1>1 DEF Fetched
<1>3. \A m \in Met(stack[q], resolved[q]) : CheckedOut(m[2])'
  <2>1. Moves(q)
    BY DEF Moves, Step
  <2> QED
    BY <1>1, <2>1, CheckedOutKept DEF Resolving
<1>4. Pinned(q)' => Locked(q)'
  BY <1>1, <1>2, PinnedKept DEF Resolving, Locked
<1> QED
  BY <1>1, <1>2, <1>3, <1>4 DEF Resolving

\* What a ref names in a clone.
LEMMA NamedFacts ==
  ASSUME Shape, NEW dir \in DOMAIN clones
  PROVE  /\ Named(dir) \in MaybeRevision
         /\ dir[2] = HeadRef => Named(dir) = clones[dir].at
         /\ dir[2] \in Revisions => Named(dir) = dir[2]
<1>1. dir[2] \in Refs /\ clones[dir] \in Clone
  BY DEF Shape, GitDirs
<1>2. dir[2] \in Revisions => dir[2] \notin {HeadRef, Branch, Tag}
  BY Bounds
<1>3. CASE dir[2] = HeadRef
  BY <1>1, <1>2, <1>3, Bounds DEF Named, Clone
<1>4. CASE dir[2] = Branch
  BY <1>1, <1>2, <1>4, Bounds DEF Named, Clone
<1>5. CASE dir[2] = Tag
  BY <1>1, <1>2, <1>5, Bounds DEF Named, Clone
<1>6. CASE dir[2] \in Revisions
  BY <1>2, <1>6 DEF Named, MaybeRevision
<1> QED
  BY <1>1, <1>3, <1>4, <1>5, <1>6 DEF Refs

\* What was fetched is entered, at the revision that was asked for.
LEMMA ResolvingCheckout ==
  ASSUME Shape, NEW q \in Processes, Resolving(q), Checkout(q), Cloning
  PROVE  Resolving(q)'
<1> SUFFICES ASSUME NEW dir, dir = fetching[q]
             PROVE  Resolving(q)'
  OBVIOUS
<1> DEFINE s == stack[q]
           p == dir[1]
           rev == Named(dir)
           own == ManifestOf(p, rev)
           u == Append(s, Frame(p, dir, own))
<1>1. /\ pc[q] = "checkout" /\ dir \in DOMAIN clones /\ HasRef(dir)
      /\ clones' = [clones EXCEPT ![dir].at = rev]
      /\ stack'[q] = u /\ pc'[q] = "visit" /\ needs' = needs
      /\ job' = job /\ resolved' = resolved
  BY DEF Checkout, Enter, Frame, Shape, world
<1>2. /\ s \in Seq(Frames) /\ p \in Pieces /\ dir \in Dirs
      /\ dir[2] \in Refs /\ dir = <<p, dir[2]>>
  BY ShapeFacts DEF GitDirs
<1>3. clones[dir] \in Clone
  BY <1>1 DEF Shape
<1>4. rev \in MaybeRevision /\ (dir[2] \in Revisions => rev = dir[2])
  BY <1>1, NamedFacts
<1>5. own \in Manifest
  BY <1>2, <1>4, ManifestOfIs
<1>6. /\ s # <<>> /\ Fetched(q) = {p}
      /\ Calls(s, resolved[q], job[q].man, {p})
      /\ Leads(Met(s, resolved[q]), job[q].man)
      /\ Pinned(q) => Locked(q)
      /\ \A m \in Met(s, resolved[q]) : CheckedOut(m[2])
  BY <1>1 DEF Resolving, Fetched
<1>7. CheckedOut(dir)'
  <2>1. clones'[dir] = [clones[dir] EXCEPT !.at = rev] /\ dir \in DOMAIN clones'
    BY <1>1
  <2>2. clones'[dir].at = rev /\ clones'[dir].known = clones[dir].known
    BY <1>3, <2>1 DEF Clone
  <2> SUFFICES ASSUME dir[2] \in Revisions
               PROVE  clones'[dir].at = dir[2] /\ dir[2] <= clones'[dir].known
    BY <2>1 DEF CheckedOut, Cloning
  <2>3. dir[2] # HeadRef
    BY Bounds
  <2>4. rev = dir[2] /\ rev \in 1 .. clones[dir].known
    BY <1>1, <1>4, <2>3 DEF HasRef
  <2>5. rev <= clones[dir].known
    <3> HIDE DEF rev
    <3> QED
      BY <2>4
  <2> QED
    BY <2>2, <2>4, <2>5
<1>8. Pinned(q) => own = needs[p][job[q].pins[p].rev] /\ p \in DOMAIN job[q].pins
                   /\ dir = <<p, job[q].pins[p].rev>>
  <2> SUFFICES ASSUME Pinned(q)
               PROVE  /\ own = needs[p][job[q].pins[p].rev] /\ p \in DOMAIN job[q].pins
                      /\ dir = <<p, job[q].pins[p].rev>>
    OBVIOUS
  <2>1. p \in DOMAIN job[q].pins /\ dir = <<p, job[q].pins[p].rev>>
    BY <1>6 DEF Locked
  <2>2. job[q].pins[p].rev \in Revisions
    BY <2>1, PinnedIs DEF Answers
  <2>3. dir[2] = job[q].pins[p].rev
    BY <2>1
  <2>4. rev = job[q].pins[p].rev /\ rev # NoRevision
    BY <1>4, <2>2, <2>3, Bounds
  <2> QED
    BY <2>1, <2>4 DEF ManifestOf
<1>9. p \in DOMAIN s[Len(s)].wants
  BY <1>6 DEF Calls
<1> HIDE DEF own, rev
<1>10. u # <<>>
  BY <1>2, <1>5, EnterFacts
<1>11. Calls(u, resolved[q], job[q].man, {})
  BY <1>2, <1>5, <1>6, CallsEnter
<1>12. Met(u, resolved[q]) = Met(s, resolved[q]) \cup {<<p, dir, DOMAIN own>>}
  BY <1>2, <1>5, <1>6, MetEnter
<1>13. Leads(Met(u, resolved[q]), job[q].man)
  <2> DEFINE met == Met(s, resolved[q])
             all == Met(u, resolved[q])
             man == job[q].man
  <2>1. p \in DOMAIN man \/ \E c \in met : p \in c[3]
    BY <1>2, <1>6, <1>9, CallerMet
  <2>2. all = met \cup {<<p, dir, DOMAIN own>>}
    BY <1>12
  <2>3. Leads(met, man)
    BY <1>6
  <2> HIDE DEF met, all, man
  <2>4. Leads(all, man)
    BY <2>1, <2>2, <2>3, LeadsEnter
  <2> QED
    BY <2>4 DEF all, man
<1>14. \A m \in Met(u, resolved[q]) : CheckedOut(m[2])'
  <2>1. Moves(q)
    BY DEF Moves, Step
  <2>2. \A m \in Met(s, resolved[q]) : CheckedOut(m[2])'
    BY <1>6, <2>1, CheckedOutKept
  <2> QED
    BY <1>7, <1>12, <2>2
<1>15. Fetched(q)' = {}
  BY <1>1 DEF Fetched
<1>16. Pinned(q)' => Locked(q)'
  <2> SUFFICES ASSUME Pinned(q) PROVE Locked(q)'
    BY <1>1, PinnedKept
  <2> DEFINE pins == job[q].pins
  <2>1. Met(stack'[q], resolved'[q]) = Met(s, resolved[q]) \cup {<<p, dir, DOMAIN own>>}
    BY <1>1, <1>12
  <2>2. p \in DOMAIN pins /\ dir = <<p, pins[p].rev>> /\ own = needs[p][pins[p].rev]
    BY <1>8
  <2>3. job'[q].pins = pins /\ needs' = needs
    BY <1>1
  <2>4. /\ \A m \in Met(s, resolved[q]) :
             /\ m[1] \in DOMAIN pins /\ m[2] = <<m[1], pins[m[1]].rev>>
             /\ m[3] = DOMAIN needs[m[1]][pins[m[1]].rev]
        /\ ReadAsLocked(s, pins, needs)
    BY <1>6 DEF Locked
  <2>5. ReadAsLocked(stack'[q], pins, needs)
    <3> HIDE DEF pins, s, p
    <3>1. ReadAsLocked(u, pins, needs)
      BY <1>2, <1>5, <1>6, <2>2, <2>4, ReadEnter
    <3> QED
      BY <1>1, <3>1
  <2> HIDE DEF pins, s, p
  <2>6. \A m \in Met(stack'[q], resolved'[q]) :
          /\ m[1] \in DOMAIN pins /\ m[2] = <<m[1], pins[m[1]].rev>>
          /\ m[3] = DOMAIN needs[m[1]][pins[m[1]].rev]
    BY <2>1, <2>2, <2>4
  <2> QED
    BY <1>15, <2>3, <2>5, <2>6 DEF Locked
<1> QED
  BY <1>1, <1>10, <1>11, <1>13, <1>14, <1>15, <1>16 DEF Resolving

LEMMA ResolvingReturn ==
  ASSUME Shape, NEW q \in Processes, Resolving(q), Return(q)
  PROVE  Resolving(q)'
<1> DEFINE s == stack[q]
           n == Len(s)
           res == resolved[q]
           man == job[q].man
<1>1. /\ pc[q] = "visit" /\ s[n].left = {}
      /\ s # <<>> /\ s \in Seq(Frames) /\ n \in Nat \ {0}
      /\ Calls(s, res, man, {}) /\ Leads(Met(s, res), man)
      /\ Pinned(q) => Locked(q)
      /\ \A m \in Met(s, res) : CheckedOut(m[2])
  BY VisitFacts DEF Return
<1>2. /\ stack'[q] = Front(s) /\ needs' = needs /\ job' = job /\ fetching' = fetching
      /\ clones' = clones
  BY DEF Return, Shape, files, world
<1>a. Locked(q) => ReadAsLocked(stack'[q], job[q].pins, needs)
  BY <1>1, <1>2, ReadFront DEF Locked
<1>3. CASE n = 1
  <2>1. pc'[q] = "save" /\ resolved' = resolved
    BY <1>3 DEF Return, Shape
  <2>2. Front(s) = <<>>
    BY <1>1, <1>3, FrontFacts
  <2>3. Calls(<<>>, res, man, {}) /\ DOMAIN man \subseteq DOMAIN res
    BY <1>1, <1>3, CallsEnd
  <2>4. Met(<<>>, res) = Met(s, res)
    BY <1>1, <1>3, MetEnd
  <2>5. Fetched(q)' = {} /\ Fetched(q) = {}
    BY <1>1, <2>1 DEF Fetched
  <2>6. Met(stack'[q], resolved'[q]) = Met(stack[q], resolved[q])
    BY <1>2, <2>1, <2>2, <2>4
  <2>7. Pinned(q)' => Locked(q)'
    BY <1>1, <1>2, <1>a, <2>5, <2>6, PinnedKept DEF Locked
  <2>8. \A m \in Met(stack'[q], resolved'[q]) : CheckedOut(m[2])'
    BY <1>1, <1>2, <2>6 DEF CheckedOut
  <2> QED
    BY <1>1, <1>2, <2>1, <2>2, <2>3, <2>5, <2>6, <2>7, <2>8 DEF Resolving
<1>4. CASE n # 1
  <2> DEFINE new == Put(res, s[n].piece, Found(s[n]))
  <2>1. pc'[q] = "visit" /\ resolved'[q] = new
    BY <1>1, <1>4, VisitFacts DEF Return, Shape, Found
  <2>2. Front(s) # <<>> /\ n \in DOMAIN s
    BY <1>1, <1>4, FrontFacts
  <2>3. Calls(Front(s), new, man, {})
    BY <1>1, <1>4, CallsReturn
  <2>4. s[n].piece \notin DOMAIN res
    BY <1>1, <2>2 DEF Calls
  <2>5. Met(Front(s), new) = Met(s, res)
    BY <1>1, <1>4, <2>4, MetReturn
  <2> HIDE DEF new
  <2>6. Fetched(q)' = {} /\ Fetched(q) = {}
    BY <1>1, <2>1 DEF Fetched
  <2>7. Met(stack'[q], resolved'[q]) = Met(stack[q], resolved[q])
    BY <1>2, <2>1, <2>5
  <2>8. Pinned(q)' => Locked(q)'
    BY <1>1, <1>2, <1>a, <2>6, <2>7, PinnedKept DEF Locked
  <2>9. \A m \in Met(stack'[q], resolved'[q]) : CheckedOut(m[2])'
    BY <1>1, <1>2, <2>7 DEF CheckedOut
  <2> QED
    BY <1>1, <1>2, <2>1, <2>2, <2>3, <2>6, <2>7, <2>8, <2>9 DEF Resolving
<1> QED
  BY <1>3, <1>4

\* What the commands make of the manifest and of the lock.
LEMMA AddedIs ==
  ASSUME manifest \in Manifest, NEW man \in Added
  PROVE  man \in Manifest
<1>1. PICK p \in Pieces : \E s \in Specs[p] : man = Put(manifest, p, s)
  BY DEF Added
<1>2. DOMAIN manifest \subseteq Pieces /\ \A r \in DOMAIN manifest : manifest[r] \in Spec_
  BY ManifestIs
<1>3. PICK s \in Spec_ : man = Put(manifest, p, s)
  BY <1>1, PackagesAssumption
<1>4. PICK ps \in SUBSET Pieces : ps = DOMAIN manifest \cup {p}
  BY <1>2
<1>5. man = [r \in ps |-> IF r = p THEN s ELSE manifest[r]]
  BY <1>3, <1>4 DEF Put
<1>6. \A r \in ps : man[r] \in Spec_
  BY <1>2, <1>3, <1>4, <1>5
<1>7. man = [r \in ps |-> man[r]]
  BY <1>5
<1> QED
  BY <1>6, <1>7, IsAManifest

LEMMA RemovedIs ==
  ASSUME manifest \in Manifest, NEW man \in Removed
  PROVE  man \in Manifest
<1>1. PICK p \in DOMAIN manifest : man = [r \in DOMAIN manifest \ {p} |-> manifest[r]]
  BY DEF Removed
<1>2. DOMAIN manifest \subseteq Pieces /\ \A r \in DOMAIN manifest : manifest[r] \in Spec_
  BY ManifestIs
<1>3. PICK ps \in SUBSET Pieces : ps = DOMAIN manifest \ {p}
  BY <1>2
<1>4. man = [r \in ps |-> man[r]] /\ \A r \in ps : man[r] \in Spec_
  BY <1>1, <1>2, <1>3
<1> QED
  BY <1>4, IsAManifest

LEMMA CutManifestIs ==
  ASSUME NEW man \in Manifest, NEW cut \in CutManifests(man)
  PROVE  cut \in Manifest
<1>1. PICK n \in 0 .. MaxPiece, short \in BOOLEAN : cut = CutAt(man, n, short)
  BY DEF CutManifests
<1>2. DOMAIN man \subseteq Pieces /\ \A r \in DOMAIN man : man[r] \in Spec_
  BY ManifestIs
<1>3. PICK ps \in SUBSET Pieces : ps = {r \in DOMAIN man : r <= n}
  BY <1>2
<1>4. \A p \in ps : cut[p] \in {GitDep(HeadRef), man[p]} /\ p \in DOMAIN man
  BY <1>1, <1>3 DEF CutAt
<1>5. cut = [p \in ps |-> cut[p]]
  BY <1>1, <1>3 DEF CutAt
<1>6. \A p \in ps : cut[p] \in Spec_
  BY <1>2, <1>4, HeadSpec
<1> QED
  BY <1>5, <1>6, IsAManifest

LEMMA RepinnedIs ==
  ASSUME IsLock(lock), NEW lk \in Repinned
  PROVE  IsLock(lk)
<1>1. PICK p \in DOMAIN lock, r \in Revisions : lk = [lock EXCEPT ![p].rev = r]
  BY DEF Repinned
<1>2. lock[p] \in LockedPiece
  BY DEF IsLock
<1>3. [lock[p] EXCEPT !.rev = r] \in LockedPiece
  BY <1>2 DEF LockedPiece, MaybeRevision
<1> QED
  BY <1>1, <1>3 DEF IsLock

LEMMA CutLockIs ==
  ASSUME NEW lk, IsLock(lk), NEW cut \in CutLocks(lk)
  PROVE  IsLock(cut)
BY DEF CutLocks, IsLock

\* Whatever the process does.
LEMMA ResolvingMover ==
  ASSUME Shape, Cloning, NEW q \in Processes, Resolving(q), Moves(q)
  PROVE  Resolving(q)'
<1>1. CASE MayStart(q) /\ (Build(q) \/ BuildLocked(q) \/ Update(q))
  <2>1. manifest \in Manifest
    BY DEF Shape
  <2> QED
    BY <1>1, <2>1, ResolvingStart DEF Build, BuildLocked, Update
<1>2. CASE AddPiece(q)
  <2>1. PICK man \in Added : Starts(q, TRUE, man, lock) /\ Resolve(q, man)
    BY <1>2 DEF AddPiece
  <2>2. man \in Manifest
    BY AddedIs DEF Shape
  <2> QED
    BY <2>1, <2>2, ResolvingStart
<1>3. CASE MayStart(q) /\ RemovePiece(q)
  <2>1. PICK man \in Removed :
          \/ UNCHANGED <<pc, stack>>
          \/ Starts(q, TRUE, man, lock) /\ Resolve(q, man)
    BY <1>3 DEF RemovePiece
  <2>2. man \in Manifest
    BY RemovedIs DEF Shape
  <2>3. CASE Starts(q, TRUE, man, lock) /\ Resolve(q, man)
    BY <2>2, <2>3, ResolvingStart
  <2>4. CASE UNCHANGED <<pc, stack>>
    BY <1>3, <2>4 DEF MayStart, Resolving
  <2> QED
    BY <2>1, <2>3, <2>4
<1>4. CASE MayStart(q) /\ (Precise(q) \/ KilledWriting(q))
  BY <1>4 DEF Precise, KilledWriting, MayStart, Resolving
<1>5. CASE Quit(q)
  BY <1>5, QuitFacts DEF Resolving
<1>6. CASE RefuseCycle(q) \/ RefusePath(q) \/ RefuseRef(q) \/ CloneFails(q) \/ CheckoutFails(q)
             \/ Save(q) \/ Crash(q) \/ CrashSaving(q)
  BY <1>5, <1>6
  DEF RefuseCycle, RefusePath, RefuseRef, CloneFails, CheckoutFails, Save, Crash, CrashSaving
<1> QED
  BY <1>1, <1>2, <1>3, <1>4, <1>6, ResolvingSkip, ResolvingPath, ResolvingFetch,
     ResolvingCloned, ResolvingCheckout, ResolvingReturn DEF Moves, Command, Step

\* It does not disturb the others.
LEMMA ResolvingOther ==
  ASSUME Shape, Cloning, NEW q \in Processes, Moves(q),
         NEW r \in Processes \ {q}, Resolving(r)
  PROVE  Resolving(r)'
<1>1. Kept(r) /\ needs' = needs
  BY OthersKept
<1>2. Fetched(r)' = Fetched(r)
  BY <1>1 DEF Kept, Fetched
<1>3. \A m \in Met(stack[r], resolved[r]) : CheckedOut(m[2]) => CheckedOut(m[2])'
  BY CheckedOutKept
<1>4. Pinned(r)' <=> Pinned(r)
  BY <1>1, PinnedKept DEF Kept
<1>5. Locked(r) => Locked(r)'
  BY <1>1, <1>2 DEF Kept, Locked
<1> QED
  BY <1>1, <1>2, <1>3, <1>4, <1>5 DEF Kept, Resolving

-----------------------------------------------------------------------------
(* Clones in progress *)

LEMMA OnlyFetchClones ==
  ASSUME Shape, NEW q \in Processes, Moves(q), ~FromGit(q)
  PROVE  pc'[q] # "clone"
<1>1. CASE MayStart(q) /\ (Build(q) \/ BuildLocked(q) \/ Update(q) \/ AddPiece(q))
  BY <1>1, StartFacts DEF Build, BuildLocked, Update, AddPiece
<1>2. CASE MayStart(q) /\ RemovePiece(q)
  <2>1. ASSUME NEW man, Starts(q, TRUE, man, lock), Resolve(q, man)
        PROVE  pc'[q] # "clone"
    BY <2>1, StartFacts
  <2>2. CASE UNCHANGED pc
    BY <1>2, <2>2 DEF MayStart
  <2> QED
    BY <1>2, <2>1, <2>2 DEF RemovePiece
<1>3. CASE MayStart(q) /\ (Precise(q) \/ KilledWriting(q))
  BY <1>3 DEF MayStart, Precise, KilledWriting
<1>4. CASE Quit(q)
  BY <1>4, QuitFacts
<1>5. CASE RefuseCycle(q) \/ RefusePath(q) \/ RefuseRef(q) \/ CloneFails(q) \/ CheckoutFails(q)
             \/ Save(q) \/ Crash(q) \/ CrashSaving(q)
  BY <1>4, <1>5
  DEF RefuseCycle, RefusePath, RefuseRef, CloneFails, CheckoutFails, Save, Crash, CrashSaving
<1>6. CASE SkipResolved(q) \/ FromPath(q)
  BY <1>6 DEF SkipResolved, FromPath, ReachesNew, Reaches
<1>7. CASE Cloned(q) \/ Checkout(q) \/ Return(q)
  BY <1>7 DEF Cloned, Checkout, Return, Shape
<1> QED
  BY <1>1, <1>2, <1>3, <1>5, <1>6, <1>7 DEF Moves, Command, Step

\* A clone in progress is left alone by everybody else.
LEMMA CloningKept ==
  ASSUME Shape, Cloning, NEW q \in Processes, Moves(q), ~FromGit(q),
         NEW r \in Processes \ {q}, pc[r] = "clone"
  PROVE  fetching[r] \in DOMAIN clones' /\ clones'[fetching[r]] = Partial
<1>1. /\ fetching[r] \in DOMAIN clones /\ clones[fetching[r]] = Partial
      /\ pc[q] = "clone" => fetching[q] # fetching[r]
  BY DEF Cloning
<1>2. CASE Cloned(q)
  <2>1. \E c : clones' = Put(clones, fetching[q], c)
    BY <1>2 DEF Cloned
  <2>2. pc[q] = "clone"
    BY <1>2 DEF Cloned
  <2> QED
    BY <1>1, <2>1, <2>2 DEF Put
<1>3. CASE CloneFails(q)
  BY <1>1, <1>3 DEF CloneFails
<1>4. CASE Checkout(q)
  <2> SUFFICES ASSUME NEW dir, dir = fetching[r]
               PROVE  dir \in DOMAIN clones' /\ clones'[dir] = Partial
    OBVIOUS
  <2>1. CASE fetching[q] # dir
    BY <1>1, <1>4, <2>1 DEF Checkout
  <2>2. CASE fetching[q] = dir
    <3>1. clones[dir].known = 0
      BY <1>1 DEF Partial, NoRevision
    <3>2. HasRef(dir) /\ 1 .. 0 = {}
      BY <1>4, <2>2 DEF Checkout
    <3>3. dir[2] = HeadRef
      BY <3>1, <3>2 DEF HasRef
    <3>4. clones' = [clones EXCEPT ![dir].at = clones[dir].at]
      BY <1>1, <1>4, <2>2, <3>3, NamedFacts DEF Checkout
    <3>5. clones'[dir] = [clones[dir] EXCEPT !.at = clones[dir].at]
      BY <1>1, <3>4
    <3> QED
      BY <1>1, <3>4, <3>5 DEF Partial
  <2> QED
    BY <2>1, <2>2
<1> QED
  BY <1>1, <1>2, <1>3, <1>4, ClonesKept

LEMMA CloningStep ==
  ASSUME Shape, Cloning, NEW q \in Processes, Moves(q)
  PROVE  Cloning'
<1>1. \A r \in Processes \ {q} : Kept(r)
  BY OthersKept
<1>2. CASE ~FromGit(q)
  <2>1. pc'[q] # "clone"
    BY <1>2, OnlyFetchClones
  <2>2. \A r \in Processes : pc'[r] = "clone" =>
          r # q /\ pc[r] = "clone" /\ fetching'[r] = fetching[r]
    BY <1>1, <2>1 DEF Kept
  <2>3. \A r \in Processes : pc'[r] = "clone" =>
          fetching'[r] \in DOMAIN clones' /\ clones'[fetching'[r]] = Partial
    BY <1>2, <2>2, CloningKept
  <2> QED
    BY <2>2, <2>3 DEF Cloning
<1>3. CASE FromGit(q)
  <2>1. PICK dir :
          /\ fetching' = [fetching EXCEPT ![q] = dir]
          /\ \/ pc' = [pc EXCEPT ![q] = "checkout"] /\ clones' = clones
             \/ /\ dir \notin DOMAIN clones
                /\ clones' = Put(clones, dir, Partial)
    BY <1>3 DEF FromGit
  <2>2. fetching'[q] = dir
    BY <2>1 DEF Shape
  <2>3. CASE pc' = [pc EXCEPT ![q] = "checkout"] /\ clones' = clones
    <3>1. pc'[q] = "checkout"
      BY <2>3 DEF Shape
    <3> QED
      BY <1>1, <2>3, <3>1 DEF Kept, Cloning
  <2>4. CASE dir \notin DOMAIN clones /\ clones' = Put(clones, dir, Partial)
    <3>1. dir \in DOMAIN clones' /\ clones'[dir] = Partial
      BY <2>4 DEF Put
    <3>2. \A r \in Processes \ {q} : pc'[r] = "clone" =>
            /\ pc[r] = "clone" /\ fetching'[r] = fetching[r]
            /\ fetching[r] \in DOMAIN clones /\ fetching[r] # dir
            /\ fetching[r] \in DOMAIN clones' /\ clones'[fetching[r]] = Partial
      BY <1>1, <2>4 DEF Kept, Cloning, Put
    <3> QED
      BY <2>2, <3>1, <3>2 DEF Cloning
  <2> QED
    BY <2>1, <2>3, <2>4
<1> QED
  BY <1>2, <1>3

-----------------------------------------------------------------------------
(* Every variable keeps its type *)

LocalsShape ==
  /\ pc \in [Processes -> {"idle", "visit", "clone", "checkout", "save"}]
  /\ DOMAIN job = Processes
  /\ \A q \in Processes :
       /\ job[q].saves \in BOOLEAN
       /\ job[q].man \in Manifest /\ IsLock(job[q].pins)
  /\ stack \in [Processes -> Seq(Frames)]
  /\ fetching \in [Processes -> GitDirs]
  /\ DOMAIN resolved = Processes
  /\ \A q \in Processes : IsResolved(resolved[q])

LEMMA Nothing == None \in Manifest /\ IsLock(None) /\ IsResolved(None)
BY NoManifest DEF IsLock, IsResolved, None

LEMMA ShapeQuit ==
  ASSUME Shape, NEW q \in Processes, Quit(q)
  PROVE  LocalsShape'
<1>1. NoDir \in GitDirs
  BY Bounds DEF NoDir, GitDirs, Refs
<1>2. <<>> \in Seq(Frames)
  OBVIOUS
<1>3. NoJob.saves \in BOOLEAN /\ NoJob.man = None /\ NoJob.pins = None
  BY DEF NoJob
<1>4. /\ pc' \in [Processes -> {"idle", "visit", "clone", "checkout", "save"}]
      /\ stack' \in [Processes -> Seq(Frames)]
      /\ fetching' \in [Processes -> GitDirs]
  BY <1>1, <1>2 DEF Shape, Quit
<1>5. /\ DOMAIN job' = Processes
      /\ \A r \in Processes : job'[r] = IF r = q THEN NoJob ELSE job[r]
  BY DEF Shape, Quit
<1>6. /\ DOMAIN resolved' = Processes
      /\ \A r \in Processes : resolved'[r] = IF r = q THEN None ELSE resolved[r]
  BY DEF Shape, Quit
<1>7. \A r \in Processes :
        /\ job'[r].saves \in BOOLEAN /\ job'[r].man \in Manifest /\ IsLock(job'[r].pins)
        /\ IsResolved(resolved'[r])
  BY <1>3, <1>5, <1>6, Nothing DEF Shape
<1> QED
  BY <1>4, <1>5, <1>6, <1>7 DEF LocalsShape

LEMMA JobStart ==
  ASSUME Shape, NEW q \in Processes, NEW saves \in BOOLEAN, NEW man, NEW lk,
         man \in Manifest, IsLock(lk), Starts(q, saves, man, lk)
  PROVE  /\ DOMAIN job' = Processes
         /\ \A r \in Processes :
              /\ job'[r].saves \in BOOLEAN
              /\ job'[r].man \in Manifest /\ IsLock(job'[r].pins)
<1> DEFINE new == [saves |-> saves, man |-> man, pins |-> lk]
<1>1. new.saves \in BOOLEAN /\ new.man \in Manifest /\ IsLock(new.pins)
  OBVIOUS
<1>2. job' = [job EXCEPT ![q] = new]
  BY DEF Starts
<1> HIDE DEF new
<1>3. /\ DOMAIN job' = Processes
      /\ \A r \in Processes : job'[r] = IF r = q THEN new ELSE job[r]
  BY <1>2 DEF Shape
<1> QED
  BY <1>1, <1>3 DEF Shape

LEMMA ShapeStart ==
  ASSUME Shape, NEW q \in Processes, NEW saves \in BOOLEAN, NEW man, NEW lk,
         man \in Manifest, IsLock(lk), Starts(q, saves, man, lk), Resolve(q, man)
  PROVE  LocalsShape'
<1> DEFINE f == Frame(0, Project, man)
<1>1. f \in Frames
  BY ManifestIs DEF Frame, Frames, Dirs, Project
<1>2. stack' = [stack EXCEPT ![q] = <<f>>]
  BY DEF Resolve, Frame
<1> HIDE DEF f
<1>3. <<f>> \in Seq(Frames)
  BY <1>1
<1>4. /\ pc' \in [Processes -> {"idle", "visit", "clone", "checkout", "save"}]
      /\ stack' \in [Processes -> Seq(Frames)]
      /\ fetching' \in [Processes -> GitDirs]
  BY <1>2, <1>3 DEF Shape, Resolve
<1>5. /\ DOMAIN resolved' = Processes
      /\ \A r \in Processes : resolved'[r] = IF r = q THEN None ELSE resolved[r]
  BY DEF Shape, Resolve
<1>6. \A r \in Processes : IsResolved(resolved'[r])
  BY <1>5, Nothing DEF Shape
<1> QED
  BY <1>4, <1>5, <1>6, JobStart DEF LocalsShape

\* Where a piece is fetched from.
LEMMA RefSort ==
  ASSUME Shape, NEW q \in Processes, NEW p \in Pieces, Resolving(q), Reaches(q, p)
  PROVE  <<p, EffectiveRef(q, p)>> \in GitDirs
<1>1. /\ p \in DOMAIN stack[q][Len(stack[q])].wants
      /\ Calls(stack[q], resolved[q], job[q].man, {}) /\ stack[q] # <<>>
  BY ReachFacts, VisitFacts
<1>2. SpecOf(q, p).ref \in Refs
  <2>1. Called(q).wants \in Manifest /\ p \in DOMAIN Called(q).wants
    BY <1>1, ReachFacts, VisitFacts DEF Frames
  <2>2. SpecOf(q, p) \in Spec_
    BY <2>1, ManifestIs DEF SpecOf
  <2> QED
    BY <2>2 DEF Spec_
<1>3. EffectiveRef(q, p) \in Refs
  <2>1. CASE LockDecides(q, p)
    <3>1. p \in DOMAIN job[q].pins /\ job[q].pins[p].rev # Local
      BY <2>1 DEF LockDecides
    <3>2. job[q].pins[p] \in LockedPiece
      BY <3>1, ShapeFacts DEF IsLock
    <3>3. job[q].pins[p].rev \in MaybeRevision /\ NoRevision = HeadRef
      BY <3>1, <3>2 DEF LockedPiece, NoRevision, HeadRef
    <3> QED
      BY <2>1, <3>3 DEF EffectiveRef, MaybeRevision, Refs
  <2>2. CASE ~LockDecides(q, p)
    BY <1>2, <2>2 DEF EffectiveRef
  <2> QED
    BY <2>1, <2>2
<1> QED
  BY <1>3 DEF GitDirs

LEMMA ShapeReach ==
  ASSUME Shape, NEW q \in Processes, Resolving(q),
         SkipResolved(q) \/ FromPath(q) \/ FromGit(q)
  PROVE  LocalsShape'
<1>1. \A p \in Pieces : Reaches(q, p) =>
        /\ pc[q] = "visit"
        /\ Advanced(q) \in Seq(Frames) /\ Advanced(q) = Advance(stack[q], p)
  <2> TAKE p \in Pieces
  <2> HAVE Reaches(q, p)
  <2>1. stack[q] \in Seq(Frames) /\ stack[q] # <<>> /\ pc[q] = "visit"
    BY ReachFacts, VisitFacts
  <2>2. OneLess(Advance(stack[q], p), stack[q], p)
    BY <2>1, AdvanceFacts
  <2> QED
    BY <2>1, <2>2, ReachFacts DEF OneLess
<1>2. CASE SkipResolved(q)
  <2>1. /\ UNCHANGED <<pc, job, fetching, resolved>>
        /\ stack' = [stack EXCEPT ![q] = Advanced(q)]
        /\ \E p \in Pieces : Reaches(q, p)
    BY <1>2 DEF SkipResolved
  <2>2. stack' \in [Processes -> Seq(Frames)]
    BY <1>1, <2>1 DEF Shape
  <2> QED
    BY <2>1, <2>2 DEF Shape, LocalsShape
<1>3. CASE FromPath(q)
  <2>1. PICK p \in Pieces :
          /\ UNCHANGED <<pc, job, fetching, resolved>>
          /\ PathDir(q, p)[2] # Local => PathDir(q, p) \in DOMAIN clones
          /\ Enter(q, Advanced(q), p, PathDir(q, p), PathManifest(q, p))
          /\ Reaches(q, p)
    BY <1>3 DEF FromPath, ReachesNew, PathManifest
  <2> DEFINE t == Advanced(q)
             dir == PathDir(q, p)
             own == PathManifest(q, p)
             u == Append(t, Frame(p, dir, own))
  <2>2. dir \in Dirs /\ own \in Manifest
    BY <1>1, <2>1, PathFacts
  <2>3. t \in Seq(Frames)
    BY <1>1, <2>1
  <2>4. stack' = [stack EXCEPT ![q] = u]
    BY <2>1 DEF Enter, Frame
  <2> HIDE DEF t, dir, own
  <2>5. OneMore(u, t, p, dir, own)
    BY <2>2, <2>3, EnterFacts
  <2> HIDE DEF u
  <2>6. stack' \in [Processes -> Seq(Frames)]
    BY <2>4, <2>5 DEF Shape, OneMore
  <2> QED
    BY <2>1, <2>6 DEF Shape, LocalsShape
<1>4. CASE FromGit(q)
  <2>1. PICK p \in Pieces :
          /\ Reaches(q, p)
          /\ stack' = [stack EXCEPT ![q] = Advanced(q)]
          /\ fetching' = [fetching EXCEPT ![q] = <<p, EffectiveRef(q, p)>>]
          /\ \E at \in {"clone", "checkout"} : pc' = [pc EXCEPT ![q] = at]
          /\ UNCHANGED <<job, resolved>>
    BY <1>4 DEF FromGit, ReachesNew
  <2>2. <<p, EffectiveRef(q, p)>> \in GitDirs
    BY <2>1, RefSort
  <2>3. /\ stack' \in [Processes -> Seq(Frames)]
        /\ fetching' \in [Processes -> GitDirs]
        /\ pc' \in [Processes -> {"idle", "visit", "clone", "checkout", "save"}]
    BY <1>1, <2>1, <2>2 DEF Shape
  <2> QED
    BY <2>1, <2>3 DEF Shape, LocalsShape
<1> QED
  BY <1>2, <1>3, <1>4

\* What git checkout leaves in a directory, and what the piece needs.
LEMMA CheckoutFacts ==
  ASSUME Shape, NEW q \in Processes, Checkout(q)
  PROVE  \E rev \in MaybeRevision, own \in Manifest :
           /\ fetching[q] \in DOMAIN clones
           /\ clones' = [clones EXCEPT ![fetching[q]].at = rev]
           /\ stack' = [stack EXCEPT ![q] =
                Append(stack[q], Frame(fetching[q][1], fetching[q], own))]
<1> DEFINE dir == fetching[q]
           rev == Named(dir)
           own == ManifestOf(dir[1], rev)
<1>1. dir \in DOMAIN clones
  BY DEF Checkout
<1>2. rev \in MaybeRevision
  BY <1>1, NamedFacts
<1>3. own \in Manifest
  BY <1>2, ShapeFacts, ManifestOfIs
<1>4. /\ clones' = [clones EXCEPT ![dir].at = rev]
      /\ stack' = [stack EXCEPT ![q] = Append(stack[q], Frame(dir[1], dir, own))]
  BY DEF Checkout, Enter, Frame
<1> QED
  BY <1>1, <1>2, <1>3, <1>4

LEMMA ShapeCheckout ==
  ASSUME Shape, NEW q \in Processes, Checkout(q)
  PROVE  LocalsShape'
<1>1. PICK own \in Manifest :
        stack' = [stack EXCEPT ![q] =
          Append(stack[q], Frame(fetching[q][1], fetching[q], own))]
  BY CheckoutFacts
<1> DEFINE u == Append(stack[q], Frame(fetching[q][1], fetching[q], own))
<1>2. OneMore(u, stack[q], fetching[q][1], fetching[q], own)
  BY ShapeFacts, EnterFacts
<1> HIDE DEF u
<1>3. stack' = [stack EXCEPT ![q] = u]
  BY <1>1 DEF u
<1>4. stack' \in [Processes -> Seq(Frames)]
  BY <1>2, <1>3 DEF Shape, OneMore
<1>5. fetching' = [fetching EXCEPT ![q] = NoDir] /\ NoDir \in GitDirs
  BY Bounds DEF Checkout, NoDir, GitDirs, Refs
<1>6. /\ fetching' \in [Processes -> GitDirs]
      /\ pc' \in [Processes -> {"idle", "visit", "clone", "checkout", "save"}]
      /\ UNCHANGED <<job, resolved>>
  BY <1>5 DEF Checkout, Shape
<1> QED
  BY <1>4, <1>6 DEF Shape, LocalsShape

LEMMA ShapeReturn ==
  ASSUME Shape, NEW q \in Processes, Resolving(q), Return(q)
  PROVE  LocalsShape'
<1> DEFINE f == stack[q][Len(stack[q])]
<1>1. /\ stack[q] \in Seq(Frames) /\ stack[q] # <<>> /\ pc[q] = "visit"
      /\ Called(q) = f /\ f \in Frames /\ Len(stack[q]) \in Nat \ {0}
      /\ Calls(stack[q], resolved[q], job[q].man, {})
  BY VisitFacts DEF Return
<1>2. /\ stack' = [stack EXCEPT ![q] = Front(stack[q])] /\ UNCHANGED <<job, fetching>>
      /\ \/ pc' = [pc EXCEPT ![q] = "save"] /\ UNCHANGED resolved
         \/ /\ Len(stack[q]) # 1 /\ UNCHANGED pc
            /\ resolved' = [resolved EXCEPT ![q] = Put(resolved[q], f.piece, Found(f))]
  BY <1>1 DEF Return, Found
<1>3. Front(stack[q]) \in Seq(Frames)
  BY <1>1, FrontFacts
<1>4. /\ stack' \in [Processes -> Seq(Frames)]
      /\ pc' \in [Processes -> {"idle", "visit", "clone", "checkout", "save"}]
  BY <1>2, <1>3 DEF Shape
<1>5. Len(stack[q]) # 1 => f.piece \in Pieces
  <2> SUFFICES ASSUME Len(stack[q]) # 1 PROVE f.piece \in Pieces
    OBVIOUS
  <2> DEFINE n == Len(stack[q])
  <2>1. n \in DOMAIN stack[q] /\ n - 1 \in 1 .. n
    <3>1. n \in Nat \ {0} /\ n # 1
      BY <1>1
    <3>2. DOMAIN stack[q] = 1 .. n
      BY <1>1, LenProperties
    <3> HIDE DEF n
    <3> QED
      BY <3>1, <3>2
  <2>2. stack[q][n].piece \in DOMAIN stack[q][n - 1].wants
    BY <1>1, <2>1 DEF Calls
  <2>3. stack[q][n - 1] \in Frames
    BY <1>1, <2>1, ElementOfSeq
  <2>4. stack[q][n - 1].wants \in Manifest
    BY <2>3 DEF Frames
  <2> QED
    BY <2>2, <2>4, ManifestIs
<1> HIDE DEF f
<1>6. Found(f) \in Deps
  BY <1>1, ManifestIs DEF Found, Frames, Deps
<1>7. CASE UNCHANGED resolved
  BY <1>2, <1>4, <1>7 DEF Shape, LocalsShape
<1>8. CASE Len(stack[q]) # 1 /\ resolved' = [resolved EXCEPT ![q] = Put(resolved[q], f.piece, Found(f))]
  <2>1. IsResolved(Put(resolved[q], f.piece, Found(f)))
    BY <1>5, <1>6, <1>8, ShapeFacts DEF IsResolved, Put
  <2>2. DOMAIN resolved' = Processes /\ \A r \in Processes : IsResolved(resolved'[r])
    BY <1>8, <2>1 DEF Shape
  <2> QED
    BY <1>2, <1>4, <2>2 DEF Shape, LocalsShape
<1> QED
  BY <1>2, <1>7, <1>8

\* LockedPieces are what a lock is written from.
LEMMA LockShape ==
  ASSUME Shape, NEW q \in Processes
  PROVE  IsLock(LockOf(resolved[q]))
<1> SUFFICES ASSUME NEW p \in DOMAIN resolved[q]
             PROVE  [rev |-> RevisionAt(p, resolved[q][p].dir),
                     deps |-> resolved[q][p].deps] \in LockedPiece /\ p \in Pieces
  BY DEF IsLock, LockOf
<1>1. resolved[q][p] \in Deps /\ p \in Pieces
  BY ShapeFacts DEF IsResolved
<1>2. resolved[q][p].dir \in Dirs /\ resolved[q][p].deps \in SUBSET Pieces
  BY <1>1 DEF Deps
<1>3. \A d \in DOMAIN clones : clones[d].at \in MaybeRevision
  BY DEF Shape, Clone
<1>4. RevisionAt(p, resolved[q][p].dir) \in {Local} \cup MaybeRevision
  BY <1>3 DEF RevisionAt, MaybeRevision
<1> QED
  BY <1>1, <1>2, <1>4 DEF LockedPiece

\* The files of the project, and what upstreams have.
FilesShape ==
  /\ needs \in Worlds
  /\ tip \in [Pieces -> Revisions] /\ tag \in [Pieces -> Revisions]
  /\ manifest \in Manifest /\ IsLock(lock)
  /\ \A d \in DOMAIN clones : d \in GitDirs /\ clones[d] \in Clone
  /\ spent \in 0 .. MaxCommands

LEMMA ShapeParts == Shape <=> FilesShape /\ LocalsShape
BY DEF Shape, FilesShape, LocalsShape

LEMMA ClonesStep ==
  ASSUME Shape, NEW q \in Processes, Resolving(q), Moves(q), NEW d \in DOMAIN clones'
  PROVE  d \in GitDirs /\ clones'[d] \in Clone
<1>1. Partial \in Clone
  BY DEF Partial, Clone, MaybeRevision
<1>2. \A e \in DOMAIN clones : e \in GitDirs /\ clones[e] \in Clone
  BY DEF Shape
<1>3. CASE FromGit(q)
  <2>1. PICK p \in Pieces :
          /\ Reaches(q, p)
          /\ \/ clones' = clones
             \/ clones' = Put(clones, <<p, EffectiveRef(q, p)>>, Partial)
    BY <1>3 DEF FromGit, ReachesNew
  <2>2. <<p, EffectiveRef(q, p)>> \in GitDirs
    BY <2>1, RefSort
  <2> QED
    BY <1>1, <1>2, <2>1, <2>2 DEF Put
<1>4. CASE Cloned(q)
  <2> DEFINE new == [known |-> tip[fetching[q][1]], tag |-> tag[fetching[q][1]],
                     at |-> tip[fetching[q][1]]]
  <2>1. clones' = Put(clones, fetching[q], new)
    BY <1>4 DEF Cloned
  <2>2. tip[fetching[q][1]] \in Revisions /\ tag[fetching[q][1]] \in Revisions
    BY ShapeFacts DEF Shape
  <2>3. new \in Clone
    BY <2>2 DEF Clone, MaybeRevision
  <2>4. fetching[q] \in GitDirs
    BY ShapeFacts
  <2> HIDE DEF new
  <2> QED
    BY <1>2, <2>1, <2>3, <2>4 DEF Put
<1>5. CASE CloneFails(q)
  BY <1>2, <1>5 DEF CloneFails
<1>6. CASE Checkout(q)
  <2>1. PICK rev \in MaybeRevision :
          clones' = [clones EXCEPT ![fetching[q]].at = rev]
    BY <1>6, CheckoutFacts
  <2>2. DOMAIN clones' = DOMAIN clones
    BY <2>1
  <2>3. CASE d # fetching[q]
    BY <1>2, <2>1, <2>2, <2>3
  <2>4. CASE d = fetching[q]
    <3>1. clones'[d] = [clones[d] EXCEPT !.at = rev]
      BY <2>1, <2>2, <2>4
    <3>2. clones[d] \in Clone /\ d \in GitDirs
      BY <1>2, <2>2
    <3> QED
      BY <3>1, <3>2 DEF Clone
  <2> QED
    BY <2>3, <2>4
<1> QED
  BY <1>2, <1>3, <1>4, <1>5, <1>6, ClonesKept

\* Commands leave a manifest and a lock one can read.
LEMMA ShapeCommand ==
  ASSUME Shape, NEW q \in Processes, Command(q)
  PROVE  /\ manifest' \in Manifest /\ IsLock(lock')
         /\ spent' \in 0 .. MaxCommands /\ LocalsShape'
<1>1. /\ manifest \in Manifest /\ IsLock(lock) /\ None \in Manifest /\ IsLock(None)
  BY Nothing DEF Shape
<1>2. \A saves, man, lk : Starts(q, saves, man, lk) => spent' \in 0 .. MaxCommands
  <2>1. spent \in 0 .. MaxCommands /\ spent < MaxCommands /\ MaxCommands \in Nat
    BY Bounds DEF Command, MayStart, Shape
  <2> QED
    BY <2>1 DEF Starts
<1>3. CASE Build(q)
  <2>1. PICK saves \in BOOLEAN : Starts(q, saves, manifest, lock)
    BY <1>3 DEF Build
  <2>2. Resolve(q, manifest) /\ UNCHANGED <<manifest, lock>>
    BY <1>3 DEF Build, files
  <2> QED
    BY <1>1, <1>2, <2>1, <2>2, ShapeStart
<1>4. CASE BuildLocked(q) \/ Update(q)
  <2>1. PICK lk \in {None, lock} : Starts(q, TRUE, manifest, lk)
    BY <1>4 DEF BuildLocked, Update
  <2>2. Resolve(q, manifest) /\ UNCHANGED <<manifest, lock>>
    BY <1>4 DEF BuildLocked, Update, files
  <2> QED
    BY <1>1, <1>2, <2>1, <2>2, ShapeStart
<1>5. CASE AddPiece(q)
  <2>1. PICK man \in Added :
          manifest' = man /\ Starts(q, TRUE, man, lock) /\ Resolve(q, man) /\ lock' = lock
    BY <1>5 DEF AddPiece
  <2>2. man \in Manifest
    BY <1>1, AddedIs
  <2> QED
    BY <1>1, <1>2, <2>1, <2>2, ShapeStart
<1>6. CASE RemovePiece(q)
  <2>1. PICK man \in Removed :
          /\ manifest' = man
          /\ \/ /\ Starts(q, FALSE, None, None) /\ lock' = None
                /\ UNCHANGED <<pc, stack, fetching, resolved>>
             \/ Starts(q, TRUE, man, lock) /\ Resolve(q, man) /\ lock' = lock
    BY <1>6 DEF RemovePiece
  <2>2. man \in Manifest
    BY <1>1, RemovedIs
  <2>3. CASE Starts(q, FALSE, None, None) /\ lock' = None
             /\ UNCHANGED <<pc, stack, fetching, resolved>>
    BY <1>1, <1>2, <2>1, <2>2, <2>3, JobStart DEF Shape, LocalsShape
  <2>4. CASE Starts(q, TRUE, man, lock) /\ Resolve(q, man) /\ lock' = lock
    BY <1>1, <1>2, <2>1, <2>2, <2>4, ShapeStart
  <2> QED
    BY <2>1, <2>3, <2>4
<1>7. CASE Precise(q) \/ KilledWriting(q)
  <2>1. IsLock(lock') /\ manifest' \in Manifest
    <3>1. CASE lock' \in Repinned /\ manifest' = manifest
      BY <1>1, <3>1, RepinnedIs
    <3>2. ASSUME NEW lk \in Repinned, lock' \in CutLocks(lk), manifest' = manifest
          PROVE  IsLock(lock') /\ manifest' \in Manifest
      BY <1>1, <3>2, RepinnedIs, CutLockIs
    <3>3. ASSUME NEW man \in Added \cup Removed, manifest' \in CutManifests(man),
                 lock' = lock
          PROVE  IsLock(lock') /\ manifest' \in Manifest
      BY <1>1, <3>3, AddedIs, RemovedIs, CutManifestIs
    <3> QED
      BY <1>7, <3>1, <3>2, <3>3 DEF Precise, KilledWriting
  <2>2. /\ Starts(q, FALSE, None, None)
        /\ UNCHANGED <<pc, stack, fetching, resolved>>
    BY <1>7 DEF Precise, KilledWriting
  <2> QED
    BY <1>1, <1>2, <2>1, <2>2, JobStart DEF Shape, LocalsShape
<1> QED
  BY <1>3, <1>4, <1>5, <1>6, <1>7 DEF Command

\* What the other steps leave alone.
LEMMA RestKept ==
  ASSUME NEW q \in Processes, Moves(q)
  PROVE  /\ needs' = needs /\ tip' = tip /\ tag' = tag
         /\ ~Command(q) => manifest' = manifest /\ spent' = spent
         /\ ~Command(q) /\ ~Save(q) /\ ~CrashSaving(q) => lock' = lock
BY DEF Moves, Command, Build, BuildLocked, Update, AddPiece, RemovePiece, Precise,
       KilledWriting, Step, SkipResolved, RefuseCycle, FromPath, RefusePath, RefuseRef,
       FromGit, Cloned, CloneFails, Checkout, CheckoutFails, Return, Save, Crash,
       CrashSaving, ReachesNew, Reaches, files, world

LEMMA ShapeMoves ==
  ASSUME Shape, NEW q \in Processes, Resolving(q), Moves(q)
  PROVE  Shape'
<1>1. /\ needs' \in Worlds
      /\ tip' \in [Pieces -> Revisions] /\ tag' \in [Pieces -> Revisions]
  BY RestKept DEF Shape
<1>2. \A d \in DOMAIN clones' : d \in GitDirs /\ clones'[d] \in Clone
  BY ClonesStep
<1>3. manifest' \in Manifest /\ spent' \in 0 .. MaxCommands
  BY ShapeCommand, RestKept DEF Shape
<1>4. IsLock(lock')
  <2>1. CASE Save(q) \/ CrashSaving(q)
    <3>1. \/ lock' = lock \/ lock' = LockOf(resolved[q])
          \/ lock' \in CutLocks(LockOf(resolved[q]))
      BY <2>1 DEF Save, CrashSaving
    <3> QED
      BY <3>1, LockShape, CutLockIs DEF Shape
  <2> QED
    BY <2>1, ShapeCommand, RestKept DEF Shape
<1>5. LocalsShape'
  <2>1. CASE Quit(q)
    BY <2>1, ShapeQuit
  <2>2. CASE RefuseCycle(q) \/ RefusePath(q) \/ RefuseRef(q) \/ CloneFails(q) \/ CheckoutFails(q)
               \/ Save(q) \/ Crash(q) \/ CrashSaving(q)
    BY <2>1, <2>2
    DEF RefuseCycle, RefusePath, RefuseRef, CloneFails, CheckoutFails, Save, Crash, CrashSaving
  <2>3. CASE Cloned(q)
    BY <2>3 DEF Cloned, Shape, LocalsShape
  <2> QED
    BY <2>2, <2>3, ShapeCommand, ShapeReach, ShapeCheckout, ShapeReturn DEF Moves, Step
<1>6. FilesShape'
  BY <1>1, <1>2, <1>3, <1>4 DEF FilesShape
<1> QED
  BY <1>5, <1>6 DEF Shape, FilesShape, LocalsShape

-----------------------------------------------------------------------------
(* The invariant *)

LEMMA InvInit == Init => IInv
<1> SUFFICES ASSUME Init PROVE IInv
  OBVIOUS
<1>1. NoDir \in GitDirs
  BY Bounds DEF NoDir, GitDirs, Refs
<1>2. NoJob.saves \in BOOLEAN /\ NoJob.man = None /\ NoJob.pins = None
  BY DEF NoJob
<1>3. LocalsShape
  <2>1. /\ pc \in [Processes -> {"idle", "visit", "clone", "checkout", "save"}]
        /\ stack \in [Processes -> Seq(Frames)]
        /\ fetching \in [Processes -> GitDirs]
    BY <1>1 DEF Init
  <2>2. /\ DOMAIN job = Processes /\ \A q \in Processes : job[q] = NoJob
        /\ DOMAIN resolved = Processes /\ \A q \in Processes : resolved[q] = None
    BY DEF Init
  <2> QED
    BY <1>2, <2>1, <2>2, Nothing DEF LocalsShape
<1>4. FilesShape
  <2>1. 1 \in Revisions /\ 0 \in 0 .. MaxCommands
    BY Bounds DEF Revisions
  <2>2. \A d : d \notin DOMAIN None
    BY DEF None
  <2> QED
    BY <2>1, <2>2, Nothing DEF Init, FilesShape
<1>5. \A q \in Processes : pc[q] = "idle" /\ stack[q] = <<>>
  BY DEF Init
<1>6. Cloning /\ \A q \in Processes : Resolving(q)
  BY <1>5 DEF Cloning, Resolving
<1> QED
  BY <1>3, <1>4, <1>6, ShapeParts DEF IInv

\* Between the commands: upstreams publish and move their tags, target/ is
\* removed.
Around ==
  \/ \E p \in Pieces : Publish(p)
  \/ \E p \in Tagged : Retag(p)
  \/ CleanTarget

LEMMA InvAround ==
  ASSUME IInv, Around \/ UNCHANGED vars
  PROVE  IInv'
<1>1. Shape /\ Cloning /\ \A q \in Processes : Resolving(q)
  BY DEF IInv
<1>2. /\ UNCHANGED <<needs, manifest, lock, spent, pc, job, stack, fetching, resolved>>
      /\ clones' = clones \/ (clones' = None /\ \A q \in Processes : pc[q] = "idle")
  BY DEF Around, Publish, Retag, CleanTarget, files, locals, world, vars
<1>3. tip' \in [Pieces -> Revisions] /\ tag' \in [Pieces -> Revisions]
  <2>0. tip \in [Pieces -> Revisions] /\ tag \in [Pieces -> Revisions]
    BY <1>1 DEF Shape
  <2>1. CASE tip' = tip /\ tag' = tag
    BY <2>0, <2>1
  <2>2. ASSUME NEW p \in Pieces, Publish(p)
        PROVE  tip' \in [Pieces -> Revisions] /\ tag' = tag
    <3>1. tip[p] \in Revisions /\ tip[p] < MaxRevision
      BY <2>0, <2>2 DEF Publish
    <3>2. tip[p] + 1 \in Revisions
      BY <3>1, Bounds DEF Revisions
    <3> QED
      BY <2>0, <2>2, <3>2 DEF Publish
  <2>3. ASSUME NEW p \in Tagged, Retag(p)
        PROVE  tag' \in [Pieces -> Revisions] /\ tip' = tip
    <3>1. PICK r \in 1 .. tip[p] : tag' = [tag EXCEPT ![p] = r] /\ tip' = tip
      BY <2>3 DEF Retag
    <3>2. tip[p] \in 1 .. MaxRevision /\ MaxRevision \in Nat
      BY <2>0, Bounds, PackagesAssumption DEF Revisions
    <3>3. r \in Revisions
      BY <3>1, <3>2 DEF Revisions
    <3> QED
      BY <2>0, <3>1, <3>3
  <2> QED
    BY <2>0, <2>1, <2>2, <2>3 DEF Around, CleanTarget, world, vars
<1>4. \A d \in DOMAIN clones' : d \in GitDirs /\ clones'[d] \in Clone
  BY <1>1, <1>2 DEF Shape, None
<1>5. Shape'
  BY <1>1, <1>2, <1>3, <1>4 DEF Shape
<1>6. Cloning'
  BY <1>1, <1>2 DEF Cloning
<1>7. ASSUME NEW q \in Processes PROVE Resolving(q)'
  <2>1. CASE pc[q] = "idle"
    BY <1>1, <1>2, <2>1 DEF Resolving
  <2>2. CASE pc[q] # "idle"
    <3>1. clones' = clones
      BY <1>2, <2>2
    <3>2. Fetched(q)' = Fetched(q)
      BY <1>2 DEF Fetched
    <3>3. \A m : CheckedOut(m[2])' <=> CheckedOut(m[2])
      BY <3>1 DEF CheckedOut
    <3>4. (Pinned(q)' <=> Pinned(q)) /\ (Locked(q)' <=> Locked(q))
      BY <1>2, <3>2, PinnedKept DEF Locked
    <3> QED
      BY <1>1, <1>2, <2>2, <3>2, <3>3, <3>4 DEF Resolving
  <2> QED
    BY <2>1, <2>2
<1> QED
  BY <1>5, <1>6, <1>7 DEF IInv

LEMMA InvMoves ==
  ASSUME IInv, NEW q \in Processes, Moves(q)
  PROVE  IInv'
<1>1. Shape /\ Cloning /\ \A r \in Processes : Resolving(r)
  BY DEF IInv
<1>2. Shape'
  BY <1>1, ShapeMoves
<1>3. Cloning'
  BY <1>1, CloningStep
<1>4. ASSUME NEW r \in Processes PROVE Resolving(r)'
  BY <1>1, ResolvingMover, ResolvingOther
<1> QED
  BY <1>2, <1>3, <1>4 DEF IInv

LEMMA InvStep == IInv /\ [Next]_vars => IInv'
BY InvMoves, InvAround DEF Next, Moves, Around

\* Calls, what they have met, clones and locks agree in every reachable
\* state.
THEOREM PackagesInvariant == Spec => []IInv
BY InvInit, InvStep, PTL DEF Spec


-----------------------------------------------------------------------------
(* The properties *)

\* A process with calls under way is resolving.
LEMMA StackResolving ==
  ASSUME IInv, NEW q \in Processes, stack[q] # <<>>
  PROVE  Calls(stack[q], resolved[q], job[q].man, Fetched(q))
BY DEF IInv, Resolving

LEMMA InvNoCircle == IInv => NoCircle
<1> SUFFICES ASSUME IInv, NEW q \in Processes,
                    NEW i \in DOMAIN stack[q], NEW j \in DOMAIN stack[q]
             PROVE  /\ stack[q][i].piece \notin DOMAIN resolved[q]
                    /\ stack[q][i].piece = stack[q][j].piece => i = j
  BY DEF NoCircle
<1>1. stack[q] # <<>>
  OBVIOUS
<1> QED
  BY <1>1, StackResolving DEF Calls

\* A resolution never goes in circles: the pieces in flight are different
\* ones, and none of them is resolved yet, whatever upstreams come to need
\* and however many commands run (in_flight and the resolved map of
\* resolve_dep).
THEOREM PackagesNoCircle == Spec => []NoCircle
BY PackagesInvariant, InvNoCircle, PTL

\* Calls for different pieces are no more than there are pieces, and the
\* project itself.
LEMMA CallDepth ==
  ASSUME IInv, NEW q \in Processes
  PROVE  Len(stack[q]) <= MaxPiece + 1
<1> DEFINE s == stack[q]
           f == [i \in 1 .. Len(s) |-> s[i].piece]
<1>1. s \in Seq(Frames)
  BY ShapeFacts DEF IInv
<1>2. Len(s) \in Nat /\ DOMAIN s = 1 .. Len(s) /\ \A i \in 1 .. Len(s) : s[i] \in Frames
  BY <1>1
<1>3. MaxPiece \in Nat \ {0} /\ {0} \cup Pieces = 0 .. MaxPiece
  BY Bounds DEF Pieces
<1>4. \A i \in 1 .. Len(s) : s[i].piece \in 0 .. MaxPiece
  BY <1>2, <1>3 DEF Frames
<1>5. \A i, j \in 1 .. Len(s) : s[i].piece = s[j].piece => i = j
  BY <1>2, InvNoCircle DEF NoCircle
<1>6. f \in Injection(1 .. Len(s), 0 .. MaxPiece)
  BY <1>4, <1>5 DEF Injection, IsInjective
<1>7. IsFiniteSet(0 .. MaxPiece) /\ Cardinality(0 .. MaxPiece) = MaxPiece + 1
  BY <1>3, FS_Interval
<1>8. Cardinality(1 .. Len(s)) = Len(s)
  BY <1>2, FS_Interval
<1>9. Cardinality(1 .. Len(s)) <= Cardinality(0 .. MaxPiece)
  BY <1>6, <1>7, FS_Injection
<1> QED
  BY <1>7, <1>8, <1>9

LEMMA InvTypeOK == IInv => TypeOK
<1> SUFFICES ASSUME IInv PROVE TypeOK
  OBVIOUS
<1>1. Shape /\ \A q \in Processes : Resolving(q)
  BY DEF IInv
<1>2. /\ needs \in Worlds /\ {tip, tag} \subseteq [Pieces -> Revisions]
      /\ DOMAIN manifest \cup DOMAIN lock \subseteq Pieces
      /\ \A p \in DOMAIN manifest : manifest[p] \in Spec_
      /\ \A p \in DOMAIN lock : lock[p] \in LockedPiece
      /\ \A d \in DOMAIN clones : d \in Pieces \X Refs /\ clones[d] \in Clone
      /\ spent \in 0 .. MaxCommands
  BY <1>1, ManifestIs DEF Shape, IsLock, GitDirs
<1>3. ASSUME NEW q \in Processes
      PROVE  /\ pc[q] \in {"idle", "visit", "clone", "checkout", "save"}
             /\ job[q].saves \in BOOLEAN
             /\ DOMAIN resolved[q] \subseteq Pieces
  BY <1>1 DEF Shape, IsResolved
<1>4. ASSUME NEW q \in Processes
      PROVE  pc[q] \in {"visit", "clone", "checkout"} <=> stack[q] # <<>>
  BY <1>1, <1>3 DEF Resolving
<1> QED
  BY <1>2, <1>3, <1>4, CallDepth DEF TypeOK

\* The state of the commands and of the project's files is well formed, and
\* a resolution is never deeper than there are pieces: the recursion of
\* resolve_dep ends.
THEOREM PackagesTypeCorrect == Spec => []TypeOK
BY PackagesInvariant, InvTypeOK, PTL

\* What a resolution has found when it is done.
LEMMA SaveFacts ==
  ASSUME IInv, NEW q \in Processes, Save(q)
  PROVE  /\ pc[q] = "save" /\ Fetched(q) = {} /\ stack[q] = <<>>
         /\ IsResolved(resolved[q]) /\ job[q].man \in Manifest
         /\ Calls(<<>>, resolved[q], job[q].man, {})
         /\ DOMAIN job[q].man \subseteq DOMAIN resolved[q]
         /\ Leads(Met(<<>>, resolved[q]), job[q].man)
         /\ Pinned(q) => Locked(q)
         /\ \A m \in Met(<<>>, resolved[q]) : CheckedOut(m[2])
<1>1. pc[q] = "save" /\ Resolving(q) /\ Shape
  BY DEF Save, IInv
<1>2. Fetched(q) = {} /\ stack[q] = <<>>
  BY <1>1 DEF Fetched, Resolving
<1> QED
  BY <1>1, <1>2, ShapeFacts DEF Resolving

\* The pieces a finished resolution has are those the manifest leads to.
LEMMA ResolvedIsReached ==
  ASSUME NEW res, NEW man, IsResolved(res), DOMAIN man \subseteq DOMAIN res,
         Calls(<<>>, res, man, {}), Leads(Met(<<>>, res), man), NEW deps,
         \A p \in Pieces : deps[p] = IF p \in DOMAIN res THEN res[p].deps ELSE {}
  PROVE  DOMAIN res = Reached(man, deps)
<1>1. DOMAIN res \subseteq Pieces
  BY DEF IsResolved
<1>2. \A p \in DOMAIN res : deps[p] = res[p].deps /\ deps[p] \subseteq DOMAIN res
  BY <1>1 DEF Calls
<1>3. Reached(man, deps) \subseteq DOMAIN res
  BY <1>1, <1>2 DEF Reached
<1>4. ASSUME NEW p \in DOMAIN res, NEW S \in SUBSET Pieces,
             DOMAIN man \subseteq S, \A r \in S : deps[r] \subseteq S
      PROVE  p \in S
  <2>1. ASSUME NEW m \in Met(<<>>, res), m[1] \in S PROVE m[3] \subseteq S
    <3>1. InResolved(res, m)
      BY <2>1, MetIs DEF InCalls
    <3>2. PICK r \in DOMAIN res : m = <<r, res[r].dir, res[r].deps>>
      BY <3>1 DEF InResolved
    <3>3. m[1] = r /\ m[3] = res[r].deps
      BY <3>2
    <3> QED
      BY <1>2, <1>4, <2>1, <3>3
  <2>2. \A m \in Met(<<>>, res) : m[1] \in S
    BY <1>4, <2>1 DEF Leads
  <2>3. <<p, res[p].dir, res[p].deps>> \in Met(<<>>, res)
    BY MetIs DEF InResolved
  <2> QED
    BY <2>2, <2>3
<1> QED
  BY <1>1, <1>3, <1>4 DEF Reached

LEMMA SaveIsClosed ==
  ASSUME IInv, NEW q \in Processes, Save(q), job[q].saves
  PROVE  DOMAIN lock' =
           Reached(job[q].man, [p \in Pieces |-> IF p \in DOMAIN lock'
                                                THEN lock'[p].deps ELSE {}])
<1>1. lock' = LockOf(resolved[q])
  BY DEF Save
<1>2. /\ DOMAIN lock' = DOMAIN resolved[q]
      /\ \A p \in DOMAIN resolved[q] : lock'[p].deps = resolved[q][p].deps
  BY <1>1 DEF LockOf
<1>3. PICK deps :
        deps = [p \in Pieces |-> IF p \in DOMAIN lock' THEN lock'[p].deps ELSE {}]
  OBVIOUS
<1>4. \A p \in Pieces :
        deps[p] = IF p \in DOMAIN resolved[q] THEN resolved[q][p].deps ELSE {}
  BY <1>2, <1>3
<1>5. DOMAIN resolved[q] = Reached(job[q].man, deps)
  BY <1>4, SaveFacts, ResolvedIsReached
<1> QED
  BY <1>2, <1>3, <1>5

\* A command that succeeds leaves a lock for what it built: the pieces the
\* manifest leads to, no fewer and no more (resolve_with_workspace and
\* build_lock_file).
THEOREM PackagesLockIsClosed == Spec => LockIsClosed
<1>1. IInv => \A q \in Processes : Save(q) /\ job[q].saves =>
        DOMAIN lock' =
          Reached(job[q].man, [p \in Pieces |-> IF p \in DOMAIN lock'
                                               THEN lock'[p].deps ELSE {}])
  BY SaveIsClosed
<1> QED
  BY <1>1, PackagesInvariant, PTL DEF LockIsClosed

\* What was resolved under a complete lock is what the lock says.
LEMMA SaveAsLocked ==
  ASSUME IInv, NEW q \in Processes, Save(q), Pinned(q)
  PROVE  /\ DOMAIN resolved[q] = DOMAIN job[q].pins
         /\ \A p \in DOMAIN resolved[q] :
              RevisionAt(p, resolved[q][p].dir) = job[q].pins[p].rev
<1> DEFINE res  == resolved[q]
           pins == job[q].pins
           man  == job[q].man
<1>1. Answers(man, pins, needs)
  BY PinnedIs
<1>2. ASSUME NEW p \in DOMAIN res
      PROVE  /\ p \in DOMAIN pins /\ pins[p].rev \in Revisions
             /\ res[p].dir = <<p, pins[p].rev>>
             /\ res[p].deps = DOMAIN needs[p][pins[p].rev]
             /\ CheckedOut(res[p].dir)
  <2>1. PICK m : m = <<p, res[p].dir, res[p].deps>>
    OBVIOUS
  <2>2. m \in Met(<<>>, res)
    BY <2>1, MetIs DEF InResolved
  <2>3. m[1] = p /\ m[2] = res[p].dir /\ m[3] = res[p].deps
    BY <2>1
  <2>4. /\ m[1] \in DOMAIN pins
        /\ m[2] = <<m[1], pins[m[1]].rev>>
        /\ m[3] = DOMAIN needs[m[1]][pins[m[1]].rev]
        /\ CheckedOut(m[2])
    BY <2>2, SaveFacts DEF Locked
  <2> QED
    BY <1>1, <2>3, <2>4 DEF Answers
<1>3. DOMAIN pins \subseteq DOMAIN res
  <2>1. DOMAIN res \subseteq Pieces /\ DOMAIN man \subseteq DOMAIN res
        /\ \A p \in DOMAIN res : res[p].deps \subseteq DOMAIN res
    BY SaveFacts DEF IsResolved, Calls
  <2>2. \A p \in DOMAIN res : PinsOf(pins, needs)[p] \subseteq DOMAIN res
    BY <1>2, <2>1 DEF PinsOf
  <2>3. Reached(man, PinsOf(pins, needs)) \subseteq DOMAIN res
    BY <2>1, <2>2 DEF Reached
  <2> QED
    BY <1>1, <2>3 DEF Answers
<1>4. ASSUME NEW p \in DOMAIN res PROVE RevisionAt(p, res[p].dir) = pins[p].rev
  <2>1. PICK dir : dir = res[p].dir
    OBVIOUS
  <2>2. dir = <<p, pins[p].rev>> /\ pins[p].rev \in Revisions /\ CheckedOut(dir)
    BY <1>2, <2>1
  <2>3. dir[1] = p /\ dir[2] = pins[p].rev
    BY <2>2
  <2>4. dir[2] # Local /\ dir \in DOMAIN clones /\ clones[dir].at = pins[p].rev
    BY <2>2, <2>3, Bounds DEF CheckedOut, Refs
  <2> QED
    BY <2>1, <2>3, <2>4 DEF RevisionAt, IsPath
<1> QED
  BY <1>2, <1>3, <1>4

\* A command that finds a lock for all of its pieces, which no manifest
\* contradicts, builds those revisions and no others, whatever was published
\* since, whatever target/ holds and whoever else runs (effective_ref and
\* checkout of resolve_git_dep).
THEOREM PackagesLockReproduces == Spec => LockReproduces
<1>1. IInv => \A q \in Processes : Save(q) /\ Pinned(q) =>
        /\ DOMAIN resolved[q] = DOMAIN job[q].pins
        /\ \A p \in DOMAIN resolved[q] :
             RevisionAt(p, resolved[q][p].dir) = job[q].pins[p].rev
  BY SaveAsLocked
<1> QED
  BY <1>1, PackagesInvariant, PTL DEF LockReproduces

-----------------------------------------------------------------------------
(* Numbers, and the last of some pieces *)

\* A set of numbers with 0 and every successor has all of them.
LEMMA NatIn ==
  ASSUME NEW K, 0 \in K, \A k \in Nat : k \in K => k + 1 \in K
  PROVE  Nat \subseteq K
<1> DEFINE Below == {ss \in Nat \X Nat : ss[1] < ss[2]}
           Out == Nat \ K
<1>1. IsWellFoundedOn(Below, Nat)
  BY NatLessThanWellFounded DEF OpToRel
<1>2. ASSUME Out # {} PROVE FALSE
  <2>1. PICK k \in Out : \A j \in Out : ~(<<j, k>> \in Below)
    <3> HIDE DEF Below
    <3>1. Out \subseteq Nat
      OBVIOUS
    <3> HIDE DEF Out
    <3> QED
      BY <1>1, <1>2, <3>1, WFMin
  <2>2. k # 0 /\ k \in Nat
    OBVIOUS
  <2>3. k - 1 \in Nat /\ (k - 1) + 1 = k /\ k - 1 < k
    BY <2>2
  <2>4. k - 1 \notin Out
    BY <2>1, <2>2, <2>3
  <2> QED
    BY <2>2, <2>3, <2>4
<1> QED
  BY <1>2

\* The last of some pieces.
LEMMA GreatestElement ==
  ASSUME NEW S \in SUBSET Pieces, S # {}
  PROVE  Max(S) \in S /\ \A y \in S : y =< Max(S)
<1>1. S \subseteq 1 .. MaxPiece /\ MaxPiece \in Nat
  BY Bounds DEF Pieces
<1>2. ASSUME \A x \in S : \E y \in S : ~(y <= x) PROVE FALSE
  <2> DEFINE K == {n \in Nat : \E y \in S : n <= y}
  <2>1. 0 \in K
    <3>1. PICK y \in S : TRUE
      OBVIOUS
    <3>2. 0 <= y
      BY <1>1
    <3> QED
      BY <3>2
  <2>2. ASSUME NEW k \in Nat, k \in K PROVE k + 1 \in K
    <3>1. PICK y \in S : k <= y
      BY <2>2
    <3>2. PICK z \in S : ~(z <= y)
      BY <1>2
    <3>3. y \in Nat /\ z \in Nat
      BY <1>1
    <3> QED
      BY <3>1, <3>2, <3>3
  <2> HIDE DEF K
  <2>3. Nat \subseteq K
    BY <2>1, <2>2, NatIn
  <2>4. MaxPiece + 1 \in K
    BY <1>1, <2>3
  <2> QED
    BY <1>1, <2>4 DEF K
<1>3. PICK m \in S : \A y \in S : y <= m
  BY <1>2
<1>4. \A y \in S : m >= y
  BY <1>1, <1>3
<1>5. Max(S) \in S /\ \A y \in S : Max(S) >= y
  BY <1>4 DEF Max
<1> QED
  BY <1>1, <1>5

-----------------------------------------------------------------------------
(* Visiting pieces in the order of their names *)

\* g folds F over sets of pieces, from s: InOrder reads it at one of them.
IsFold(F, s, g, all) ==
  g = [ps \in all |-> IF ps = {} THEN s ELSE F[Max(ps)][g[ps \ {Max(ps)}]]]

LEMMA InOrderIs ==
  ASSUME NEW F, NEW s, NEW ps
  PROVE  InOrder(F, s, ps) = (CHOOSE g : IsFold(F, s, g, SUBSET ps))[ps]
BY DEF InOrder, MapThenFoldSet, IsFold

Upto(ps, n) == {rs \in SUBSET ps : rs \subseteq 1 .. n}

\* Without its last piece, a set is one step shorter.
LEMMA UptoLess ==
  ASSUME NEW ps \in SUBSET Pieces, NEW n \in Nat, NEW rs \in Upto(ps, n + 1),
         rs # {}
  PROVE  rs \ {Max(rs)} \in Upto(ps, n)
<1>1. rs \subseteq ps /\ rs \subseteq 1 .. n + 1
  BY DEF Upto
<1>2. Max(rs) \in rs /\ \A y \in rs : y <= Max(rs)
  BY <1>1, GreatestElement
<1>3. ASSUME NEW y \in rs \ {Max(rs)} PROVE y \in 1 .. n
  <2>1. y \in 1 .. n + 1 /\ Max(rs) \in 1 .. n + 1 /\ y <= Max(rs) /\ y # Max(rs)
    BY <1>1, <1>2, <1>3
  <2> QED
    BY <2>1
<1> QED
  BY <1>1, <1>3 DEF Upto

LEMMA UptoAll ==
  ASSUME NEW ps \in SUBSET Pieces
  PROVE  Upto(ps, MaxPiece) = SUBSET ps /\ Upto(ps, 0) = {{}}
<1>1. 1 .. 0 = {}
  OBVIOUS
<1> QED
  BY <1>1 DEF Upto, Pieces

LEMMA FoldExists ==
  ASSUME NEW F, NEW s, NEW ps \in SUBSET Pieces
  PROVE  \E g : IsFold(F, s, g, SUBSET ps)
<1> DEFINE K == {n \in Nat : \E g : IsFold(F, s, g, Upto(ps, n))}
<1>1. 0 \in K
  <2> DEFINE g == [rs \in {{}} |-> s]
  <2>1. g = [rs \in {{}} |-> IF rs = {} THEN s ELSE F[Max(rs)][g[rs \ {Max(rs)}]]]
    OBVIOUS
  <2>2. IsFold(F, s, g, {{}})
    BY <2>1 DEF IsFold
  <2> QED
    BY <2>2, UptoAll
<1>2. ASSUME NEW n \in Nat, n \in K PROVE n + 1 \in K
  <2>1. PICK g : IsFold(F, s, g, Upto(ps, n))
    BY <1>2
  <2> DEFINE h == [rs \in Upto(ps, n + 1) |->
                     IF rs = {} THEN s ELSE F[Max(rs)][g[rs \ {Max(rs)}]]]
  <2>2. \A rs \in Upto(ps, n) : h[rs] = g[rs]
    <3>1. Upto(ps, n) \subseteq Upto(ps, n + 1)
      BY DEF Upto
    <3> QED
      BY <2>1, <3>1 DEF IsFold
  <2>3. ASSUME NEW rs \in Upto(ps, n + 1)
        PROVE  h[rs] = IF rs = {} THEN s ELSE F[Max(rs)][h[rs \ {Max(rs)}]]
    <3>1. CASE rs = {}
      BY <3>1
    <3>2. CASE rs # {}
      <4>1. h[rs \ {Max(rs)}] = g[rs \ {Max(rs)}]
        BY <2>2, <3>2, UptoLess
      <4> QED
        BY <3>2, <4>1
    <3> QED
      BY <3>1, <3>2
  <2>4. h = [rs \in Upto(ps, n + 1) |-> h[rs]]
    OBVIOUS
  <2> HIDE DEF h
  <2>5. h = [rs \in Upto(ps, n + 1) |->
               IF rs = {} THEN s ELSE F[Max(rs)][h[rs \ {Max(rs)}]]]
    BY <2>3, <2>4
  <2>6. IsFold(F, s, h, Upto(ps, n + 1))
    BY <2>5 DEF IsFold
  <2> QED
    BY <2>6
<1> HIDE DEF K
<1>3. MaxPiece \in K
  BY <1>1, <1>2, NatIn, Bounds
<1>4. PICK g : IsFold(F, s, g, Upto(ps, MaxPiece))
  BY <1>3 DEF K
<1>5. Upto(ps, MaxPiece) = SUBSET ps
  BY UptoAll
<1> QED
  BY <1>4, <1>5

\* Two folds agree where both are defined.
LEMMA FoldUnique ==
  ASSUME NEW F, NEW s, NEW ps \in SUBSET Pieces, NEW rs \in SUBSET ps, NEW g, NEW h,
         IsFold(F, s, g, SUBSET ps), IsFold(F, s, h, SUBSET rs)
  PROVE  g[rs] = h[rs]
<1> DEFINE K == {n \in Nat : \A ts \in Upto(rs, n) : g[ts] = h[ts]}
<1>0. /\ \A ts \in SUBSET ps : g[ts] = IF ts = {} THEN s ELSE F[Max(ts)][g[ts \ {Max(ts)}]]
      /\ \A ts \in SUBSET rs : h[ts] = IF ts = {} THEN s ELSE F[Max(ts)][h[ts \ {Max(ts)}]]
  BY DEF IsFold
<1>1. 0 \in K
  BY <1>0, UptoAll
<1>2. ASSUME NEW n \in Nat, n \in K PROVE n + 1 \in K
  <2>1. ASSUME NEW ts \in Upto(rs, n + 1) PROVE g[ts] = h[ts]
    <3>1. ts \in SUBSET rs /\ ts \in SUBSET ps
      BY <2>1 DEF Upto
    <3>2. CASE ts = {}
      BY <1>0, <3>1, <3>2
    <3>3. CASE ts # {}
      <4>1. g[ts \ {Max(ts)}] = h[ts \ {Max(ts)}]
        BY <1>2, <2>1, <3>3, UptoLess
      <4> QED
        BY <1>0, <3>1, <3>3, <4>1
    <3> QED
      BY <3>2, <3>3
  <2> QED
    BY <2>1
<1> HIDE DEF K
<1>3. MaxPiece \in K
  BY <1>1, <1>2, NatIn, Bounds
<1>4. rs \in Upto(rs, MaxPiece)
  BY UptoAll
<1> QED
  BY <1>3, <1>4 DEF K

\* What InOrder does: nothing to no piece, and to some the last one last.
LEMMA InOrderNone ==
  ASSUME NEW F, NEW s
  PROVE  InOrder(F, s, {}) = s
<1> DEFINE g == CHOOSE g : IsFold(F, s, g, SUBSET {})
<1>1. IsFold(F, s, g, SUBSET {})
  BY FoldExists
<1> HIDE DEF g
<1>2. g[{}] = s
  BY <1>1 DEF IsFold
<1> QED
  BY <1>2, InOrderIs DEF g

LEMMA InOrderLast ==
  ASSUME NEW F, NEW s, NEW ps \in SUBSET Pieces, ps # {}
  PROVE  InOrder(F, s, ps) = F[Max(ps)][InOrder(F, s, ps \ {Max(ps)})]
<1> DEFINE rs == ps \ {Max(ps)}
<1>1. PICK g : g = (CHOOSE f : IsFold(F, s, f, SUBSET ps))
  OBVIOUS
<1>2. PICK h : h = (CHOOSE f : IsFold(F, s, f, SUBSET rs))
  OBVIOUS
<1>3. IsFold(F, s, g, SUBSET ps)
  BY <1>1, FoldExists
<1>4. IsFold(F, s, h, SUBSET rs)
  BY <1>2, FoldExists
<1>5. g[rs] = h[rs]
  BY <1>3, <1>4, FoldUnique
<1>6. g[ps] = F[Max(ps)][g[rs]]
  BY <1>3 DEF IsFold
<1>7. InOrder(F, s, ps) = g[ps] /\ InOrder(F, s, rs) = h[rs]
  BY <1>1, <1>2, InOrderIs
<1> QED
  BY <1>5, <1>6, <1>7

-----------------------------------------------------------------------------
(* The sort *)

\* The sort after visiting p, if w visits what it depends on.
Visiting(res, w, n, s, p) ==
  LET below == InOrder(w, [s EXCEPT !.seen = @ \cup {p}], res[p].deps)
  IN IF n = 0 \/ p \in s.seen \/ p \notin DOMAIN res THEN s
     ELSE [below EXCEPT !.order = Append(@, p)]

Visited(res, w, n) == [p \in Pieces |-> [s \in Sort |-> Visiting(res, w, n, s, p)]]

IsVisit(res, v, n) == v = [m \in 0 .. n |-> Visited(res, v[m - 1], m)]

LEMMA VisitedAt ==
  ASSUME NEW res, NEW w, NEW n, NEW s \in Sort, NEW p \in Pieces
  PROVE  Visited(res, w, n)[p][s] = Visiting(res, w, n, s, p)
BY DEF Visited

LEMMA TopoVisitIs ==
  ASSUME NEW res
  PROVE  TopoVisit(res) = (CHOOSE v : IsVisit(res, v, MaxPiece))[MaxPiece]
BY DEF TopoVisit, IsVisit, Visited, Visiting

LEMMA VisitNone ==
  ASSUME NEW res, NEW v, NEW w
  PROVE  Visited(res, v, 0) = Visited(res, w, 0)
BY DEF Visited, Visiting

LEMMA VisitExists ==
  ASSUME NEW res
  PROVE  \E v : IsVisit(res, v, MaxPiece)
<1> DEFINE K == {n \in Nat : \E v : IsVisit(res, v, n)}
<1>1. 0 \in K
  <2> DEFINE v == [m \in 0 .. 0 |-> Visited(res, {}, 0)]
  <2>1. \A m \in 0 .. 0 : Visited(res, {}, 0) = Visited(res, v[m - 1], m)
    <3>1. \A m \in 0 .. 0 : m = 0
      OBVIOUS
    <3> HIDE DEF v
    <3> QED
      BY <3>1, VisitNone
  <2>2. v = [m \in 0 .. 0 |-> Visited(res, v[m - 1], m)]
    BY <2>1
  <2> HIDE DEF v
  <2>3. IsVisit(res, v, 0)
    BY <2>2 DEF IsVisit
  <2> QED
    BY <2>3
<1>2. ASSUME NEW n \in Nat, n \in K PROVE n + 1 \in K
  <2>1. PICK v : IsVisit(res, v, n)
    BY <1>2
  <2> DEFINE u == [m \in 0 .. n + 1 |-> Visited(res, v[m - 1], m)]
  <2>2. \A m \in 0 .. n : u[m] = v[m]
    BY <2>1 DEF IsVisit
  <2>3. \A m \in 0 .. n + 1 : u[m] = Visited(res, v[m - 1], m)
    OBVIOUS
  <2>4. u = [m \in 0 .. n + 1 |-> u[m]]
    OBVIOUS
  <2> HIDE DEF u
  <2>5. ASSUME NEW m \in 0 .. n + 1 PROVE u[m] = Visited(res, u[m - 1], m)
    <3>1. CASE m = 0
      BY <2>3, <3>1, VisitNone
    <3>2. CASE m # 0
      <4>1. m - 1 \in 0 .. n
        BY <3>2
      <4> QED
        BY <2>2, <2>3, <4>1
    <3> QED
      BY <3>1, <3>2
  <2>6. u = [m \in 0 .. n + 1 |-> Visited(res, u[m - 1], m)]
    BY <2>4, <2>5
  <2>7. IsVisit(res, u, n + 1)
    BY <2>6 DEF IsVisit
  <2> QED
    BY <2>7
<1> HIDE DEF K
<1>3. MaxPiece \in K
  BY <1>1, <1>2, NatIn, Bounds
<1> QED
  BY <1>3 DEF K

\* Every piece ranks above what it depends on.
Ranked(res, rank) ==
  /\ DOMAIN res \subseteq Pieces
  /\ \A p \in DOMAIN res :
       /\ rank[p] \in Nat /\ rank[p] < MaxPiece
       /\ res[p].deps \subseteq DOMAIN res
       /\ \A c \in res[p].deps : rank[c] < rank[p]

LeavesUpTo(order, res) ==
  \A i \in DOMAIN order : res[order[i]].deps \subseteq Range(SubSeq(order, 1, i - 1))

\* What is visited is pushed, but for the pieces in the midst of it.
Sorting(s, open, res) ==
  /\ s \in Sort /\ Range(s.order) \subseteq DOMAIN res
  /\ s.seen = Range(s.order) \cup open /\ Range(s.order) \cap open = {}
  /\ LeavesUpTo(s.order, res)

\* u is t with p pushed.
Pushed(u, t, p) == u = [t EXCEPT !.order = Append(@, p)]

LEMMA SortingPush ==
  ASSUME NEW res, DOMAIN res \subseteq Pieces, NEW open, NEW p \in DOMAIN res, p \notin open,
         NEW all, all = open \cup {p},
         NEW t, Sorting(t, all, res), res[p].deps \subseteq Range(t.order),
         NEW u, Pushed(u, t, p)
  PROVE  Sorting(u, open, res) /\ Range(u.order) = Range(t.order) \cup {p}
<1> DEFINE o == t.order
           n == Len(o)
<1>1. o \in Seq(Pieces) /\ t.seen \in SUBSET Pieces /\ n \in Nat /\ DOMAIN o = 1 .. n
  BY DEF Sorting, Sort
<1>2. u = [seen |-> t.seen, order |-> Append(o, p)] /\ p \in Pieces
  BY DEF Sorting, Sort, Pushed
<1>3. PICK a : a = Append(o, p)
  OBVIOUS
<1>4. /\ a \in Seq(Pieces) /\ DOMAIN a = 1 .. n + 1 /\ a[n + 1] = p
      /\ \A i \in 1 .. n : a[i] = o[i]
  BY <1>1, <1>2, <1>3
<1>5. u.order = a /\ u.seen = t.seen /\ u \in Sort
  BY <1>1, <1>2, <1>3, <1>4 DEF Sort
<1>6. Range(a) = Range(o) \cup {p}
  BY <1>1, <1>4 DEF Range
<1>7. ASSUME NEW i \in 1 .. n + 1 PROVE Range(SubSeq(a, 1, i - 1)) = {a[j] : j \in 1 .. i - 1}
  <2>1. SubSeq(a, 1, i - 1) = [j \in 1 .. i - 1 |-> a[j]]
    BY <1>1, <1>4
  <2> QED
    BY <2>1 DEF Range
<1>8. ASSUME NEW i \in 1 .. n PROVE Range(SubSeq(o, 1, i - 1)) = {o[j] : j \in 1 .. i - 1}
  <2>1. SubSeq(o, 1, i - 1) = [j \in 1 .. i - 1 |-> o[j]]
    BY <1>1
  <2> QED
    BY <2>1 DEF Range
<1>9. ASSUME NEW i \in 1 .. n + 1
      PROVE  res[a[i]].deps \subseteq Range(SubSeq(a, 1, i - 1))
  <2>1. CASE i = n + 1
    <3>1. Range(o) = {a[j] : j \in 1 .. i - 1}
      BY <1>1, <1>4, <2>1 DEF Range
    <3> QED
      BY <1>4, <1>7, <2>1, <3>1
  <2>2. CASE i # n + 1
    <3>1. i \in 1 .. n /\ a[i] = o[i]
      BY <1>1, <1>4, <2>2
    <3>2. res[o[i]].deps \subseteq {o[j] : j \in 1 .. i - 1}
      BY <1>1, <1>8, <3>1 DEF Sorting, LeavesUpTo
    <3>3. \A j \in 1 .. i - 1 : a[j] = o[j]
      BY <1>1, <1>4, <3>1
    <3> QED
      BY <1>7, <3>1, <3>2, <3>3
  <2> QED
    BY <2>1, <2>2
<1>10. t.seen = Range(o) \cup (open \cup {p}) /\ Range(o) \cap (open \cup {p}) = {}
       /\ Range(o) \subseteq DOMAIN res
  BY DEF Sorting
<1>11. LeavesUpTo(a, res)
  BY <1>4, <1>9 DEF LeavesUpTo
<1>12. /\ Range(a) \subseteq DOMAIN res /\ t.seen = Range(a) \cup open
       /\ Range(a) \cap open = {}
  BY <1>6, <1>10
<1> QED
  BY <1>5, <1>6, <1>11, <1>12 DEF Sorting

\* The sort t is s after visiting ps.
SortedMore(t, s, ps, open, res) ==
  Sorting(t, open, res) /\ Range(s.order) \cup ps \subseteq Range(t.order)

LEMMA SortingInOrder ==
  ASSUME NEW res, NEW open, NEW F, NEW s, Sorting(s, open, res),
         NEW ps \in SUBSET Pieces,
         \A p \in ps : \A t \in Sort :
           Sorting(t, open, res) => SortedMore(F[p][t], t, {p}, open, res)
  PROVE  SortedMore(InOrder(F, s, ps), s, ps, open, res)
<1> DEFINE Done(n) == \A rs \in Upto(ps, n) :
                        SortedMore(InOrder(F, s, rs), s, rs, open, res)
           K == {n \in Nat : Done(n)}
<1>1. 0 \in K
  <2>1. SortedMore(InOrder(F, s, {}), s, {}, open, res)
    BY InOrderNone DEF SortedMore
  <2> QED
    BY <2>1, UptoAll
<1>2. ASSUME NEW n \in Nat, n \in K PROVE n + 1 \in K
  <2>1. ASSUME NEW rs \in Upto(ps, n + 1)
        PROVE  SortedMore(InOrder(F, s, rs), s, rs, open, res)
    <3>1. CASE rs = {}
      BY <3>1, InOrderNone DEF SortedMore
    <3>2. CASE rs # {}
      <4>1. rs \in SUBSET Pieces /\ rs \subseteq ps
        BY DEF Upto
      <4>2. PICK m \in rs : m = Max(rs)
        BY <3>2, <4>1, GreatestElement
      <4>3. PICK t : t = InOrder(F, s, rs \ {m})
        OBVIOUS
      <4>4. SortedMore(t, s, rs \ {m}, open, res)
        BY <1>2, <3>2, <4>2, <4>3, UptoLess
      <4>5. t \in Sort
        BY <4>4 DEF SortedMore, Sorting
      <4>6. SortedMore(F[m][t], t, {m}, open, res)
        BY <4>1, <4>2, <4>4, <4>5 DEF SortedMore
      <4>7. InOrder(F, s, rs) = F[m][t]
        BY <3>2, <4>1, <4>2, <4>3, InOrderLast
      <4> QED
        BY <4>2, <4>4, <4>6, <4>7 DEF SortedMore
    <3> QED
      BY <3>1, <3>2
  <2>2. Done(n + 1)
    BY <2>1
  <2>3. n + 1 \in Nat
    OBVIOUS
  <2> HIDE DEF Done
  <2> QED
    BY <2>2, <2>3
<1> HIDE DEF K
<1>3. MaxPiece \in K
  BY <1>1, <1>2, NatIn, Bounds
<1>4. ps \in Upto(ps, MaxPiece)
  BY UptoAll
<1> QED
  BY <1>3, <1>4 DEF K

\* A visit of p, which ranks below every piece in the midst of it.
LEMMA SortingVisit ==
  ASSUME NEW res, NEW rank, Ranked(res, rank), NEW v, IsVisit(res, v, MaxPiece),
         NEW m \in 0 .. MaxPiece
  PROVE  \A p \in DOMAIN res, s \in Sort, open \in SUBSET DOMAIN res :
           /\ rank[p] < m /\ Sorting(s, open, res)
           /\ \A g \in open : rank[p] < rank[g]
           => SortedMore(v[m][p][s], s, {p}, open, res)
<1> DEFINE Visits(n, p, s, open) ==
             /\ rank[p] < n /\ Sorting(s, open, res)
             /\ \A g \in open : rank[p] < rank[g]
             => SortedMore(v[n][p][s], s, {p}, open, res)
           Done(n) == \A p \in DOMAIN res, s \in Sort, open \in SUBSET DOMAIN res :
                        Visits(n, p, s, open)
           K == {n \in Nat : n <= MaxPiece => Done(n)}
<1>1. 0 \in K
  <2>1. \A p \in DOMAIN res : ~(rank[p] < 0)
    BY DEF Ranked
  <2> QED
    BY <2>1
<1>2. ASSUME NEW n \in Nat, n \in K PROVE n + 1 \in K
  <2>1. ASSUME n + 1 <= MaxPiece,
               NEW p \in DOMAIN res, NEW s \in Sort, NEW open \in SUBSET DOMAIN res,
               rank[p] < n + 1, Sorting(s, open, res), \A g \in open : rank[p] < rank[g]
        PROVE  SortedMore(v[n + 1][p][s], s, {p}, open, res)
    <3>1. n + 1 \in 0 .. MaxPiece /\ (n + 1) - 1 = n /\ n <= MaxPiece /\ n + 1 # 0
      BY <2>1, Bounds
    <3>2. v[n + 1] = Visited(res, v[n], n + 1)
      BY <3>1 DEF IsVisit
    <3> DEFINE s2 == [s EXCEPT !.seen = @ \cup {p}]
               below == InOrder(v[n], s2, res[p].deps)
    <3>3. p \in Pieces /\ res[p].deps \in SUBSET Pieces
      BY DEF Ranked
    <3>4. v[n + 1][p][s] = IF p \in s.seen THEN s
                           ELSE [below EXCEPT !.order = Append(@, p)]
      <4>1. v[n + 1][p][s] = Visiting(res, v[n], n + 1, s, p)
        BY <3>2, <3>3, VisitedAt
      <4> QED
        BY <3>1, <4>1 DEF Visiting
    <3>5. p \notin open
      BY <2>1 DEF Ranked
    <3>6. CASE p \in s.seen
      BY <2>1, <3>4, <3>5, <3>6 DEF SortedMore, Sorting
    <3>7. CASE p \notin s.seen
      <4>1. s2 = [seen |-> s.seen \cup {p}, order |-> s.order]
        <5>1. \A r \in Sort : r = [seen |-> r.seen, order |-> r.order]
          BY DEF Sort
        <5> QED
          BY <5>1
      <4>2. PICK t : t = s2
        OBVIOUS
      <4>3. t.seen = s.seen \cup {p} /\ t.order = s.order /\ t \in Sort
        BY <3>3, <4>1, <4>2 DEF Sort
      <4>4. Sorting(t, open \cup {p}, res)
        BY <2>1, <3>7, <4>3 DEF Sorting
      <4>5. ASSUME NEW c \in res[p].deps, NEW r \in Sort, Sorting(r, open \cup {p}, res)
            PROVE  SortedMore(v[n][c][r], r, {c}, open \cup {p}, res)
        <5>1. c \in DOMAIN res /\ rank[c] \in Nat /\ rank[p] \in Nat /\ rank[c] < rank[p]
          BY DEF Ranked
        <5>2. \A g \in open \cup {p} : rank[c] < rank[g]
          <6>1. \A g \in open : rank[g] \in Nat
            BY DEF Ranked
          <6> QED
            BY <2>1, <5>1, <6>1
        <5>3. rank[c] < n
          BY <2>1, <5>1
        <5>4. Visits(n, c, r, open \cup {p})
          BY <1>2, <3>1, <5>1
        <5> QED
          BY <4>5, <5>2, <5>3, <5>4
      <4>6. PICK b : b = InOrder(v[n], t, res[p].deps)
        OBVIOUS
      <4>7. SortedMore(b, t, res[p].deps, open \cup {p}, res)
        <5> HIDE DEF s2, below
        <5> QED
          BY <3>3, <4>4, <4>5, <4>6, SortingInOrder
      <4>8. PICK u : Pushed(u, b, p)
        BY DEF Pushed
      <4>9. Sorting(u, open, res) /\ Range(u.order) = Range(b.order) \cup {p}
        <5>1. /\ DOMAIN res \subseteq Pieces /\ Sorting(b, open \cup {p}, res)
              /\ res[p].deps \subseteq Range(b.order)
          BY <4>7 DEF SortedMore, Ranked
        <5>2. PICK all : all = open \cup {p}
          OBVIOUS
        <5>3. Sorting(b, all, res)
          BY <5>1, <5>2
        <5> QED
          BY <3>5, <4>8, <5>1, <5>2, <5>3, SortingPush
      <4>10. v[n + 1][p][s] = u
        <5>1. b = below
          BY <4>2, <4>6
        <5> HIDE DEF s2, below
        <5> QED
          BY <3>4, <3>7, <4>8, <5>1 DEF Pushed
      <4> QED
        BY <4>3, <4>7, <4>9, <4>10 DEF SortedMore
    <3> QED
      BY <3>6, <3>7
  <2>2. n + 1 <= MaxPiece => Done(n + 1)
    BY <2>1
  <2>3. n + 1 \in Nat
    OBVIOUS
  <2> HIDE DEF Done
  <2> QED
    BY <2>2, <2>3
<1> HIDE DEF K
<1>3. m \in K /\ m \in Nat /\ m <= MaxPiece
  BY <1>1, <1>2, NatIn, Bounds
<1>4. Done(m)
  <2> HIDE DEF Done
  <2> QED
    BY <1>3 DEF K
<1> QED
  BY <1>4

\* What Sorted returns for pieces that do not need themselves.
LEMMA SortedLeaves ==
  ASSUME NEW res, NEW rank, Ranked(res, rank)
  PROVE  Range(Sorted(res)) = DOMAIN res /\ LeavesUpTo(Sorted(res), res)
<1>1. PICK v : v = (CHOOSE f : IsVisit(res, f, MaxPiece))
  OBVIOUS
<1>2. IsVisit(res, v, MaxPiece) /\ TopoVisit(res) = v[MaxPiece]
  BY <1>1, VisitExists, TopoVisitIs
<1>3. PICK s : s = [seen |-> {}, order |-> <<>>]
  OBVIOUS
<1>4. s \in Sort /\ Sorting(s, {}, res) /\ s.order = <<>>
  BY <1>3 DEF Sort, Sorting, LeavesUpTo, Range
<1>5. MaxPiece \in 0 .. MaxPiece /\ DOMAIN res \in SUBSET Pieces
  BY Bounds DEF Ranked
<1>6. ASSUME NEW p \in DOMAIN res, NEW t \in Sort, Sorting(t, {}, res)
      PROVE  SortedMore(v[MaxPiece][p][t], t, {p}, {}, res)
  <2>1. rank[p] < MaxPiece
    BY DEF Ranked
  <2> QED
    BY <1>2, <1>5, <1>6, <2>1, SortingVisit
<1>7. SortedMore(InOrder(v[MaxPiece], s, DOMAIN res), s, DOMAIN res, {}, res)
  BY <1>4, <1>5, <1>6, SortingInOrder
<1>8. Sorted(res) = InOrder(v[MaxPiece], s, DOMAIN res).order
  BY <1>2, <1>3 DEF Sorted
<1> QED
  BY <1>7, <1>8 DEF SortedMore, Sorting

-----------------------------------------------------------------------------
(* Nothing needs itself *)

\* What is resolved can be ranked: each piece above what it depends on.
RankedBy(res, rank) ==
  \A p \in DOMAIN res :
    /\ rank[p] \in Nat /\ rank[p] < Cardinality(DOMAIN res)
    /\ res[p].deps \subseteq DOMAIN res
    /\ \A c \in res[p].deps : rank[c] < rank[p]

Graded(res) == \E rank : RankedBy(res, rank)

LEMMA SomePieces ==
  ASSUME NEW ps \in SUBSET Pieces
  PROVE  IsFiniteSet(ps) /\ Cardinality(ps) \in Nat /\ Cardinality(ps) <= MaxPiece
<1>1. 1 \in Int /\ MaxPiece \in Int /\ MaxPiece \in Nat
  BY Bounds
<1>2. IsFiniteSet(Pieces) /\ Cardinality(Pieces) = MaxPiece
  <2>1. IsFiniteSet(1 .. MaxPiece)
    BY <1>1, FS_Interval
  <2>2. Cardinality(1 .. MaxPiece) = IF 1 > MaxPiece THEN 0 ELSE MaxPiece - 1 + 1
    BY <1>1, FS_Interval
  <2>3. MaxPiece >= 1 /\ MaxPiece - 1 + 1 = MaxPiece
    BY Bounds
  <2> QED
    BY <1>1, <2>1, <2>2, <2>3 DEF Pieces
<1>3. IsFiniteSet(ps) /\ Cardinality(ps) <= Cardinality(Pieces)
  BY <1>2, FS_Subset
<1> QED
  BY <1>2, <1>3, FS_CardinalityType

LEMMA GradedNone == Graded(None)
<1>1. DOMAIN None = {}
  BY DEF None
<1>2. RankedBy(None, None)
  BY <1>1 DEF RankedBy
<1> QED
  BY <1>2 DEF Graded

\* A piece whose dependencies are resolved ranks above all of them.
LEMMA GradedPut ==
  ASSUME NEW res, DOMAIN res \subseteq Pieces, Graded(res), NEW p \in Pieces \ DOMAIN res,
         NEW f, f.deps \subseteq DOMAIN res
  PROVE  Graded(Put(res, p, f))
<1>1. PICK rank : RankedBy(res, rank)
  BY DEF Graded
<1>2. PICK n : n = Cardinality(DOMAIN res)
  OBVIOUS
<1>3. PICK new : new = Put(res, p, f)
  OBVIOUS
<1>4. DOMAIN new = DOMAIN res \cup {p} /\ new[p] = f /\ \A r \in DOMAIN res : new[r] = res[r]
  BY <1>3 DEF Put
<1>5. Cardinality(DOMAIN new) = n + 1 /\ n \in Nat
  <2>1. PICK old : old = DOMAIN res
    OBVIOUS
  <2>2. IsFiniteSet(old) /\ n \in Nat
    BY <1>2, <2>1, SomePieces
  <2>3. Cardinality(old \cup {p}) = Cardinality(old) + 1
    BY <2>1, <2>2, FS_AddElement
  <2> QED
    BY <1>2, <1>4, <2>1, <2>2, <2>3
<1>6. PICK up : up = [r \in DOMAIN new |-> IF r = p THEN n ELSE rank[r]]
  OBVIOUS
<1>7. ASSUME NEW r \in DOMAIN new
      PROVE  /\ up[r] \in Nat /\ up[r] < n + 1
             /\ new[r].deps \subseteq DOMAIN new
             /\ \A c \in new[r].deps : up[c] < up[r]
  <2>1. \A c \in DOMAIN res : rank[c] \in Nat /\ rank[c] < n /\ up[c] = rank[c]
    BY <1>1, <1>2, <1>4, <1>6 DEF RankedBy
  <2>2. CASE r = p
    BY <1>4, <1>5, <1>6, <2>1, <2>2
  <2>3. CASE r # p
    <3>1. r \in DOMAIN res /\ new[r] = res[r]
      BY <1>4, <2>3
    <3>2. res[r].deps \subseteq DOMAIN res /\ \A c \in res[r].deps : rank[c] < rank[r]
      BY <1>1, <3>1 DEF RankedBy
    <3> QED
      BY <1>4, <1>5, <2>1, <3>1, <3>2
  <2> QED
    BY <2>2, <2>3
<1>8. RankedBy(new, up)
  BY <1>5, <1>7 DEF RankedBy
<1> QED
  BY <1>3, <1>8 DEF Graded

\* What a step leaves resolved: what was, nothing, or one piece more.
LEMMA ResolvedStep ==
  ASSUME Shape, NEW q \in Processes, Moves(q), ~Return(q)
  PROVE  resolved'[q] \in {resolved[q], None}
<1>1. CASE Build(q) \/ BuildLocked(q) \/ Update(q) \/ AddPiece(q)
  BY <1>1, StartFacts DEF Build, BuildLocked, Update, AddPiece
<1>2. CASE RemovePiece(q)
  <2>1. ASSUME NEW man, Starts(q, TRUE, man, lock), Resolve(q, man)
        PROVE  resolved'[q] = None
    BY <2>1, StartFacts
  <2> QED
    BY <1>2, <2>1 DEF RemovePiece
<1>3. CASE Quit(q)
  BY <1>3 DEF Quit, Shape
<1>4. CASE RefuseCycle(q) \/ RefusePath(q) \/ RefuseRef(q) \/ CloneFails(q) \/ CheckoutFails(q)
             \/ Save(q) \/ Crash(q) \/ CrashSaving(q)
  BY <1>3, <1>4
  DEF RefuseCycle, RefusePath, RefuseRef, CloneFails, CheckoutFails, Save, Crash, CrashSaving
<1>5. CASE \/ Precise(q) \/ KilledWriting(q) \/ SkipResolved(q) \/ FromPath(q)
           \/ FromGit(q) \/ Cloned(q) \/ Checkout(q)
  BY <1>5 DEF Precise, KilledWriting, SkipResolved, FromPath, FromGit, Cloned, Checkout
<1> QED
  BY <1>1, <1>2, <1>4, <1>5 DEF Moves, Command, Step

LEMMA GradedReturn ==
  ASSUME Shape, NEW q \in Processes, Resolving(q), Return(q), Graded(resolved[q])
  PROVE  Graded(resolved'[q])
<1> DEFINE s == stack[q]
           n == Len(s)
<1>1. /\ pc[q] = "visit" /\ s[n].left = {}
      /\ s # <<>> /\ s \in Seq(Frames) /\ n \in Nat \ {0}
      /\ Calls(s, resolved[q], job[q].man, {})
  BY VisitFacts DEF Return
<1>2. CASE n = 1
  BY <1>2 DEF Return
<1>3. CASE n # 1
  <2>1. resolved'[q] = Put(resolved[q], s[n].piece, Found(s[n]))
    BY <1>1, <1>3, VisitFacts DEF Return, Shape, Found
  <2>2. n \in DOMAIN s /\ 1 \in DOMAIN s
    BY <1>1, FrontFacts
  <2>3. DOMAIN s[n].wants \subseteq DOMAIN resolved[q] /\ s[n].piece \notin DOMAIN resolved[q]
    BY <1>1, <2>2 DEF Calls
  <2>4. s[n].piece # 0
    BY <1>1, <1>3, <2>2 DEF Calls
  <2>5. s[n].piece \in Pieces
    <3>1. s[n] \in Frames
      BY <1>1, <2>2, ElementOfSeq
    <3> HIDE DEF s, n
    <3> QED
      BY <2>4, <3>1 DEF Frames
  <2>6. DOMAIN resolved[q] \subseteq Pieces
    BY ShapeFacts DEF IsResolved
  <2>7. Found(s[n]).deps = DOMAIN s[n].wants
    BY DEF Found
  <2> HIDE DEF s, n
  <2> QED
    BY <2>1, <2>3, <2>5, <2>6, <2>7, GradedPut
<1> QED
  BY <1>2, <1>3

AllGraded == \A q \in Processes : Graded(resolved[q])

LEMMA AllGradedStep == IInv /\ AllGraded /\ [Next]_vars => AllGraded'
<1> SUFFICES ASSUME IInv, AllGraded, [Next]_vars, NEW r \in Processes
             PROVE  Graded(resolved'[r])
  BY DEF AllGraded
<1>1. CASE Around \/ UNCHANGED vars
  <2>1. resolved' = resolved
    BY <1>1 DEF Around, Publish, Retag, CleanTarget, files, locals, vars
  <2> QED
    BY <2>1 DEF AllGraded
<1>2. ASSUME NEW q \in Processes, Moves(q) PROVE Graded(resolved'[r])
  <2>1. CASE r # q
    BY <1>2, <2>1, OthersKept DEF AllGraded, Kept, IInv
  <2>2. CASE r = q /\ Return(q)
    BY <2>2, GradedReturn DEF AllGraded, IInv
  <2>3. CASE r = q /\ ~Return(q)
    BY <1>2, <2>3, ResolvedStep, GradedNone DEF AllGraded, IInv
  <2> QED
    BY <2>1, <2>2, <2>3
<1> QED
  BY <1>1, <1>2 DEF Next, Moves, Around

\* What a process has resolved has no circles, in every reachable state.
THEOREM PackagesGraded == Spec => [](IInv /\ AllGraded)
<1>1. Init => AllGraded
  BY GradedNone DEF Init, AllGraded
<1> QED
  BY <1>1, InvInit, InvStep, AllGradedStep, PTL DEF Spec

\* Pieces are compiled leaves first: whatever order topo_visit meets them
\* in, all that a piece depends on comes before it (topological_sort).
THEOREM PackagesLeavesFirst == Spec => []LeavesFirst
<1>1. ASSUME IInv, AllGraded, NEW q \in Processes, pc[q] = "save"
      PROVE  LET order == Sorted(resolved[q])
             IN /\ Range(order) = DOMAIN resolved[q]
                /\ \A i \in DOMAIN order :
                     resolved[q][order[i]].deps \subseteq Range(SubSeq(order, 1, i - 1))
  <2>1. PICK rank : RankedBy(resolved[q], rank)
    BY <1>1 DEF AllGraded, Graded
  <2>2. DOMAIN resolved[q] \subseteq Pieces
    BY <1>1, ShapeFacts DEF IInv, IsResolved
  <2>3. \A p \in DOMAIN resolved[q] : rank[p] < MaxPiece
    <3>1. /\ Cardinality(DOMAIN resolved[q]) \in Nat /\ MaxPiece \in Nat
          /\ Cardinality(DOMAIN resolved[q]) <= MaxPiece
      BY <2>2, SomePieces, Bounds
    <3> QED
      BY <2>1, <3>1 DEF RankedBy
  <2>4. Ranked(resolved[q], rank)
    BY <2>1, <2>2, <2>3 DEF RankedBy, Ranked
  <2> QED
    BY <2>4, SortedLeaves DEF LeavesUpTo
<1>2. IInv /\ AllGraded => LeavesFirst
  BY <1>1 DEF LeavesFirst
<1> QED
  BY <1>2, PackagesGraded, PTL
=============================================================================
