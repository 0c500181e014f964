----------------------------- MODULE Packages -----------------------------
(***************************************************************************)
(* How ruxen decides which revision of which piece a build compiles: the   *)
(* commands that edit Ruxen.toml and Ruxen.lock (ruxen_cli/src/deps.rs),   *)
(* the resolution a build starts with (build.rs, resolve_deps.rs), the     *)
(* clones under target/deps that it leaves behind, and the lock file it    *)
(* writes (lock.rs).                                                       *)
(*                                                                         *)
(* Several ruxen processes may run in one project at a time; each may be   *)
(* killed between any two steps, in the middle of a git clone and in the   *)
(* middle of writing either file.  Meanwhile upstreams publish and move    *)
(* their tags, and target/ may be removed, which is also what a fresh      *)
(* checkout looks like.                                                    *)
(*                                                                         *)
(* What a command reads and rewrites without a call of git in between is   *)
(* one step: two commands that edit Ruxen.toml in the same instant are not *)
(* modelled.                                                               *)
(*                                                                         *)
(* External: git, by what resolve_git_dep asks of it.  A repository has    *)
(* one line of revisions 1, 2, ..., on which its default branch and any    *)
(* other end, and one tag; a clone holds the revisions of its day and the  *)
(* tag as it was then.  The sources that a piece names by a path are       *)
(* published with it: in revision r of the one lies revision r of the      *)
(* other.                                                                  *)
(***************************************************************************)
EXTENDS Naturals, FiniteSets, SequencesExt

CONSTANTS
  MaxPiece,     \* pieces are 1 .. MaxPiece, in the order of their names
  MaxRevision,  \* bound: revisions a piece is published in
  MaxCommands,  \* bound: commands started
  Processes,    \* the ruxen processes
  MaxTogether,  \* bound: of these, commands that may find others running
  Tagged,       \* bound: pieces whose tag upstream may move
  Specs,        \* what Ruxen.toml may say of a dependency on each piece
  Worlds        \* what the manifest of each revision of each piece may say

Pieces    == 1 .. MaxPiece
Revisions == 1 .. MaxRevision

NoRevision == 0                \* git rev-parse failed: an empty string
Local      == MaxRevision + 1  \* the sources of a path dependency
HeadRef    == 0                \* as a ref: nothing is said
Branch     == MaxRevision + 2  \* branch = ...
Tag        == MaxRevision + 3  \* tag = ...
Refs       == {HeadRef, Branch, Tag} \cup Revisions

\* { git = ... } with a rev, a tag, a branch or none of them, or
\* { path = ... }
Spec_     == [path: BOOLEAN, ref: Refs]
PathDep   == [path |-> TRUE, ref |-> HeadRef]
GitDep(r) == [path |-> FALSE, ref |-> r]

\* The [dependencies] of a Ruxen.toml, the project's or a piece's.
Manifest == UNION {[ps -> Spec_] : ps \in SUBSET Pieces}

ASSUME PackagesAssumption ==
  /\ {MaxPiece, MaxRevision, MaxCommands, MaxTogether} \subseteq Nat \ {0}
  /\ IsFiniteSet(Processes) /\ Processes # {}
  /\ Tagged \subseteq Pieces
  /\ Specs \in [Pieces -> SUBSET Spec_]
  /\ Worlds \subseteq [Pieces -> [Revisions -> Manifest]]

VARIABLES
  needs,     \* the manifest of each revision, which never changes
  tip,       \* the newest revision of each piece, upstream and on disk
  tag,       \* the revision that the tag of each piece names upstream
  manifest,  \* Ruxen.toml: spec by direct dependency
  lock,      \* Ruxen.lock: LockedPiece by name; no file is no pieces
  clones,    \* target/deps: clone by piece and ref
  spent,     \* commands started
  pc,        \* what each process is about to do
  job,       \* its command, and the manifest and lock it read
  stack,     \* the calls of resolve_dep it is in, the project first
  fetching,  \* the directory resolve_git_dep is busy with
  resolved   \* ResolvedDep by name

files   == <<manifest, lock, clones>>
locals  == <<pc, job, stack, fetching, resolved>>
world   == <<needs, tip, tag>>
vars    == <<world, files, spent, locals>>

None == <<>>  \* a map without entries

\* The map f with x set to v.
Put(f, x, v) == [y \in DOMAIN f \cup {x} |-> IF y = x THEN v ELSE f[y]]

-----------------------------------------------------------------------------
(* Clones and the lock file *)

\* A clone: the newest revision it knows, what its tag names, and the
\* revision checked out.  The directory of an interrupted one is there, with
\* nothing to check out.
MaybeRevision == {NoRevision} \cup Revisions
Clone   == [known: MaybeRevision, tag: MaybeRevision, at: MaybeRevision]
Partial == [known |-> NoRevision, tag |-> NoRevision, at |-> NoRevision]

LockedPiece == [rev: {Local} \cup MaybeRevision, deps: SUBSET Pieces]

\* is_path: on disk, or beside another piece in its clone.
IsPath(p, dir) == dir[2] = Local \/ dir[1] # p

\* get_git_head_rev, for p resolved from this directory.
RevisionAt(p, dir) == IF IsPath(p, dir) THEN Local
                      ELSE IF dir \in DOMAIN clones THEN clones[dir].at
                      ELSE NoRevision

\* build_lock_file
LockOf(res) ==
  [p \in DOMAIN res |-> [rev |-> RevisionAt(p, res[p].dir),
                        deps |-> res[p].deps]]

\* is_up_to_date compares names, and only direct dependencies.
IsUpToDate(lk, man) == DOMAIN lk = DOMAIN man

\* What topo_visit has visited, and the pieces it has pushed.
Sort == [seen: SUBSET Pieces, order: Seq(Pieces)]

\* Each of ps is visited, in the order of their names.
InOrder(visit, s, ps) ==
  MapThenFoldSet(LAMBDA p, t : visit[p][t], s, LAMBDA p : p,
                 LAMBDA left : Max(left), ps)

\* topo_visit: a piece comes after what it depends on.  The calls of it are
\* never nested deeper than there are pieces, as each pushes another one.
TopoVisit(res) ==
  LET visit[n \in 0 .. MaxPiece] ==
        [p \in Pieces |-> [s \in Sort |->
           LET below == InOrder(visit[n - 1], [s EXCEPT !.seen = @ \cup {p}],
                                res[p].deps)
           IN IF n = 0 \/ p \in s.seen \/ p \notin DOMAIN res THEN s
              ELSE [below EXCEPT !.order = Append(@, p)]]]
  IN visit[MaxPiece]

\* topological_sort
Sorted(res) ==
  InOrder(TopoVisit(res), [seen |-> {}, order |-> <<>>], DOMAIN res).order

\* What a killed fs::write of this lock may leave: the pieces written so far
\* (or, if the rest does not parse, no lock at all; the deps of the last one
\* may be missing too, but nothing that follows reads them).
CutLocks(lk) ==
  LET order == Sorted(lk)
  IN {[p \in DOMAIN lk \cap Range(SubSeq(order, 1, n)) |-> lk[p]] :
        n \in 0 .. Len(order)}

\* The same of this manifest, in the order of the names: the last entry may
\* have lost the ref that follows its git = ... (a file that does not parse
\* waits for its author).
CutAt(man, n, short) ==
  [p \in {r \in DOMAIN man : r <= n} |->
     IF p = n /\ short /\ ~man[p].path THEN GitDep(HeadRef) ELSE man[p]]
CutManifests(man) ==
  UNION {{CutAt(man, n, TRUE), CutAt(man, n, FALSE)} : n \in 0 .. MaxPiece}

-----------------------------------------------------------------------------
(* Commands *)

NoJob == [saves |-> FALSE, man |-> None, pins |-> None]
NoDir   == <<1, HeadRef>>  \* fetching nothing
Project == <<0, Local>>    \* the project itself, as a directory

Init ==
  /\ needs \in Worlds
  /\ tip = [p \in Pieces |-> 1] /\ tag = [p \in Pieces |-> 1]
  /\ manifest = None /\ lock = None /\ clones = None
  /\ spent = 0
  /\ pc = [q \in Processes |-> "idle"]
  /\ job = [q \in Processes |-> NoJob]
  /\ stack = [q \in Processes |-> <<>>]
  /\ fetching = [q \in Processes |-> NoDir]
  /\ resolved = [q \in Processes |-> None]

\* q may run another command.
MayStart(q) ==
  /\ pc[q] = "idle" /\ spent < MaxCommands
  /\ spent >= MaxTogether => \A r \in Processes : pc[r] = "idle"

\* q runs a command, which saves the lock or not, and finds this manifest
\* and this lock.
Starts(q, saves, man, lk) ==
  /\ spent' = spent + 1
  /\ job' = [job EXCEPT ![q] = [saves |-> saves, man |-> man, pins |-> lk]]

\* resolve_with_workspace, for the direct dependencies of man.
Resolve(q, man) ==
  /\ pc' = [pc EXCEPT ![q] = "visit"]
  /\ stack' = [stack EXCEPT ![q] =
                 <<[piece |-> 0, dir |-> Project, wants |-> man,
                    left |-> DOMAIN man]>>]
  /\ resolved' = [resolved EXCEPT ![q] = None]
  /\ UNCHANGED fetching

\* The process is over, well or not; what it knew is gone.
Quit(q) ==
  /\ pc' = [pc EXCEPT ![q] = "idle"]
  /\ job' = [job EXCEPT ![q] = NoJob]
  /\ stack' = [stack EXCEPT ![q] = <<>>]
  /\ fetching' = [fetching EXCEPT ![q] = NoDir]
  /\ resolved' = [resolved EXCEPT ![q] = None]

\* ruxen build and run save the lock, ruxen check and test do not.
Build(q) ==
  \E saves \in BOOLEAN :
    /\ manifest # None
    /\ Starts(q, saves, manifest, lock)
    /\ Resolve(q, manifest)
    /\ UNCHANGED <<world, files>>

\* ruxen build --locked: the same, unless the lock is not up to date.
BuildLocked(q) ==
  /\ manifest # None /\ IsUpToDate(lock, manifest)
  /\ Starts(q, TRUE, manifest, lock)
  /\ Resolve(q, manifest)
  /\ UNCHANGED <<world, files>>

\* ruxen update, with or without the name of a piece: from scratch.
Update(q) ==
  /\ manifest # None
  /\ Starts(q, TRUE, manifest, None)
  /\ Resolve(q, manifest)
  /\ UNCHANGED <<world, files>>

\* What ruxen add, remove and update --precise make of the files.
Added ==
  UNION {{Put(manifest, p, s) : s \in Specs[p]} : p \in Pieces \ DOMAIN manifest}
Removed ==
  {[r \in DOMAIN manifest \ {p} |-> manifest[r]] : p \in DOMAIN manifest}
Repinned ==
  {[lock EXCEPT ![p].rev = r] :
    p \in {p \in DOMAIN manifest \cap DOMAIN lock : lock[p].rev # Local},
    r \in Revisions}

\* ruxen add: the manifest is saved before anything is resolved.
AddPiece(q) ==
  \E man \in Added :
    /\ manifest' = man
    /\ Starts(q, TRUE, man, lock)
    /\ Resolve(q, man)
    /\ UNCHANGED <<world, lock, clones>>

\* ruxen remove: without dependencies there is no lock file either.
RemovePiece(q) ==
  \E man \in Removed :
    /\ manifest' = man
    /\ \/ /\ man = None
          /\ Starts(q, FALSE, None, None)
          /\ lock' = None
          /\ UNCHANGED <<pc, stack, fetching, resolved>>
       \/ /\ man # None
          /\ Starts(q, TRUE, man, lock)
          /\ Resolve(q, man)
          /\ UNCHANGED lock
    /\ UNCHANGED <<world, clones>>

\* ruxen update --precise p=r: only the source of p's entry is rewritten.
Precise(q) ==
  /\ Starts(q, FALSE, None, None)
  /\ lock' \in Repinned
  /\ UNCHANGED <<world, manifest, clones, pc, stack, fetching, resolved>>

\* One of them, killed while it writes its first file.
KilledWriting(q) ==
  /\ Starts(q, FALSE, None, None)
  /\ \/ \E man \in Added \cup Removed :
          manifest' \in CutManifests(man) /\ UNCHANGED lock
     \/ \E lk \in Repinned : lock' \in CutLocks(lk) /\ UNCHANGED manifest
  /\ UNCHANGED <<world, clones, pc, stack, fetching, resolved>>

-----------------------------------------------------------------------------
(* Resolution *)

Called(q) == Last(stack[q])

\* Mutant: only a piece that needs itself is noticed.
InFlightNow(q) == {Called(q).piece}

\* in_flight of resolve_dep.
InFlight(q) == {stack[q][i].piece : i \in DOMAIN stack[q]}

\* The spec under which the innermost call meets p: what the manifest that
\* it has read says.
SpecOf(q, p) == Called(q).wants[p]

\* Mutant: the lock is not asked.
UnlockedRef(q, p) == SpecOf(q, p).ref

\* resolve_git_dep asks the lock unless a rev or a tag is given, in the
\* project's manifest or in a piece's.
LockDecides(q, p) ==
  /\ SpecOf(q, p).ref \in {HeadRef, Branch}
  /\ p \in DOMAIN job[q].pins /\ job[q].pins[p].rev # Local

\* effective_ref
EffectiveRef(q, p) ==
  IF LockDecides(q, p) THEN job[q].pins[p].rev ELSE SpecOf(q, p).ref

\* validate_git_ref refuses what an empty rev= in the lock asks for.
EmptyRef(q, p) == LockDecides(q, p) /\ job[q].pins[p].rev = NoRevision

\* Mutant: the dependencies of p are named, not resolved.
EnterShallow(q, st, p, dir, man) ==
  stack' = [stack EXCEPT ![q] =
    Append(st, [piece |-> p, dir |-> dir, wants |-> man, left |-> {}])]

\* The call for p, found in dir with this manifest.
Enter(q, st, p, dir, man) ==
  stack' = [stack EXCEPT ![q] =
    Append(st, [piece |-> p, dir |-> dir, wants |-> man, left |-> DOMAIN man])]

\* The manifest of p at rev; an interrupted clone has none, and stands for
\* a piece without dependencies.
ManifestOf(p, rev) == IF rev = NoRevision THEN None ELSE needs[p][rev]

\* Mutant: a piece in flight counts as resolved.
CycleSkipped(q, p) == p \in DOMAIN resolved[q] \cup InFlight(q)

\* Resolved before, under whatever spec it was met first.
AlreadyResolved(q, p) == p \in DOMAIN resolved[q]

\* resolve_dep reaches p, its caller's next dependency.
NextDep(q)  == Min(Called(q).left)
Advanced(q) == [stack[q] EXCEPT ![Len(stack[q])].left = @ \ {NextDep(q)}]
Reaches(q, p) ==
  /\ pc[q] = "visit" /\ Called(q).left # {}
  /\ p = NextDep(q)
  /\ UNCHANGED <<world, manifest, lock, spent>>

ReachesNew(q, p) ==
  Reaches(q, p) /\ ~AlreadyResolved(q, p) /\ p \notin InFlight(q)

SkipResolved(q) ==
  \E p \in Pieces :
    /\ Reaches(q, p) /\ AlreadyResolved(q, p)
    /\ stack' = [stack EXCEPT ![q] = Advanced(q)]
    /\ UNCHANGED <<clones, pc, job, fetching, resolved>>

RefuseCycle(q) ==
  \E p \in Pieces :
    /\ Reaches(q, p) /\ ~AlreadyResolved(q, p) /\ p \in InFlight(q)
    /\ Quit(q)
    /\ UNCHANGED clones

\* Where a path leads: from the project and from pieces on disk to the
\* sources on disk, from a piece in a clone to another part of the clone.
PathDir(q, p) ==
  IF Called(q).dir[2] = Local THEN <<p, Local>> ELSE Called(q).dir

\* resolve_path_dep: the sources as they are now.
FromPath(q) ==
  \E p \in Pieces :
    LET dir == PathDir(q, p)
    IN /\ ReachesNew(q, p) /\ SpecOf(q, p).path
       /\ dir[2] # Local => dir \in DOMAIN clones
       /\ Enter(q, Advanced(q), p, dir,
                ManifestOf(p, IF dir[2] = Local THEN tip[p]
                              ELSE clones[dir].at))
       /\ UNCHANGED <<clones, pc, job, fetching, resolved>>

\* The path is absolute, or leads nowhere.
RefusePath(q) ==
  \E p \in Pieces :
    /\ ReachesNew(q, p) /\ SpecOf(q, p).path
    /\ Quit(q)
    /\ UNCHANGED clones

RefuseRef(q) ==
  \E p \in Pieces :
    /\ ReachesNew(q, p) /\ ~SpecOf(q, p).path /\ EmptyRef(q, p)
    /\ Quit(q)
    /\ UNCHANGED clones

\* resolve_git_dep: a directory that is there is taken as it is, whatever
\* state it is in; it is never fetched into again.
FromGit(q) ==
  \E p \in Pieces :
    LET dir == <<p, EffectiveRef(q, p)>>
    IN /\ ReachesNew(q, p) /\ ~SpecOf(q, p).path /\ ~EmptyRef(q, p)
       /\ stack' = [stack EXCEPT ![q] = Advanced(q)]
       /\ fetching' = [fetching EXCEPT ![q] = dir]
       /\ \/ /\ dir \in DOMAIN clones
             /\ pc' = [pc EXCEPT ![q] = "checkout"]
             /\ UNCHANGED clones
          \/ /\ dir \notin DOMAIN clones
             /\ pc' = [pc EXCEPT ![q] = "clone"]
             /\ clones' = Put(clones, dir, Partial)
       /\ UNCHANGED <<job, resolved>>

\* git clone ends: the default branch is checked out.
Cloned(q) ==
  /\ pc[q] = "clone"
  /\ LET dir == fetching[q]
     IN clones' = Put(clones, dir, [known |-> tip[dir[1]],
                                    tag |-> tag[dir[1]], at |-> tip[dir[1]]])
  /\ pc' = [pc EXCEPT ![q] = "checkout"]
  /\ UNCHANGED <<world, manifest, lock, spent, job, stack, fetching,
                 resolved>>

\* git clone fails, and takes its directory away.
CloneFails(q) ==
  /\ pc[q] = "clone"
  /\ clones' = [d \in DOMAIN clones \ {fetching[q]} |-> clones[d]]
  /\ Quit(q)
  /\ UNCHANGED <<world, manifest, lock, spent>>

\* The revision that the ref of dir names in the clone that is there.
Named(dir) ==
  CASE dir[2] = HeadRef -> clones[dir].at
    [] dir[2] = Branch  -> clones[dir].known
    [] dir[2] = Tag     -> clones[dir].tag
    [] OTHER            -> dir[2]

\* git checkout finds it; HEAD is not checked out, but left as it is.
HasRef(dir) == dir[2] = HeadRef \/ Named(dir) \in 1 .. clones[dir].known

\* Checkout, then the manifest of what was checked out.
Checkout(q) ==
  LET dir == fetching[q]
      rev == Named(dir)
  IN /\ pc[q] = "checkout" /\ dir \in DOMAIN clones /\ HasRef(dir)
     /\ clones' = [clones EXCEPT ![dir].at = rev]
     /\ Enter(q, stack[q], dir[1], dir, ManifestOf(dir[1], rev))
     /\ pc' = [pc EXCEPT ![q] = "visit"]
     /\ fetching' = [fetching EXCEPT ![q] = NoDir]
     /\ UNCHANGED <<world, manifest, lock, spent, job, resolved>>

CheckoutFails(q) ==
  /\ pc[q] = "checkout"
  /\ fetching[q] \in DOMAIN clones => ~HasRef(fetching[q])
  /\ Quit(q)
  /\ UNCHANGED <<world, files, spent>>

\* A call of resolve_dep returns, the last one to resolve_with_workspace.
Return(q) ==
  /\ pc[q] = "visit" /\ Called(q).left = {}
  /\ stack' = [stack EXCEPT ![q] = Front(@)]
  /\ IF Len(stack[q]) = 1
     THEN pc' = [pc EXCEPT ![q] = "save"] /\ UNCHANGED resolved
     ELSE /\ resolved' = [resolved EXCEPT ![q] =
               Put(@, Called(q).piece, [dir |-> Called(q).dir,
                                        deps |-> DOMAIN Called(q).wants])]
          /\ UNCHANGED pc
  /\ UNCHANGED <<world, files, spent, job, fetching>>

\* Resolution is done: the lock is written, but not by check and test.
Save(q) ==
  /\ pc[q] = "save"
  /\ lock' = IF job[q].saves THEN LockOf(resolved[q]) ELSE lock
  /\ Quit(q)
  /\ UNCHANGED <<world, manifest, clones, spent>>

-----------------------------------------------------------------------------
(* What happens around it *)

\* The process is killed.
Crash(q) ==
  /\ pc[q] # "idle"
  /\ Quit(q)
  /\ UNCHANGED <<world, files, spent>>

\* Killed in fs::write of the lock.
CrashSaving(q) ==
  /\ pc[q] = "save" /\ job[q].saves
  /\ lock' \in CutLocks(LockOf(resolved[q]))
  /\ Quit(q)
  /\ UNCHANGED <<world, manifest, clones, spent>>

Publish(p) ==
  /\ tip[p] < MaxRevision
  /\ tip' = [tip EXCEPT ![p] = @ + 1]
  /\ UNCHANGED <<needs, tag, files, spent, locals>>

\* Upstream moves its tag.
Retag(p) ==
  \E r \in 1 .. tip[p] \ {tag[p]} :
    /\ tag' = [tag EXCEPT ![p] = r]
    /\ UNCHANGED <<needs, tip, files, spent, locals>>

\* target/ is removed, or the project is checked out somewhere else.
CleanTarget ==
  /\ \A q \in Processes : pc[q] = "idle"
  /\ clones' = None
  /\ UNCHANGED <<world, manifest, lock, spent, locals>>

Command(q) ==
  /\ MayStart(q)
  /\ \/ Build(q) \/ BuildLocked(q) \/ Update(q)
     \/ AddPiece(q) \/ RemovePiece(q) \/ Precise(q) \/ KilledWriting(q)

Step(q) ==
  \/ SkipResolved(q) \/ RefuseCycle(q) \/ FromPath(q) \/ RefusePath(q)
  \/ RefuseRef(q) \/ FromGit(q) \/ Cloned(q) \/ CloneFails(q) \/ Checkout(q)
  \/ CheckoutFails(q) \/ Return(q) \/ Save(q)

Next ==
  \/ \E q \in Processes :
       Command(q) \/ Step(q) \/ Crash(q) \/ CrashSaving(q)
  \/ \E p \in Pieces : Publish(p)
  \/ \E p \in Tagged : Retag(p)
  \/ CleanTarget

Spec == Init /\ [][Next]_vars

-----------------------------------------------------------------------------
TypeOK ==
  /\ needs \in Worlds /\ {tip, tag} \subseteq [Pieces -> Revisions]
  /\ DOMAIN manifest \cup DOMAIN lock \subseteq Pieces
  /\ \A p \in DOMAIN manifest : manifest[p] \in Spec_
  /\ \A p \in DOMAIN lock : lock[p] \in LockedPiece
  /\ \A d \in DOMAIN clones : d \in Pieces \X Refs /\ clones[d] \in Clone
  /\ spent \in 0 .. MaxCommands
  /\ \A q \in Processes :
       /\ pc[q] \in {"idle", "visit", "clone", "checkout", "save"}
       /\ job[q].saves \in BOOLEAN
       /\ Len(stack[q]) <= MaxPiece + 1
       /\ pc[q] \in {"visit", "clone", "checkout"} <=> stack[q] # <<>>
       /\ DOMAIN resolved[q] \subseteq Pieces

\* The pieces a manifest leads to, if p depends on deps[p].
Reached(man, deps) ==
  {p \in Pieces : \A S \in SUBSET Pieces :
     DOMAIN man \subseteq S /\ (\A r \in S : deps[r] \subseteq S) => p \in S}

\* What this manifest says of its dependencies leaves the choice to the
\* lock, or is what the lock says.  A tag never is: it is followed to
\* wherever it has moved.
Agrees(man, pins) ==
  \A p \in DOMAIN man :
    ~man[p].path /\ man[p].ref \in {HeadRef, Branch, pins[p].rev}

\* The lock q read answers for every piece its manifest leads to, and
\* neither the manifest nor that of a locked piece contradicts it.
Pinned(q) ==
  LET pins == job[q].pins
      man  == job[q].man
  IN /\ \A p \in DOMAIN pins : pins[p].rev \in Revisions
     /\ DOMAIN pins =
          Reached(man, [p \in Pieces |-> IF p \in DOMAIN pins
                                        THEN DOMAIN needs[p][pins[p].rev]
                                        ELSE {}])
     /\ Agrees(man, pins)
     /\ \A p \in DOMAIN pins : Agrees(needs[p][pins[p].rev], pins)

\* "Every machine builds with the exact same dependency set": whatever was
\* published since, whatever target/ holds from other commands, crashed
\* clones included, and whoever else runs, a command that finds a lock for
\* all of its pieces, which no manifest contradicts, builds those revisions
\* and no others.
LockReproduces ==
  [][\A q \in Processes : Save(q) /\ Pinned(q) =>
       /\ DOMAIN resolved[q] = DOMAIN job[q].pins
       /\ \A p \in DOMAIN resolved[q] :
            RevisionAt(p, resolved[q][p].dir) = job[q].pins[p].rev]_vars

\* A resolution never goes in circles, whatever upstreams come to need: the
\* pieces in flight are different ones, and none of them is resolved yet.
NoCircle ==
  \A q \in Processes : \A i, j \in DOMAIN stack[q] :
    /\ stack[q][i].piece \notin DOMAIN resolved[q]
    /\ stack[q][i].piece = stack[q][j].piece => i = j

\* Pieces are compiled leaves first: a piece that is compiled, or merged
\* into another, finds all its dependencies compiled.
LeavesFirst ==
  \A q \in Processes : pc[q] = "save" =>
    LET order == Sorted(resolved[q])
    IN /\ Range(order) = DOMAIN resolved[q]
       /\ \A i \in DOMAIN order :
            resolved[q][order[i]].deps \subseteq Range(SubSeq(order, 1, i - 1))

\* A command that succeeds leaves a lock for what it built: the pieces that
\* the manifest it read leads to, no fewer and no more, even if an earlier
\* one was killed between the manifest and the lock.
LockIsClosed ==
  [][\A q \in Processes : Save(q) /\ job[q].saves =>
       DOMAIN lock' =
         Reached(job[q].man, [p \in Pieces |-> IF p \in DOMAIN lock'
                                              THEN lock'[p].deps ELSE {}])]_vars
=============================================================================
