----------------------------- MODULE BuildCache -----------------------------
(***************************************************************************)
(* The incremental build cache of ruxenc (src/ruxenc/src/cache) and the    *)
(* part of ruxenc/src/compile.rs that links what a build returns.          *)
(*                                                                         *)
(* A build is a sequence of steps on the disk: a crash, or a file that     *)
(* does not compile, ends it between any two of them.  One process builds  *)
(* at a time and a source is edited only between builds: the code reads    *)
(* every source once, before it opens the cache.                           *)
(*                                                                         *)
(* The compiler is the CompileFn the driver is given: an arbitrary         *)
(* function of a file and of the sources it can see.  A source stands for  *)
(* its SHA-256, so different sources have different keys.                  *)
(***************************************************************************)
EXTENDS Integers, Sequences, FiniteSets, SequencesExt

CONSTANTS
  Files,             \* FileIds: positions in the order of the paths
  SourcesOf,         \* the sources a file may have
  Invocations,       \* the sets of files one build() is given
  Flags,             \* build flags: opt level, backend, toolchain, ...
  Outputs,           \* paths given to -o
  NoOutput,
  Imports(_),        \* the files a source imports
  Compiles(_, _),    \* does a file compile, given everybody's source?
  ObjectOf(_, _),    \* its object code
  SignatureOf(_, _), \* its public signature
  MaxBuilds,         \* bound: builds started
  MaxMishaps         \* bound: crashes, files lost, cleans

ASSUME BuildCacheAssumption ==
  /\ Files \subseteq Nat
  /\ IsFiniteSet(Files)
  /\ Invocations \subseteq (SUBSET Files) \ {{}}
  /\ NoOutput \notin Outputs
  /\ MaxBuilds \in Nat /\ MaxMishaps \in Nat

\* A source stands for its hash: different files have different ones.  A
\* build is given what its files import.
ASSUME SourcesAssumption ==
  /\ \A f, g \in Files : f # g => SourcesOf[f] \intersect SourcesOf[g] = {}
  /\ \A f \in Files : \A s \in SourcesOf[f] :
       /\ Imports(s) \subseteq Files
       /\ \A files \in Invocations : f \in files => Imports(s) \subseteq files

\* The sources of some files, with those of all they import.
Snapshots ==
  {src \in UNION {[some -> UNION {SourcesOf[f] : f \in Files}] : some \in SUBSET Files} :
     \A f \in DOMAIN src : src[f] \in SourcesOf[f] /\ Imports(src[f]) \subseteq DOMAIN src}

\* What the driver relies on (driver.rs:137-139): a compiler sees of an import
\* its signature only, and a signature changes only if the object does.
ASSUME CompilerAssumption ==
  \A a, b \in Snapshots : \A f \in DOMAIN a \intersect DOMAIN b :
    /\ /\ a[f] = b[f]
       /\ \A d \in Imports(a[f]) : SignatureOf(d, a) = SignatureOf(d, b)
       => ObjectOf(f, a) = ObjectOf(f, b) /\ SignatureOf(f, a) = SignatureOf(f, b)
    /\ ObjectOf(f, a) = ObjectOf(f, b) => SignatureOf(f, a) = SignatureOf(f, b)

VARIABLES
  source,      \* what each file holds
  manifest,    \* manifest.bin
  objects,     \* objects/<key>.o
  signatures,  \* signatures/<source hash>.sig
  executables, \* the linked programs
  job,         \* the build that runs, in the memory of its process
  lost,        \* history: what builds since the last clean have lost
  warm,        \* history: the files a build since the last clean has saved
  builds,      \* bounded: builds started
  mishaps      \* bounded: crashes and other mishaps

disk == <<manifest, objects, signatures>>
bounds == <<builds, mishaps>>
vars == <<source, manifest, objects, signatures, executables, job, lost, warm, builds, mishaps>>

-----------------------------------------------------------------------------
\* Maps are functions with a finite domain.
EmptyMap == << >>
Put(map, key, value) ==
  [k \in DOMAIN map \union {key} |-> IF k = key THEN value ELSE map[k]]
Only(map, keys) == [k \in DOMAIN map \intersect keys |-> map[k]]

\* CacheKey: what one file is compiled from.  What it imports is not in it.
CacheKey(s, flags) == <<s, flags>>
Key(f) == CacheKey(source[f], job.flags)

\* What the compiler makes of file f now.
Bytes(f) == <<ObjectOf(f, source), job.flags>>
NewSignature(f) == SignatureOf(f, source)

Missing == [state |-> "missing"]
Corrupt == [state |-> "corrupt"]
Saved(flags, entries, deps) ==
  [state |-> "saved", flags |-> flags, entries |-> entries, deps |-> deps]
Compatible(flags) == manifest.state = "saved" /\ manifest.flags = flags

NoJob == [pc |-> "none"]
NoFile == -1
Running == job # NoJob

Init ==
  /\ source \in {s \in [Files -> UNION {SourcesOf[f] : f \in Files}] :
                   \A f \in Files : s[f] \in SourcesOf[f]}
  /\ manifest = Missing
  /\ objects = EmptyMap
  /\ signatures = EmptyMap
  /\ executables = EmptyMap
  /\ job = NoJob
  /\ lost = {}
  /\ warm = EmptyMap
  /\ builds = 0 /\ mishaps = 0

-----------------------------------------------------------------------------
\* build(): load the manifest, or discard it and clear the cache; tell hits
\* from misses.  A forced build looks at neither.
StartBuild(files, flags, force, output) ==
  /\ ~Running
  /\ builds < MaxBuilds /\ builds' = builds + 1
  /\ output = NoOutput <=> Cardinality(files) # 1
  /\ LET discard == ~force /\ ~Compatible(flags) /\ manifest # Missing
         known == ~force /\ Compatible(flags)
         prior == IF known THEN manifest.entries ELSE EmptyMap
         hits == {f \in files \intersect DOMAIN prior :
                    /\ prior[f] = source[f]
                    /\ CacheKey(source[f], flags) \in DOMAIN objects}
         signed == {f \in files \intersect DOMAIN prior : prior[f] \in DOMAIN signatures}
         priorSig == [f \in signed |-> signatures[prior[f]]]
     IN
     /\ manifest' = IF discard THEN Missing ELSE manifest
     /\ objects' = IF discard THEN EmptyMap ELSE objects
     /\ signatures' = IF discard THEN EmptyMap ELSE signatures
     /\ lost' = IF discard THEN {} ELSE lost
     /\ warm' = IF discard THEN EmptyMap ELSE warm
     /\ job' = [pc |-> "dirty", files |-> files, flags |-> flags, force |-> force,
                output |-> output,
                dirty |-> files \ hits,       \* needs_compile
                todo |-> files \ hits,
                writing |-> NoFile,
                prior |-> prior,
                priorSig |-> priorSig,
                inUse |-> [f \in hits |-> objects[CacheKey(source[f], flags)]],
                newSig |-> Only(priorSig, hits),
                deps |-> [f \in files |->
                            IF f \in hits /\ f \in DOMAIN manifest.deps
                            THEN manifest.deps[f] ELSE {}],
                graph |-> EmptyMap,
                changed |-> {},               \* output_changed
                invalidated |-> {},
                queue |-> << >>,
                dependents |-> {},
                replaced |-> FALSE]
  /\ UNCHANGED <<source, executables, mishaps>>

Mishap == mishaps < MaxMishaps /\ mishaps' = mishaps + 1

\* A build that ends before its work is saved, or before it is linked.
LeftBehind ==
  (IF job.replaced THEN {"replaced"} ELSE {})
  \union (IF job.pc = "link" /\ job.changed # {} THEN {"unlinked"} ELSE {})

EndEarly ==
  /\ job' = NoJob
  /\ lost' = lost \union LeftBehind
  /\ UNCHANGED <<source, manifest, objects, signatures, warm, builds>>

-----------------------------------------------------------------------------
\* The files that must be compiled now: the next dirty one in the order of
\* their ids, or a dependent of the origin the cascade is at.
Turn(f) ==
  /\ Running
  /\ \/ /\ job.pc = "dirty"
        /\ f \in job.todo
        /\ \A g \in job.todo : f <= g
     \/ /\ job.pc = "cascade"
        /\ f \in job.dependents
  /\ job.writing = NoFile

CompileFails(f) ==
  /\ Turn(f)
  /\ ~Compiles(f, source)
  /\ EndEarly
  /\ UNCHANGED <<executables, mishaps>>

\* Mutant: compare with what is already stored under the new key.
OutputChangedByKey(f) == Key(f) \notin DOMAIN objects \/ objects[Key(f)] # Bytes(f)

\* Did this compile change the output?  A dirty file is compared with the
\* object its prior entry names, a dependent with the one the build holds.
OutputChanged(f) ==
  IF job.pc = "cascade" THEN job.inUse[f] # Bytes(f)
  ELSE \/ f \notin DOMAIN job.prior
       \/ CacheKey(job.prior[f], job.flags) \notin DOMAIN objects
       \/ objects[CacheKey(job.prior[f], job.flags)] # Bytes(f)

\* Does the saved manifest stand for something else under this file's keys?
\* The key of a signature has no flags in it.
Replaces(f) ==
  /\ manifest.state = "saved"
  /\ f \in DOMAIN manifest.entries
  /\ manifest.entries[f] = source[f]
  /\ \/ /\ manifest.flags = job.flags
        /\ ObjectOf(f, manifest.entries) # ObjectOf(f, source)
     \/ SignatureOf(f, manifest.entries) # SignatureOf(f, source)

\* store_object: atomic_write leaves the old file or the new one.
StoreObject(f) ==
  /\ Turn(f)
  /\ Compiles(f, source)
  /\ objects' = Put(objects, Key(f), Bytes(f))
  /\ job' = [job EXCEPT !.writing = f,
                        !.changed = IF OutputChanged(f) THEN @ \union {f} ELSE @,
                        !.replaced = @ \/ Replaces(f)]
  /\ UNCHANGED <<source, manifest, signatures, executables, lost, warm, bounds>>

\* Mutant: every new signature counts as changed.
SignatureAlwaysChanged(f, new) == TRUE

\* interface_changed, or nothing to compare with.
SignatureChanged(f, new) == f \notin DOMAIN job.priorSig \/ job.priorSig[f] # new

\* Mutant: a dependent's new signature is not stored.
SignaturesOfDirty(f) ==
  IF job.pc = "dirty" THEN Put(signatures, source[f], NewSignature(f)) ELSE signatures

\* store_signature: the key of a signature is the hash of its source.
SignaturesWith(f) == Put(signatures, source[f], NewSignature(f))

\* The entry of a compiled file, for its dependents and for the manifest.
EntriesWith(f) == Put(job.prior, f, source[f])

\* Store the signature, and what the build remembers of a compiled file.  A
\* dependent is queued if both its signature and its output changed.
StoreSignature(f) ==
  /\ Running
  /\ job.writing = f
  /\ signatures' = SignaturesWith(f)
  /\ job' = [job EXCEPT
       !.writing = NoFile,
       !.prior = EntriesWith(f),
       !.inUse = Put(@, f, Bytes(f)),
       !.newSig = Put(@, f, NewSignature(f)),
       !.deps[f] = Imports(source[f]),
       !.todo = @ \ {f},
       !.dependents = @ \ {f},
       !.invalidated = IF job.pc = "cascade" THEN @ \union {f} ELSE @,
       !.queue = IF /\ job.pc = "cascade"
                    /\ SignatureChanged(f, NewSignature(f))
                    /\ f \in job.changed
                 THEN Append(@, f) ELSE @]
  /\ UNCHANGED <<source, manifest, objects, executables, lost, warm, bounds>>

-----------------------------------------------------------------------------
\* check_acyclic: a set of files in which each imports another of the set.
Cyclic(graph) ==
  \E loop \in SUBSET DOMAIN graph :
    loop # {} /\ \A f \in loop : graph[f] \intersect loop # {}

\* A set of files in the order of their ids.
InOrder(some) ==
  {queue \in [1..Cardinality(some) -> some] :
     /\ Range(queue) = some
     /\ \A i, j \in DOMAIN queue : i < j => queue[i] < queue[j]}

\* The dependency graph of what is known now, and the seeds of the cascade.
\* Paths that are not part of this build are ignored.
SeedCascade ==
  /\ Running
  /\ job.pc = "dirty" /\ job.todo = {} /\ job.writing = NoFile
  /\ LET graph == [f \in job.files |-> job.deps[f] \intersect job.files]
         seeds == {f \in job.dirty \intersect job.changed :
                     SignatureChanged(f, job.newSig[f])}
     IN \/ /\ Cyclic(graph)
           /\ EndEarly
           /\ UNCHANGED mishaps
        \/ /\ ~Cyclic(graph)
           /\ \E queue \in InOrder(seeds) :
                job' = [job EXCEPT !.pc = "cascade", !.graph = graph, !.queue = queue]
           /\ UNCHANGED <<source, disk, lost, warm, bounds>>
  /\ UNCHANGED executables

\* The files that import the origin, but for those already compiled.
PopOrigin ==
  /\ Running
  /\ job.pc = "cascade" /\ job.dependents = {} /\ job.writing = NoFile
  /\ job.queue # << >>
  /\ job' = [job EXCEPT
       !.queue = Front(@),
       !.dependents = {f \in job.files : Last(job.queue) \in job.graph[f]}
                        \ (job.invalidated \union job.dirty)]
  /\ UNCHANGED <<source, manifest, objects, signatures, executables, lost, warm, bounds>>

\* Mutant: only the entries of this build.
SavedByJobAlone ==
  Saved(job.flags, Only(job.prior, job.files),
        [f \in job.files |-> job.deps[f] \intersect job.files])

\* The entries of files that were not part of this build are kept, but not
\* what they import; after a forced build there are none to keep.
SavedByJob ==
  Saved(job.flags, job.prior,
        [f \in job.files |-> job.deps[f] \intersect DOMAIN job.prior])

\* What an entry that is kept imports is no longer known.
Forgets ==
  /\ ~job.force
  /\ Compatible(job.flags)
  /\ \E f \in DOMAIN manifest.deps \ job.files : manifest.deps[f] # {}

\* The files a build has saved since the last clean, with their sources.
WarmWithJob ==
  LET kept == IF job.force THEN EmptyMap ELSE warm
  IN  [f \in job.files \union DOMAIN kept |->
         IF f \in job.files THEN source[f] ELSE kept[f]]

SaveManifest ==
  /\ Running
  /\ job.pc = "cascade" /\ job.dependents = {} /\ job.writing = NoFile
  /\ job.queue = << >>
  /\ manifest' = SavedByJob
  /\ job' = [job EXCEPT !.pc = "link", !.replaced = FALSE]
  /\ lost' = lost \union (IF Forgets THEN {"imports"} ELSE {})
  /\ warm' = WarmWithJob
  /\ UNCHANGED <<source, objects, signatures, executables, bounds>>

-----------------------------------------------------------------------------
\* Mutant: the program is there.
UpToDateIfThere == job.output \in DOMAIN executables

\* compile.rs: if nothing changed and the program is there, do not link.
UpToDate == job.changed = {} /\ job.output \in DOMAIN executables

AtLink == Running /\ job.pc = "link" /\ job.output # NoOutput
Report == job' = [job EXCEPT !.pc = "reported"]

SkipLink ==
  /\ AtLink /\ UpToDate
  /\ Report
  /\ UNCHANGED <<source, disk, executables, lost, warm, bounds>>

Link ==
  /\ AtLink /\ ~UpToDate
  /\ executables' = Put(executables, job.output,
                        objects[Key(CHOOSE f \in job.files : TRUE)])
  /\ Report
  /\ UNCHANGED <<source, disk, lost, warm, bounds>>

\* The linker fails: the old program may be gone.
LinkFails ==
  /\ AtLink /\ ~UpToDate
  /\ EndEarly
  /\ Mishap
  /\ executables' \in {executables, Only(executables, Outputs \ {job.output})}

\* A caller of build() that takes the objects, and the end of ruxenc.
Return ==
  /\ Running
  /\ \/ job.pc = "reported"
     \/ job.pc = "link" /\ job.output = NoOutput
  /\ job' = NoJob
  /\ UNCHANGED <<source, disk, executables, lost, warm, bounds>>

-----------------------------------------------------------------------------
\* The process dies.
Crash ==
  /\ Running /\ job.pc # "reported"
  /\ EndEarly
  /\ Mishap
  /\ UNCHANGED executables

Edit(f, s) ==
  /\ ~Running
  /\ s # source[f]
  /\ source' = [source EXCEPT ![f] = s]
  /\ UNCHANGED <<disk, executables, job, lost, warm, bounds>>

\* ruxen clean.
Clean ==
  /\ ~Running /\ Mishap
  /\ manifest' = Missing /\ objects' = EmptyMap /\ signatures' = EmptyMap
  /\ lost' = {} /\ warm' = EmptyMap
  /\ UNCHANGED <<source, executables, job, builds>>

\* An object file is deleted or emptied, the manifest is damaged, a program
\* is deleted.
LoseObject(k) ==
  /\ ~Running /\ Mishap
  /\ objects' = Only(objects, DOMAIN objects \ {k})
  /\ warm' = Only(warm, {f \in DOMAIN warm : warm[f] # k[1]})
  /\ UNCHANGED <<source, manifest, signatures, executables, job, lost, builds>>

CorruptManifest ==
  /\ ~Running /\ Mishap
  /\ manifest # Missing
  /\ manifest' = Corrupt
  /\ warm' = EmptyMap
  /\ UNCHANGED <<source, objects, signatures, executables, job, lost, builds>>

LoseProgram(o) ==
  /\ ~Running /\ Mishap
  /\ executables' = Only(executables, Outputs \ {o})
  /\ UNCHANGED <<source, disk, job, lost, warm, builds>>

Next ==
  \/ \E files \in Invocations, flags \in Flags, force \in BOOLEAN,
        output \in Outputs \union {NoOutput} :
       StartBuild(files, flags, force, output)
  \/ \E f \in Files : CompileFails(f) \/ StoreObject(f) \/ StoreSignature(f)
  \/ SeedCascade \/ PopOrigin \/ SaveManifest
  \/ SkipLink \/ Link \/ LinkFails \/ Return
  \/ Crash
  \/ \E f \in Files : \E s \in SourcesOf[f] : Edit(f, s)
  \/ Clean \/ CorruptManifest
  \/ \E k \in DOMAIN objects : LoseObject(k)
  \/ \E o \in DOMAIN executables : LoseProgram(o)

Spec == Init /\ [][Next]_vars

-----------------------------------------------------------------------------
\* Every part of the state is well formed; what the maps of a build hold is
\* covered by the properties below.
TypeOK ==
  /\ \A f \in Files : source[f] \in SourcesOf[f]
  /\ manifest.state \in {"missing", "corrupt", "saved"}
  /\ manifest.state = "saved" =>
       /\ manifest.flags \in Flags
       /\ DOMAIN manifest.entries \subseteq Files
       /\ DOMAIN manifest.deps \subseteq DOMAIN manifest.entries
       /\ \A f \in DOMAIN manifest.deps : manifest.deps[f] \subseteq DOMAIN manifest.entries
  /\ DOMAIN executables \subseteq Outputs
  /\ lost \subseteq {"replaced", "imports", "unlinked"}
  /\ Running =>
       /\ job.pc \in {"dirty", "cascade", "link", "reported"}
       /\ job.files \in Invocations
       /\ job.todo \subseteq job.dirty /\ job.dirty \subseteq job.files
       /\ job.dependents \union job.invalidated \subseteq job.files \ job.dirty
       /\ job.changed \subseteq job.dirty \union job.invalidated \union {job.writing}
       /\ job.pc # "dirty" => job.files \subseteq DOMAIN job.prior

\* No build has replaced an object the manifest names and ended before it
\* saved its own, and none has dropped what the entries it kept import.
Intact == lost \intersect {"replaced", "imports"} = {}

\* A build that succeeds returns, for every file it was given, the object
\* the compiler makes of the sources as they are: cached objects are used
\* only where compiling would give the same (driver.rs:129-140), as long as
\* no earlier build has broken the cache in one of those two ways.
FreshObjects ==
  Running /\ job.pc \in {"link", "reported"} /\ Intact =>
    \A f \in job.files : Key(f) \in DOMAIN objects /\ objects[Key(f)] = Bytes(f)

\* Between builds the manifest is a snapshot of one project: each object
\* and each signature it names, if it is there, is the one the sources of
\* the snapshot give, so a later build may mix them.
ManifestIsSnapshot ==
  ~Running /\ manifest.state = "saved" /\ Intact =>
    \A f \in DOMAIN manifest.entries :
      LET s == manifest.entries[f]
          k == CacheKey(s, manifest.flags)
      IN /\ k \in DOMAIN objects =>
              objects[k] = <<ObjectOf(f, manifest.entries), manifest.flags>>
         /\ s \in DOMAIN signatures =>
              signatures[s] = SignatureOf(f, manifest.entries)

\* A file that was built since the cache was last cleared, and has neither
\* changed nor lost its object, is not compiled again because its source
\* was looked at: not even after builds of other files only, or after
\* builds that failed (driver.rs:519-528).
WarmFilesHit ==
  Running /\ ~job.force =>
    \A f \in job.dirty \intersect DOMAIN warm :
      job.pc = "dirty" => warm[f] # source[f]

\* A file is compiled again because of another one only if it imports a
\* file whose public signature is not what it was (driver.rs:137-138).
OnlyInterfacesInvalidate ==
  Running /\ job.pc = "cascade" /\ Intact =>
    \A f \in job.invalidated :
      \E d \in Imports(source[f]) \intersect job.files :
        \/ d \notin DOMAIN manifest.entries
        \/ SignatureOf(d, manifest.entries) # NewSignature(d)

\* The program ruxenc has just reported, linked or "Up to date", is the one
\* its source gives, unless a build was cut off between saving its manifest
\* and linking (compile.rs:221-232).
ReportedIsCurrent ==
  Running /\ job.pc = "reported" /\ lost = {} =>
    \A f \in job.files : executables[job.output] = Bytes(f)

=============================================================================
