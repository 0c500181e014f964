-------------------------- MODULE BuildCacheProofs --------------------------
(***************************************************************************)
(* Theorems about BuildCache, for any project, any compiler, any number of *)
(* builds and any mishaps: what a build returns is what compiling all of   *)
(* its files would give.                                                   *)
(***************************************************************************)
EXTENDS BuildCache, FiniteSetTheorems, TLAPS

(* The parts of the invariant.                                             *)

M == manifest.entries
IsSaved == manifest.state = "saved"

\* Until it has saved its manifest the build works on what it has loaded.
Working == Running /\ job.pc \in {"dirty", "cascade"}
Known == ~job.force /\ Compatible(job.flags)

\* The files whose object, and whose signature too, this build has stored.
Done == (job.dirty \ job.todo) \union job.invalidated
Stored == Done \union ({job.writing} \ {NoFile})

SignatureMoved(f) == SignatureChanged(f, NewSignature(f))

Shape ==
  /\ source \in Snapshots /\ DOMAIN source = Files
  /\ \/ manifest \in {Missing, Corrupt}
     \/ /\ manifest = Saved(manifest.flags, M, manifest.deps)
        /\ manifest.flags \in Flags
        /\ M \in Snapshots
        /\ DOMAIN manifest.deps \subseteq DOMAIN M
        /\ \A f \in DOMAIN manifest.deps : manifest.deps[f] \subseteq DOMAIN M
  /\ DOMAIN executables \subseteq Outputs
  /\ lost \subseteq {"replaced", "imports", "unlinked"}

JobFields ==
  {"pc", "files", "flags", "force", "output", "dirty", "todo", "writing", "prior",
   "priorSig", "inUse", "newSig", "deps", "graph", "changed", "invalidated", "queue",
   "dependents", "replaced"}

\* What the fields of a build in progress are.
JobShape ==
  \/ job = NoJob
  \/ /\ DOMAIN job = JobFields /\ job = [x \in JobFields |-> job[x]]
     /\ job.pc \in {"dirty", "cascade", "link", "reported"}
     /\ job.files \in Invocations
     /\ job.flags \in Flags
     /\ job.force \in BOOLEAN /\ job.replaced \in BOOLEAN
     /\ job.output = NoOutput <=> Cardinality(job.files) # 1
     /\ job.output \in Outputs \union {NoOutput}
     /\ job.todo \subseteq job.dirty /\ job.dirty \subseteq job.files
     /\ job.dependents \union job.invalidated \subseteq job.files \ job.dirty
     /\ job.dependents \intersect job.invalidated = {}
     /\ job.writing \in job.todo \union job.dependents \union {NoFile}
     /\ job.changed \subseteq Stored
     /\ job.queue \in Seq(Done)
     /\ job.pc = "dirty" => job.dependents = {} /\ job.invalidated = {}
     /\ job.pc # "dirty" => job.todo = {}
     /\ job.pc \in {"link", "reported"} => ~job.replaced /\ job.writing = NoFile
     /\ job.pc = "reported" => job.output # NoOutput

\* Every file the manifest names has its signature on disk.
Signed == IsSaved => \A f \in DOMAIN M : M[f] \in DOMAIN signatures

\* The manifest knows what each file it names imports.
ImportsKnown ==
  IsSaved /\ "imports" \notin lost =>
    \A f \in DOMAIN M :
      Imports(M[f]) = IF f \in DOMAIN manifest.deps THEN manifest.deps[f] ELSE {}

\* What the manifest stands for, file by file.
ObjectStands(f) ==
  CacheKey(M[f], manifest.flags) \in DOMAIN objects =>
    objects[CacheKey(M[f], manifest.flags)] = <<ObjectOf(f, M), manifest.flags>>
SignatureStands(f) ==
  M[f] \in DOMAIN signatures => signatures[M[f]] = SignatureOf(f, M)

\* It is a snapshot but for what the build in progress has replaced.
SnapshotStands ==
  IsSaved /\ Intact =>
    \A f \in DOMAIN M :
      /\ ObjectStands(f) \/ (Running /\ job.replaced /\ f \in Stored)
      /\ SignatureStands(f) \/ (Running /\ job.replaced /\ f \in Done)

\* What the build has in memory agrees with the disk: files it did not have
\* to compile are as the manifest has them,
Hits ==
  Working =>
    /\ ~job.force /\ ~Compatible(job.flags) => manifest = Missing
    /\ job.files \ job.dirty # {} => Known
    /\ \A f \in job.files \ job.dirty :
         /\ f \in DOMAIN M /\ M[f] = source[f]
         /\ Key(f) \in DOMAIN objects /\ f \in DOMAIN job.inUse
         /\ Intact /\ f \notin Done => job.inUse[f] = <<ObjectOf(f, M), job.flags>>

\* and those it has compiled are as their sources give them.
Compiled ==
  Working =>
    /\ \A f \in Stored : Key(f) \in DOMAIN objects /\ objects[Key(f)] = Bytes(f)
    /\ \A f \in Done :
         /\ source[f] \in DOMAIN signatures /\ signatures[source[f]] = NewSignature(f)
         /\ f \in DOMAIN job.newSig /\ job.newSig[f] = NewSignature(f)
    /\ job.writing # NoFile => (job.replaced \/ ~Replaces(job.writing))

\* The entries, the signatures and the imports a build has in memory.
Remembered ==
  Working =>
    /\ DOMAIN job.prior = Done \union (IF Known THEN DOMAIN M ELSE {})
    /\ job.prior = [f \in DOMAIN job.prior |-> IF f \in Done THEN source[f] ELSE M[f]]
    /\ DOMAIN job.priorSig = IF Known THEN job.files \intersect DOMAIN M ELSE {}
    /\ Intact => \A f \in DOMAIN job.priorSig : job.priorSig[f] = SignatureOf(f, M)
    /\ DOMAIN job.deps = job.files
    /\ "imports" \notin lost => \A f \in job.files \ job.todo : job.deps[f] = Imports(source[f])

\* A compile that counts as no change was none.
Unmoved ==
  Working /\ Intact =>
    \A f \in Stored \ job.changed :
      Known /\ f \in DOMAIN M /\ ObjectOf(f, M) = ObjectOf(f, source)

\* The cascade: what has changed is still to be looked at, or all who import
\* it have been; and nobody else is.
Cascading ==
  Running /\ job.pc = "cascade" =>
    /\ DOMAIN job.graph = job.files /\ ~Cyclic(job.graph)
    /\ "imports" \notin lost => \A f \in job.files : job.graph[f] = Imports(source[f])
    /\ \A d \in job.changed \intersect Done :
         \/ ~SignatureMoved(d)
         \/ d \in Range(job.queue)
         \/ \A f \in job.files : d \in job.graph[f] => f \in Done \union job.dependents
    /\ \A d \in Range(job.queue) : SignatureMoved(d)
    /\ \A f \in job.dependents \union job.invalidated :
         \E d \in job.graph[f] : d \in job.files /\ SignatureMoved(d)

\* Once the manifest is saved it is about the sources.
AfterSave ==
  Running /\ job.pc \in {"link", "reported"} =>
    /\ Compatible(job.flags) /\ job.prior = M
    /\ \A f \in job.files : f \in DOMAIN M /\ M[f] = source[f]
    /\ job.pc = "reported" => job.output \in DOMAIN executables

\* What was built and not lost is in the manifest, with its object.
WarmIsStored ==
  \A f \in DOMAIN warm :
    /\ IsSaved
    /\ f \in DOMAIN M /\ M[f] = warm[f]
    /\ CacheKey(M[f], manifest.flags) \in DOMAIN objects

\* One program, whose file no other build is given.
OneProgram ==
  /\ \A o, p \in Outputs : o = p
  /\ \A some, others \in Invocations :
       Cardinality(some) = 1 /\ some \intersect others # {} => some = others
  /\ \A some, others \in Invocations :
       Cardinality(some) = 1 /\ Cardinality(others) = 1 => some = others

Unlinked == Running /\ job.pc = "link" /\ job.changed # {}

\* The program is the one of the manifest, or about to be linked.
ProgramStands ==
  OneProgram /\ IsSaved /\ lost = {} =>
    \A o \in DOMAIN executables : \A f \in DOMAIN M :
      {f} \in Invocations /\ ~(Unlinked /\ f \in job.files) =>
        executables[o] = <<ObjectOf(f, M), manifest.flags>>

IInv ==
  /\ Shape /\ JobShape
  /\ Signed /\ ImportsKnown /\ SnapshotStands
  /\ Hits /\ Compiled /\ Remembered /\ Unmoved /\ Cascading
  /\ AfterSave /\ FreshObjects
  /\ WarmIsStored /\ WarmFilesHit
  /\ ProgramStands

-----------------------------------------------------------------------------
(* Maps, files and keys.                                                   *)

LEMMA EmptyDomain == DOMAIN EmptyMap = {}
BY DEF EmptyMap

LEMMA KeyFact ==
  ASSUME NEW s, NEW t, NEW a, NEW b
  PROVE  CacheKey(s, a) = CacheKey(t, b) <=> s = t /\ a = b
BY DEF CacheKey

\* What is known of a snapshot.
LEMMA SnapshotFact ==
  ASSUME NEW a \in Snapshots
  PROVE  /\ DOMAIN a \subseteq Files
         /\ a = [f \in DOMAIN a |-> a[f]]
         /\ \A f \in DOMAIN a : a[f] \in SourcesOf[f] /\ Imports(a[f]) \subseteq DOMAIN a
BY DEF Snapshots

LEMMA IsSnapshot ==
  ASSUME NEW a, a = [f \in DOMAIN a |-> a[f]], DOMAIN a \subseteq Files,
         \A f \in DOMAIN a : a[f] \in SourcesOf[f] /\ Imports(a[f]) \subseteq DOMAIN a
  PROVE  a \in Snapshots
<1> DEFINE All == UNION {SourcesOf[f] : f \in Files}
<1>1. \A f \in DOMAIN a : a[f] \in All
  OBVIOUS
<1>2. a \in [DOMAIN a -> All]
  <2> HIDE DEF All
  <2> QED
    BY <1>1
<1> QED
  BY <1>2 DEF Snapshots

\* Two files never have the same source.
LEMMA SourcesDiffer ==
  ASSUME NEW a \in Snapshots, NEW b \in Snapshots,
         NEW f \in DOMAIN a, NEW g \in DOMAIN b, a[f] = b[g]
  PROVE  f = g
BY SnapshotFact, SourcesAssumption

\* The compiler sees of an import its signature only.
LEMMA SameResults ==
  ASSUME NEW a \in Snapshots, NEW b \in Snapshots,
         NEW f \in DOMAIN a \intersect DOMAIN b, a[f] = b[f],
         \A d \in Imports(a[f]) : SignatureOf(d, a) = SignatureOf(d, b)
  PROVE  ObjectOf(f, a) = ObjectOf(f, b) /\ SignatureOf(f, a) = SignatureOf(f, b)
BY CompilerAssumption

LEMMA SameSignature ==
  ASSUME NEW a \in Snapshots, NEW b \in Snapshots,
         NEW f \in DOMAIN a \intersect DOMAIN b, ObjectOf(f, a) = ObjectOf(f, b)
  PROVE  SignatureOf(f, a) = SignatureOf(f, b)
BY CompilerAssumption

LEMMA FilesFact ==
  /\ NoFile \notin Files
  /\ \A files \in Invocations : files \subseteq Files /\ files # {} /\ IsFiniteSet(files)
<1>1. NoFile \notin Files
  BY BuildCacheAssumption DEF NoFile
<1>2. ASSUME NEW files \in Invocations
      PROVE  files \subseteq Files /\ files # {} /\ IsFiniteSet(files)
  BY BuildCacheAssumption, FS_Subset
<1> QED
  BY <1>1, <1>2

LEMMA ShapeFact ==
  ASSUME Shape
  PROVE  /\ source \in Snapshots /\ DOMAIN source = Files
         /\ IsSaved => /\ manifest = Saved(manifest.flags, M, manifest.deps)
                       /\ M \in Snapshots /\ manifest.flags \in Flags
         /\ manifest = Missing => ~IsSaved
BY DEF Shape, IsSaved, Missing, Corrupt, Saved, M

\* Whoever builds.
LEMMA JobFact ==
  ASSUME JobShape, Running
  PROVE  /\ DOMAIN job = JobFields /\ job = [x \in JobFields |-> job[x]]
         /\ job.pc \in {"dirty", "cascade", "link", "reported"}
         /\ job.files \in Invocations /\ job.files \subseteq Files
         /\ job.flags \in Flags
         /\ job.force \in BOOLEAN /\ job.replaced \in BOOLEAN
         /\ job.output = NoOutput <=> Cardinality(job.files) # 1
         /\ job.output \in Outputs \union {NoOutput}
         /\ job.todo \subseteq job.dirty /\ job.dirty \subseteq job.files
         /\ job.dependents \union job.invalidated \subseteq job.files \ job.dirty
         /\ job.dependents \intersect job.invalidated = {}
         /\ job.writing \in job.todo \union job.dependents \union {NoFile}
         /\ job.changed \subseteq Stored
         /\ job.queue \in Seq(Done)
         /\ job.pc = "dirty" => job.dependents = {} /\ job.invalidated = {}
         /\ job.pc # "dirty" => job.todo = {}
         /\ job.pc \in {"link", "reported"} => ~job.replaced /\ job.writing = NoFile
         /\ job.pc = "reported" => job.output # NoOutput
         /\ Done \subseteq Stored /\ Stored \subseteq job.files
         /\ Done \intersect (job.todo \union job.dependents) = {}
<1>1. /\ DOMAIN job = JobFields /\ job = [x \in JobFields |-> job[x]]
      /\ job.pc \in {"dirty", "cascade", "link", "reported"}
      /\ job.files \in Invocations
      /\ job.flags \in Flags
      /\ job.force \in BOOLEAN /\ job.replaced \in BOOLEAN
      /\ job.output = NoOutput <=> Cardinality(job.files) # 1
      /\ job.output \in Outputs \union {NoOutput}
      /\ job.todo \subseteq job.dirty /\ job.dirty \subseteq job.files
      /\ job.dependents \union job.invalidated \subseteq job.files \ job.dirty
      /\ job.dependents \intersect job.invalidated = {}
      /\ job.writing \in job.todo \union job.dependents \union {NoFile}
      /\ job.changed \subseteq Stored
      /\ job.queue \in Seq(Done)
      /\ job.pc = "dirty" => job.dependents = {} /\ job.invalidated = {}
      /\ job.pc # "dirty" => job.todo = {}
      /\ job.pc \in {"link", "reported"} => ~job.replaced /\ job.writing = NoFile
      /\ job.pc = "reported" => job.output # NoOutput
  BY DEF JobShape, Running
<1>2. job.files \subseteq Files
  BY <1>1, FilesFact
<1>3. /\ Done \subseteq Stored /\ Stored \subseteq job.files
      /\ Done \intersect (job.todo \union job.dependents) = {}
  BY <1>1 DEF Done, Stored
<1> QED
  BY <1>1, <1>2, <1>3

-----------------------------------------------------------------------------
(* Nobody builds.                                                          *)

LEMMA NobodyBuilds ==
  ASSUME job' = NoJob, Shape', Signed', ImportsKnown', SnapshotStands', WarmIsStored',
         ProgramStands'
  PROVE  IInv'
<1>1. ~Running' /\ JobShape'
  BY DEF Running, JobShape
<1>2. /\ Hits' /\ Compiled' /\ Remembered' /\ Unmoved' /\ Cascading'
      /\ AfterSave' /\ FreshObjects' /\ WarmFilesHit'
  BY <1>1 DEF Hits, Compiled, Remembered, Unmoved, Cascading, AfterSave, FreshObjects,
     WarmFilesHit, Working
<1> QED
  BY <1>1, <1>2 DEF IInv

\* A build is over, one way or another; programs may have got lost.
LEMMA BuildEnds ==
  ASSUME IInv, Running, job' = NoJob,
         UNCHANGED <<source, manifest, objects, signatures, warm>>,
         lost \subseteq lost', lost' \subseteq {"replaced", "imports", "unlinked"},
         job.replaced => "replaced" \in lost',
         Unlinked /\ job.output # NoOutput => "unlinked" \in lost',
         DOMAIN executables' \subseteq DOMAIN executables,
         \A o \in DOMAIN executables' : executables'[o] = executables[o]
  PROVE  IInv'
<1>1. ~Running'
  BY DEF Running
<1>2. /\ M' = M /\ IsSaved' = IsSaved
      /\ Intact' => Intact /\ ~job.replaced
  BY DEF M, IsSaved, Intact
<1>3. Shape'
  BY <1>2 DEF IInv, Shape, M
<1>4. Signed' /\ WarmIsStored'
  BY <1>2 DEF IInv, Signed, WarmIsStored
<1>5. ImportsKnown'
  BY <1>2 DEF IInv, ImportsKnown
<1>6. SnapshotStands'
  BY <1>1, <1>2 DEF IInv, SnapshotStands, ObjectStands, SignatureStands, M
<1>7. ProgramStands'
  <2> SUFFICES ASSUME OneProgram, IsSaved, lost' = {},
                      NEW o \in DOMAIN executables', NEW f \in DOMAIN M, {f} \in Invocations
               PROVE  executables'[o] = <<ObjectOf(f, M), manifest.flags>>
    BY <1>1, <1>2 DEF ProgramStands, Unlinked
  <2>1. lost = {} /\ ~(Unlinked /\ job.output # NoOutput)
    OBVIOUS
  <2>2. ~(Unlinked /\ f \in job.files)
    <3>1. SUFFICES ASSUME Unlinked, f \in job.files
                   PROVE  job.output # NoOutput
      BY <2>1
    <3>2. Cardinality({f}) = 1
      BY FS_Singleton
    <3>3. job.files \in Invocations
      BY JobFact DEF IInv
    <3>4. job.files = {f}
      BY <3>1, <3>2, <3>3 DEF OneProgram
    <3> QED
      BY <3>2, <3>4, JobFact DEF IInv
  <2>3. executables[o] = <<ObjectOf(f, M), manifest.flags>>
    BY <2>1, <2>2 DEF IInv, ProgramStands
  <2> QED
    BY <2>3
<1> QED
  BY <1>3, <1>4, <1>5, <1>6, <1>7, NobodyBuilds

LEMMA EndEarlyInv ==
  ASSUME IInv, Running, EndEarly,
         DOMAIN executables' \subseteq DOMAIN executables,
         \A o \in DOMAIN executables' : executables'[o] = executables[o]
  PROVE  IInv'
<1>1. /\ lost \subseteq lost' /\ lost' \subseteq {"replaced", "imports", "unlinked"}
      /\ job.replaced => "replaced" \in lost'
      /\ Unlinked => "unlinked" \in lost'
  BY DEF EndEarly, LeftBehind, Unlinked, IInv, Shape
<1> QED
  BY <1>1, BuildEnds DEF EndEarly

LEMMA ReturnInv ==
  ASSUME IInv, Return
  PROVE  IInv'
<1>1. /\ Running /\ job' = NoJob
      /\ UNCHANGED <<source, manifest, objects, signatures, warm, lost, executables>>
      /\ job.pc \in {"link", "reported"}
      /\ Unlinked => job.output = NoOutput
  BY DEF Return, disk, Unlinked
<1>2. ~job.replaced
  BY <1>1, JobFact DEF IInv
<1>3. lost \subseteq {"replaced", "imports", "unlinked"}
  BY DEF IInv, Shape
<1> QED
  BY <1>1, <1>2, <1>3, BuildEnds

LEMMA InitInv ==
  ASSUME Init
  PROVE  IInv
<1>1. /\ manifest = Missing /\ lost = {} /\ job = NoJob /\ DOMAIN warm = {}
      /\ DOMAIN executables = {}
  BY EmptyDomain DEF Init
<1>2. ~IsSaved /\ ~Running
  BY <1>1 DEF IsSaved, Missing, Running
<1>3. source \in Snapshots /\ DOMAIN source = Files
  <2>1. /\ source = [f \in DOMAIN source |-> source[f]] /\ DOMAIN source = Files
        /\ \A f \in Files : source[f] \in SourcesOf[f]
    BY DEF Init
  <2>2. \A f \in Files : Imports(source[f]) \subseteq Files
    BY <2>1, SourcesAssumption
  <2> QED
    BY <2>1, <2>2, IsSnapshot
<1>4. Shape
  BY <1>1, <1>3 DEF Shape
<1>5. /\ JobShape /\ Hits /\ Compiled /\ Remembered /\ Unmoved /\ Cascading
      /\ AfterSave /\ FreshObjects /\ WarmFilesHit
  BY <1>1, <1>2 DEF JobShape, Hits, Compiled, Remembered, Unmoved, Cascading, AfterSave,
     FreshObjects, WarmFilesHit, Working
<1>6. /\ Signed /\ ImportsKnown /\ SnapshotStands /\ WarmIsStored /\ ProgramStands
  BY <1>1, <1>2 DEF Signed, ImportsKnown, SnapshotStands, WarmIsStored, ProgramStands
<1> QED
  BY <1>4, <1>5, <1>6 DEF IInv

LEMMA EditInv ==
  ASSUME IInv, NEW f \in Files, NEW s \in SourcesOf[f], Edit(f, s)
  PROVE  IInv'
<1>1. /\ job = NoJob /\ job' = NoJob
      /\ UNCHANGED <<manifest, objects, signatures, executables, lost, warm>>
      /\ source' = [source EXCEPT ![f] = s]
  BY DEF Edit, Running, disk
<1>2. source' \in Snapshots /\ DOMAIN source' = Files
  <2>1. source \in Snapshots /\ DOMAIN source = Files
    BY ShapeFact DEF IInv
  <2>a. source = [g \in Files |-> source[g]] /\ \A g \in Files : source[g] \in SourcesOf[g]
    BY <2>1, SnapshotFact
  <2>2. /\ DOMAIN source' = Files /\ source' = [g \in DOMAIN source' |-> source'[g]]
        /\ \A g \in Files : source'[g] \in SourcesOf[g]
    BY <1>1, <2>1, <2>a
  <2>3. \A g \in Files : Imports(source'[g]) \subseteq Files
    BY <2>2, SourcesAssumption
  <2> QED
    BY <2>2, <2>3, IsSnapshot
<1>3. M' = M /\ IsSaved' = IsSaved /\ ~Running /\ ~Running' /\ Intact' = Intact
  BY <1>1 DEF M, IsSaved, Running, Intact
<1>4. Shape'
  BY <1>1, <1>2, <1>3 DEF IInv, Shape, M
<1>5. Signed' /\ WarmIsStored'
  BY <1>1, <1>3 DEF IInv, Signed, WarmIsStored
<1>6. ImportsKnown'
  BY <1>1, <1>3 DEF IInv, ImportsKnown
<1>7. SnapshotStands'
  BY <1>1, <1>3 DEF IInv, SnapshotStands, ObjectStands, SignatureStands, M
<1>8. ProgramStands'
  BY <1>1, <1>3 DEF IInv, ProgramStands, Unlinked
<1> QED
  BY <1>1, <1>4, <1>5, <1>6, <1>7, <1>8, NobodyBuilds

\* There is nothing to say of a manifest that is not there.
LEMMA NoManifest ==
  ASSUME IInv, ~Running, job' = NoJob, manifest' \in {Missing, Corrupt}, warm' = EmptyMap,
         UNCHANGED <<source, executables>>,
         lost' \subseteq {"replaced", "imports", "unlinked"}
  PROVE  IInv'
<1>1. ~IsSaved' /\ DOMAIN warm' = {}
  BY EmptyDomain DEF IsSaved, Missing, Corrupt
<1>2. Shape'
  BY DEF IInv, Shape, M
<1>3. Signed' /\ ImportsKnown' /\ SnapshotStands' /\ WarmIsStored' /\ ProgramStands'
  BY <1>1 DEF Signed, ImportsKnown, SnapshotStands, WarmIsStored, ProgramStands
<1> QED
  BY <1>2, <1>3, NobodyBuilds

LEMMA CleanInv ==
  ASSUME IInv, Clean \/ CorruptManifest
  PROVE  IInv'
<1>1. lost \subseteq {"replaced", "imports", "unlinked"}
  BY DEF IInv, Shape
<1>2. /\ ~Running /\ job' = NoJob /\ manifest' \in {Missing, Corrupt} /\ warm' = EmptyMap
      /\ UNCHANGED <<source, executables>> /\ lost' \in {lost, {}}
  BY DEF Clean, CorruptManifest, Running
<1> QED
  BY <1>1, <1>2, NoManifest

LEMMA LoseObjectInv ==
  ASSUME IInv, NEW k \in DOMAIN objects, LoseObject(k)
  PROVE  IInv'
<1>1. /\ job = NoJob /\ job' = NoJob
      /\ UNCHANGED <<source, manifest, signatures, executables, lost>>
      /\ objects' = Only(objects, DOMAIN objects \ {k})
      /\ warm' = Only(warm, {f \in DOMAIN warm : warm[f] # k[1]})
  BY DEF LoseObject, Running
<1>2. /\ DOMAIN objects' = DOMAIN objects \ {k}
      /\ \A x \in DOMAIN objects' : objects'[x] = objects[x]
      /\ DOMAIN warm' = {f \in DOMAIN warm : warm[f] # k[1]}
      /\ \A f \in DOMAIN warm' : warm'[f] = warm[f]
  <2>1. /\ DOMAIN Only(objects, DOMAIN objects \ {k}) = DOMAIN objects \ {k}
        /\ \A x \in DOMAIN objects \ {k} : Only(objects, DOMAIN objects \ {k})[x] = objects[x]
    BY DEF Only
  <2> DEFINE kept == {f \in DOMAIN warm : warm[f] # k[1]}
  <2>2. kept \subseteq DOMAIN warm
    OBVIOUS
  <2>3. DOMAIN Only(warm, kept) = kept /\ \A f \in kept : Only(warm, kept)[f] = warm[f]
    <3> HIDE DEF kept
    <3> QED
      BY <2>2 DEF Only
  <2> QED
    BY <1>1, <2>1, <2>3
<1>3. M' = M /\ IsSaved' = IsSaved /\ ~Running /\ ~Running' /\ Intact' = Intact
  BY <1>1 DEF M, IsSaved, Running, Intact
<1>4. Shape'
  BY <1>1, <1>3 DEF IInv, Shape, M
<1>5. Signed'
  BY <1>1, <1>3 DEF IInv, Signed
<1>6. ImportsKnown'
  BY <1>1, <1>3 DEF IInv, ImportsKnown
<1>7. SnapshotStands'
  BY <1>1, <1>2, <1>3 DEF IInv, SnapshotStands, ObjectStands, SignatureStands, M
<1>8. ProgramStands'
  BY <1>1, <1>3 DEF IInv, ProgramStands, Unlinked
<1>9. WarmIsStored'
  <2> SUFFICES ASSUME NEW f \in DOMAIN warm'
               PROVE  /\ IsSaved /\ f \in DOMAIN M /\ M[f] = warm'[f]
                      /\ CacheKey(M[f], manifest.flags) \in DOMAIN objects'
    BY <1>1, <1>3 DEF WarmIsStored
  <2>1. /\ f \in DOMAIN warm /\ warm'[f] = warm[f] /\ warm[f] # k[1]
        /\ IsSaved /\ f \in DOMAIN M /\ M[f] = warm[f]
        /\ CacheKey(M[f], manifest.flags) \in DOMAIN objects
    BY <1>2 DEF IInv, WarmIsStored
  <2>2. CacheKey(M[f], manifest.flags) # k
    BY <2>1 DEF CacheKey
  <2> QED
    BY <1>2, <2>1, <2>2
<1> QED
  BY <1>1, <1>4, <1>5, <1>6, <1>7, <1>8, <1>9, NobodyBuilds

LEMMA LoseProgramInv ==
  ASSUME IInv, NEW p \in DOMAIN executables, LoseProgram(p)
  PROVE  IInv'
<1>1. /\ job = NoJob /\ job' = NoJob
      /\ UNCHANGED <<source, manifest, objects, signatures, lost, warm>>
      /\ executables' = Only(executables, Outputs \ {p})
  BY DEF LoseProgram, Running, disk
<1>2. /\ DOMAIN executables' \subseteq DOMAIN executables
      /\ \A o \in DOMAIN executables' : executables'[o] = executables[o]
  BY <1>1 DEF Only
<1>3. M' = M /\ IsSaved' = IsSaved /\ ~Running /\ ~Running' /\ Intact' = Intact
  BY <1>1 DEF M, IsSaved, Running, Intact
<1>4. Shape'
  BY <1>1, <1>2, <1>3 DEF IInv, Shape, M
<1>5. Signed' /\ WarmIsStored'
  BY <1>1, <1>3 DEF IInv, Signed, WarmIsStored
<1>6. ImportsKnown'
  BY <1>1, <1>3 DEF IInv, ImportsKnown
<1>7. SnapshotStands'
  BY <1>1, <1>3 DEF IInv, SnapshotStands, ObjectStands, SignatureStands, M
<1>8. ProgramStands'
  BY <1>1, <1>2, <1>3 DEF IInv, ProgramStands, Unlinked
<1> QED
  BY <1>1, <1>4, <1>5, <1>6, <1>7, <1>8, NobodyBuilds

LEMMA FailInv ==
  ASSUME IInv, \/ \E f \in Files : CompileFails(f)
               \/ SeedCascade /\ EndEarly
               \/ LinkFails
               \/ Crash
  PROVE  IInv'
<1>1. EndEarly /\ Running
  BY DEF CompileFails, Turn, SeedCascade, LinkFails, AtLink, Crash
<1>2. \/ executables' = executables
      \/ executables' = Only(executables, Outputs \ {job.output})
  BY DEF CompileFails, SeedCascade, LinkFails, Crash
<1>3. /\ DOMAIN executables' \subseteq DOMAIN executables
      /\ \A o \in DOMAIN executables' : executables'[o] = executables[o]
  BY <1>2 DEF Only
<1> QED
  BY <1>1, <1>3, EndEarlyInv

-----------------------------------------------------------------------------
(* Linking.                                                                *)

\* What the manifest names for a program that was built alone.
LEMMA ReportInv ==
  ASSUME IInv, SkipLink \/ Link
  PROVE  IInv'
<1>1. /\ Running /\ job.pc = "link" /\ job.output # NoOutput
      /\ job' = [job EXCEPT !.pc = "reported"]
      /\ UNCHANGED <<source, manifest, objects, signatures, lost, warm>>
  BY DEF SkipLink, Link, AtLink, Report, disk
<1>2. DOMAIN job = JobFields /\ job = [x \in JobFields |-> job[x]]
  BY <1>1, JobFact DEF IInv
<1>3. /\ DOMAIN job' = JobFields /\ job' = [x \in JobFields |-> job'[x]]
      /\ job'.pc = "reported"
      /\ job'.files = job.files /\ job'.flags = job.flags /\ job'.force = job.force
      /\ job'.output = job.output /\ job'.dirty = job.dirty /\ job'.todo = job.todo
      /\ job'.writing = job.writing /\ job'.dependents = job.dependents
      /\ job'.invalidated = job.invalidated /\ job'.changed = job.changed
      /\ job'.queue = job.queue /\ job'.replaced = job.replaced /\ job'.prior = job.prior
  BY <1>1, <1>2 DEF JobFields
<1>4. /\ Running' /\ ~Working' /\ ~Unlinked' /\ Done' = Done /\ Stored' = Stored
      /\ M' = M /\ IsSaved' = IsSaved /\ Intact' = Intact
  <2>1. "files" \in DOMAIN job' /\ "files" \notin DOMAIN NoJob
    BY <1>3 DEF JobFields, NoJob
  <2> QED
    BY <1>1, <1>3, <2>1 DEF Running, Working, Unlinked, Done, Stored, M, IsSaved, Intact
<1>5. JobShape'
  BY <1>1, <1>3, <1>4 DEF IInv, JobShape, Running
<1>6. /\ Hits' /\ Compiled' /\ Remembered' /\ Unmoved' /\ Cascading' /\ WarmFilesHit'
  BY <1>3, <1>4 DEF Hits, Compiled, Remembered, Unmoved, Cascading, WarmFilesHit
<1>7. /\ job.output \in DOMAIN executables' /\ DOMAIN executables' \subseteq Outputs
      /\ \A o \in DOMAIN executables' :
           \/ ~Unlinked /\ o \in DOMAIN executables /\ executables'[o] = executables[o]
           \/ o = job.output /\ executables'[o] = objects[Key(CHOOSE f \in job.files : TRUE)]
           \/ o # job.output /\ job.output \in Outputs /\ o \in Outputs
  <2>1. job.output \in Outputs /\ DOMAIN executables \subseteq Outputs
    BY <1>1, JobFact DEF IInv, Shape
  <2>2. CASE SkipLink
    BY <2>1, <2>2 DEF SkipLink, UpToDate, Unlinked
  <2>3. CASE Link
    <3> DEFINE new == objects[Key(CHOOSE f \in job.files : TRUE)]
    <3>1. executables' = Put(executables, job.output, new)
      BY <2>3 DEF Link
    <3> HIDE DEF new
    <3>2. /\ DOMAIN executables' = DOMAIN executables \union {job.output}
          /\ executables'[job.output] = new
      BY <3>1 DEF Put
    <3>3. \A o \in DOMAIN executables' : o = job.output \/ (o # job.output /\ o \in Outputs)
      BY <2>1, <3>2
    <3> QED
      BY <2>1, <3>2, <3>3 DEF new
  <2> QED
    BY <2>2, <2>3
<1>8. Shape'
  BY <1>1, <1>4, <1>7 DEF IInv, Shape, M
<1>9. Signed' /\ ImportsKnown' /\ WarmIsStored'
  BY <1>1, <1>4 DEF IInv, Signed, ImportsKnown, WarmIsStored
<1>10. SnapshotStands'
  BY <1>1, <1>3, <1>4 DEF IInv, SnapshotStands, ObjectStands, SignatureStands, M
<1>11. AfterSave'
  BY <1>1, <1>3, <1>4, <1>7 DEF IInv, AfterSave, Compatible, M
<1>12. FreshObjects'
  BY <1>1, <1>3, <1>4 DEF IInv, FreshObjects, Key, Bytes
<1>13. ProgramStands'
  <2> SUFFICES ASSUME OneProgram, IsSaved, lost = {},
                      NEW o \in DOMAIN executables', NEW f \in DOMAIN M, {f} \in Invocations
               PROVE  executables'[o] = <<ObjectOf(f, M), manifest.flags>>
    BY <1>1, <1>4 DEF ProgramStands, M
  <2>1. CASE ~Unlinked /\ o \in DOMAIN executables /\ executables'[o] = executables[o]
    BY <2>1 DEF IInv, ProgramStands
  <2>2. CASE o = job.output /\ executables'[o] = objects[Key(CHOOSE g \in job.files : TRUE)]
    <3>1. Cardinality({f}) = 1 /\ Cardinality(job.files) = 1 /\ job.files \in Invocations
      BY <1>1, FS_Singleton, JobFact DEF IInv
    <3>2. job.files = {f}
      BY <3>1 DEF OneProgram
    <3>3. (CHOOSE g \in job.files : TRUE) = f
      BY <3>2
    <3>4. Compatible(job.flags) /\ M[f] = source[f]
      BY <1>1, <3>2 DEF IInv, AfterSave
    <3>5. Intact /\ ~job.replaced
      BY <1>1, JobFact DEF IInv, Intact
    <3>6. Key(f) \in DOMAIN objects
      BY <1>1, <3>2, <3>5 DEF IInv, FreshObjects
    <3>7. ObjectStands(f)
      BY <3>5 DEF IInv, SnapshotStands
    <3>8. Key(f) = CacheKey(M[f], manifest.flags)
      BY <3>4 DEF Key, Compatible
    <3>9. objects[Key(f)] = <<ObjectOf(f, M), manifest.flags>>
      BY <3>6, <3>7, <3>8 DEF ObjectStands
    <3> QED
      BY <2>2, <3>3, <3>9
  <2>3. CASE o # job.output /\ job.output \in Outputs /\ o \in Outputs
    BY <2>3 DEF OneProgram
  <2> QED
    BY <1>7, <2>1, <2>2, <2>3
<1> QED
  BY <1>5, <1>6, <1>8, <1>9, <1>10, <1>11, <1>12, <1>13 DEF IInv

-----------------------------------------------------------------------------
(* A build at work.                                                        *)

\* What no step changes before the manifest is saved.
GoesOn ==
  /\ Working /\ job'.pc \in {"dirty", "cascade"}
  /\ job'.pc = "dirty" => job.pc = "dirty"
  /\ DOMAIN job' = JobFields /\ job' = [x \in JobFields |-> job'[x]]
  /\ job'.files = job.files /\ job'.flags = job.flags /\ job'.force = job.force
  /\ job'.output = job.output /\ job'.dirty = job.dirty /\ job'.priorSig = job.priorSig
  /\ DOMAIN objects \subseteq DOMAIN objects'
  /\ DOMAIN signatures \subseteq DOMAIN signatures'
  /\ UNCHANGED <<source, manifest, executables, lost, warm>>

LEMMA SameBuild ==
  ASSUME GoesOn
  PROVE  /\ Running /\ Running' /\ Working /\ Working' /\ ~Unlinked /\ ~Unlinked'
         /\ M' = M /\ IsSaved' = IsSaved /\ Intact' = Intact /\ Known' = Known
         /\ \A f : /\ Key(f)' = Key(f) /\ Bytes(f)' = Bytes(f)
                   /\ NewSignature(f)' = NewSignature(f)
                   /\ SignatureMoved(f)' = SignatureMoved(f)
                   /\ Replaces(f)' = Replaces(f)
<1>1. "files" \in DOMAIN job' /\ "files" \notin DOMAIN NoJob
  BY DEF GoesOn, JobFields, NoJob
<1>2. Running /\ Running' /\ Working /\ Working' /\ ~Unlinked /\ ~Unlinked'
  BY <1>1 DEF GoesOn, Working, Running, Unlinked
<1>3. M' = M /\ IsSaved' = IsSaved /\ Intact' = Intact /\ Known' = Known
  BY DEF GoesOn, M, IsSaved, Intact, Known, Compatible
<1>4. ASSUME NEW f
      PROVE  /\ Key(f)' = Key(f) /\ Bytes(f)' = Bytes(f)
             /\ NewSignature(f)' = NewSignature(f)
             /\ SignatureMoved(f)' = SignatureMoved(f)
             /\ Replaces(f)' = Replaces(f)
  BY DEF GoesOn, Key, Bytes, NewSignature, SignatureMoved, SignatureChanged, Replaces
<1> QED
  BY <1>2, <1>3, <1>4

LEMMA GoesOnInv ==
  ASSUME IInv, GoesOn, JobShape', SnapshotStands', Hits', Compiled', Remembered', Unmoved',
         Cascading'
  PROVE  IInv'
<1>1. /\ Running' /\ Working' /\ ~Unlinked /\ ~Unlinked'
      /\ M' = M /\ IsSaved' = IsSaved /\ Intact' = Intact
  BY SameBuild
<1>2. Shape'
  BY <1>1 DEF IInv, Shape, GoesOn, M
<1>3. Signed' /\ ImportsKnown' /\ WarmIsStored'
  BY <1>1 DEF IInv, Signed, ImportsKnown, WarmIsStored, GoesOn
<1>4. AfterSave' /\ FreshObjects'
  BY <1>1 DEF Working, AfterSave, FreshObjects
<1>5. WarmFilesHit'
  BY <1>1 DEF IInv, WarmFilesHit, GoesOn, Running, Working
<1>6. ProgramStands'
  BY <1>1 DEF IInv, ProgramStands, GoesOn
<1> QED
  BY <1>1, <1>2, <1>3, <1>4, <1>5, <1>6 DEF IInv

\* Whose turn it is: a file not compiled yet.
LEMMA TurnFact ==
  ASSUME IInv, NEW f \in Files, Turn(f)
  PROVE  /\ Running /\ Working /\ job.pc \in {"dirty", "cascade"}
         /\ f \in job.files /\ f # NoFile /\ f \in job.todo \union job.dependents
         /\ f \notin Done /\ Stored = Done /\ job.writing = NoFile
         /\ job.pc = "cascade" => f \in job.files \ job.dirty
<1>1. /\ Running /\ Working /\ job.pc \in {"dirty", "cascade"} /\ job.writing = NoFile
      /\ f \in job.todo \union job.dependents /\ f # NoFile
      /\ job.pc = "cascade" => f \in job.dependents
  BY FilesFact DEF Turn, Working
<1> QED
  BY <1>1, JobFact DEF IInv, Stored

LEMMA StoreObjectStep ==
  ASSUME IInv, NEW f \in Files, StoreObject(f)
  PROVE  /\ GoesOn /\ job'.pc = job.pc /\ JobShape'
         /\ Done' = Done /\ Stored' = Done \union {f} /\ job'.writing = f
         /\ job'.todo = job.todo /\ job'.prior = job.prior /\ job'.inUse = job.inUse
         /\ job'.newSig = job.newSig /\ job'.deps = job.deps /\ job'.graph = job.graph
         /\ job'.invalidated = job.invalidated /\ job'.queue = job.queue
         /\ job'.dependents = job.dependents
         /\ job'.changed = job.changed \union (IF OutputChanged(f) THEN {f} ELSE {})
         /\ job'.replaced = (job.replaced \/ Replaces(f))
         /\ DOMAIN objects' = DOMAIN objects \union {Key(f)}
         /\ objects'[Key(f)] = Bytes(f)
         /\ \A k \in DOMAIN objects : k # Key(f) => objects'[k] = objects[k]
         /\ signatures' = signatures
<1>1. /\ Turn(f) /\ objects' = Put(objects, Key(f), Bytes(f))
      /\ job' = [job EXCEPT !.writing = f,
                            !.changed = IF OutputChanged(f) THEN @ \union {f} ELSE @,
                            !.replaced = @ \/ Replaces(f)]
      /\ UNCHANGED <<source, manifest, signatures, executables, lost, warm>>
  BY DEF StoreObject
<1>2. /\ Running /\ Working /\ job.pc \in {"dirty", "cascade"}
      /\ f \in job.files /\ f # NoFile /\ f \in job.todo \union job.dependents
      /\ f \notin Done /\ Stored = Done /\ job.writing = NoFile
  BY <1>1, TurnFact
<1>3. /\ DOMAIN job = JobFields /\ job = [x \in JobFields |-> job[x]]
      /\ job.replaced \in BOOLEAN /\ job.changed \subseteq Stored
  BY <1>2, JobFact DEF IInv
<1>4. /\ DOMAIN job' = JobFields /\ job' = [x \in JobFields |-> job'[x]]
      /\ job'.pc = job.pc
      /\ job'.files = job.files /\ job'.flags = job.flags /\ job'.force = job.force
      /\ job'.output = job.output /\ job'.dirty = job.dirty /\ job'.priorSig = job.priorSig
      /\ job'.todo = job.todo /\ job'.prior = job.prior /\ job'.inUse = job.inUse
      /\ job'.newSig = job.newSig /\ job'.deps = job.deps /\ job'.graph = job.graph
      /\ job'.invalidated = job.invalidated /\ job'.queue = job.queue
      /\ job'.dependents = job.dependents
      /\ job'.writing = f
  BY <1>1, <1>3 DEF JobFields
<1>5. /\ job'.changed = job.changed \union (IF OutputChanged(f) THEN {f} ELSE {})
      /\ job'.replaced = (job.replaced \/ Replaces(f))
  BY <1>1, <1>3 DEF JobFields
<1>6. Done' = Done /\ Stored' = Done \union {f}
  BY <1>2, <1>4 DEF Done, Stored
<1>7. /\ DOMAIN objects' = DOMAIN objects \union {Key(f)}
      /\ objects'[Key(f)] = Bytes(f)
      /\ \A k \in DOMAIN objects : k # Key(f) => objects'[k] = objects[k]
  BY <1>1 DEF Put
<1>8. GoesOn
  BY <1>1, <1>2, <1>4, <1>7 DEF GoesOn
<1>9. JobShape'
  <2>1. job'.changed \subseteq Stored' /\ job'.replaced \in BOOLEAN
    BY <1>2, <1>3, <1>5, <1>6
  <2>2. job'.writing \in job'.todo \union job'.dependents \union {NoFile}
    BY <1>2, <1>4
  <2> QED
    BY <1>2, <1>4, <1>6, <2>1, <2>2, JobFact DEF IInv, JobShape
<1> QED
  BY <1>1, <1>4, <1>5, <1>6, <1>7, <1>8, <1>9

\* The key of one file is not that of another.
LEMMA KeysDiffer ==
  ASSUME Shape, NEW f \in Files, NEW g
  PROVE  /\ g \in Files /\ g # f => Key(g) # Key(f)
         /\ IsSaved /\ g \in DOMAIN M /\ g # f => /\ M[g] # source[f]
                                                  /\ CacheKey(M[g], manifest.flags) # Key(f)
<1>1. source \in Snapshots /\ DOMAIN source = Files /\ (IsSaved => M \in Snapshots)
  BY ShapeFact
<1>2. ASSUME g \in Files, g # f PROVE source[g] # source[f]
  BY <1>1, <1>2, SourcesDiffer
<1>3. ASSUME IsSaved, g \in DOMAIN M, g # f PROVE M[g] # source[f]
  BY <1>1, <1>3, SourcesDiffer
<1> QED
  BY <1>2, <1>3, KeyFact DEF Key

LEMMA StoreObjectInv ==
  ASSUME IInv, NEW f \in Files, StoreObject(f)
  PROVE  IInv'
<1>1. /\ GoesOn /\ job'.pc = job.pc /\ JobShape'
      /\ Done' = Done /\ Stored' = Done \union {f} /\ job'.writing = f
      /\ job'.todo = job.todo /\ job'.prior = job.prior /\ job'.inUse = job.inUse
      /\ job'.newSig = job.newSig /\ job'.deps = job.deps /\ job'.graph = job.graph
      /\ job'.invalidated = job.invalidated /\ job'.queue = job.queue
      /\ job'.dependents = job.dependents
      /\ job'.changed = job.changed \union (IF OutputChanged(f) THEN {f} ELSE {})
      /\ job'.replaced = (job.replaced \/ Replaces(f))
      /\ DOMAIN objects' = DOMAIN objects \union {Key(f)}
      /\ objects'[Key(f)] = Bytes(f)
      /\ \A k \in DOMAIN objects : k # Key(f) => objects'[k] = objects[k]
      /\ signatures' = signatures
  BY StoreObjectStep
<1>2. /\ Running /\ Running' /\ Working /\ Working'
      /\ M' = M /\ IsSaved' = IsSaved /\ Intact' = Intact /\ Known' = Known
      /\ \A g : /\ Key(g)' = Key(g) /\ Bytes(g)' = Bytes(g)
                /\ NewSignature(g)' = NewSignature(g)
                /\ SignatureMoved(g)' = SignatureMoved(g)
                /\ Replaces(g)' = Replaces(g)
  BY <1>1, SameBuild
<1>3. /\ job'.files = job.files /\ job'.flags = job.flags /\ job'.force = job.force
      /\ job'.dirty = job.dirty /\ job'.priorSig = job.priorSig
      /\ source' = source /\ manifest' = manifest /\ lost' = lost
  BY <1>1 DEF GoesOn
<1>4. Turn(f)
  BY DEF StoreObject
<1>5. /\ job.pc \in {"dirty", "cascade"}
      /\ f \in job.files /\ f # NoFile /\ f \in job.todo \union job.dependents
      /\ f \notin Done /\ Stored = Done /\ job.writing = NoFile
      /\ job.pc = "cascade" => f \in job.files \ job.dirty
  BY <1>4, TurnFact
<1>6. job.files \subseteq Files /\ Done \subseteq Files /\ Shape
  BY <1>2, JobFact DEF IInv
<1>7. IsSaved /\ Intact => \A g \in DOMAIN M :
        /\ ObjectStands(g) \/ (job.replaced /\ g \in Done)
        /\ SignatureStands(g) \/ (job.replaced /\ g \in Done)
  BY <1>5 DEF IInv, SnapshotStands
<1>8. SnapshotStands'
  <2> SUFFICES ASSUME IsSaved, Intact, NEW g \in DOMAIN M
               PROVE  /\ ObjectStands(g)' \/ (job'.replaced /\ g \in Done \union {f})
                      /\ SignatureStands(g)' \/ (job'.replaced /\ g \in Done)
    BY <1>1, <1>2 DEF SnapshotStands
  <2>1. SignatureStands(g)' <=> SignatureStands(g)
    BY <1>1, <1>2 DEF SignatureStands
  <2>2. ASSUME CacheKey(M[g], manifest.flags) # Key(f), ObjectStands(g)
        PROVE  ObjectStands(g)'
    BY <1>1, <1>2, <1>3, <2>2 DEF ObjectStands
  <2>3. CASE g # f
    BY <1>1, <1>6, <1>7, <2>1, <2>2, <2>3, KeysDiffer
  <2>4. CASE g = f
    <3>1. ObjectStands(f) /\ SignatureStands(f)
      BY <1>5, <1>7, <2>4
    <3>2. CASE CacheKey(M[f], manifest.flags) # Key(f)
      BY <2>1, <2>2, <2>4, <3>1, <3>2
    <3>3. CASE Replaces(f)
      BY <1>1, <2>1, <2>4, <3>1, <3>3
    <3>4. CASE ~Replaces(f) /\ CacheKey(M[f], manifest.flags) = Key(f)
      <4>1. M[f] = source[f] /\ manifest.flags = job.flags
        BY <3>4, KeyFact DEF Key
      <4>2. ObjectOf(f, M) = ObjectOf(f, source)
        BY <2>4, <3>4, <4>1 DEF Replaces, IsSaved, M
      <4>3. ObjectStands(f)'
        BY <1>1, <1>2, <1>3, <3>4, <4>1, <4>2 DEF ObjectStands, Bytes
      <4> QED
        BY <2>1, <2>4, <3>1, <4>3
    <3> QED
      BY <3>2, <3>3, <3>4
  <2> QED
    BY <2>3, <2>4
<1>9. Hits'
  BY <1>1, <1>2, <1>3 DEF IInv, Hits, Compatible
<1>10. Compiled'
  <2>1. ASSUME NEW g \in Done
        PROVE  Key(g) \in DOMAIN objects' /\ objects'[Key(g)] = Bytes(g)
    <3>1. Key(g) \in DOMAIN objects /\ objects[Key(g)] = Bytes(g)
      BY <1>2, <1>5 DEF IInv, Compiled
    <3>2. Key(g) # Key(f)
      BY <1>5, <1>6, KeysDiffer
    <3> QED
      BY <1>1, <3>1, <3>2
  <2>2. \A g \in Done :
          /\ source[g] \in DOMAIN signatures /\ signatures[source[g]] = NewSignature(g)
          /\ g \in DOMAIN job.newSig /\ job.newSig[g] = NewSignature(g)
    BY <1>2 DEF IInv, Compiled
  <2> QED
    BY <1>1, <1>2, <1>3, <2>1, <2>2 DEF Compiled
<1>11. Remembered'
  BY <1>1, <1>2, <1>3 DEF IInv, Remembered
<1>12. Unmoved'
  <2> SUFFICES ASSUME Intact, NEW g \in (Done \union {f}) \ job'.changed
               PROVE  Known /\ g \in DOMAIN M /\ ObjectOf(g, M) = ObjectOf(g, source)
    BY <1>1, <1>2, <1>3 DEF Unmoved
  <2>1. CASE g \in Done
    BY <1>1, <1>2, <1>5, <2>1 DEF IInv, Unmoved
  <2>2. CASE g = f
    <3>1. ~OutputChanged(f)
      BY <1>1, <2>2
    <3>2. CASE job.pc = "dirty"
      <4>1. /\ f \in DOMAIN job.prior
            /\ CacheKey(job.prior[f], job.flags) \in DOMAIN objects
            /\ objects[CacheKey(job.prior[f], job.flags)] = Bytes(f)
        BY <3>1, <3>2 DEF OutputChanged
      <4>2. Known /\ f \in DOMAIN M /\ job.prior[f] = M[f]
        BY <1>2, <1>5, <4>1 DEF IInv, Remembered
      <4>3. IsSaved /\ manifest.flags = job.flags
        BY <4>2 DEF Known, Compatible, IsSaved
      <4>4. ObjectStands(f)
        BY <1>5, <1>7, <4>2, <4>3
      <4> QED
        BY <2>2, <4>1, <4>2, <4>3, <4>4 DEF ObjectStands, Bytes
    <3>3. CASE job.pc = "cascade"
      <4>1. job.inUse[f] = Bytes(f)
        BY <3>1, <3>3 DEF OutputChanged
      <4>2. f \in job.files \ job.dirty
        BY <1>5, <3>3
      <4>3. Known /\ f \in DOMAIN M /\ job.inUse[f] = <<ObjectOf(f, M), job.flags>>
        BY <1>2, <1>5, <4>2 DEF IInv, Hits
      <4> QED
        BY <2>2, <4>1, <4>3 DEF Bytes
    <3> QED
      BY <1>5, <3>2, <3>3
  <2> QED
    BY <2>1, <2>2
<1>13. Cascading'
  <2>1. job'.changed \intersect Done = job.changed \intersect Done
    BY <1>1, <1>5
  <2> QED
    BY <1>1, <1>2, <1>3, <2>1 DEF IInv, Cascading
<1> QED
  BY <1>1, <1>8, <1>9, <1>10, <1>11, <1>12, <1>13, GoesOnInv

\* What the queue of the cascade holds.
LEMMA AppendFact ==
  ASSUME NEW S, NEW q \in Seq(S), NEW x \in S
  PROVE  Append(q, x) \in Seq(S) /\ Range(Append(q, x)) = Range(q) \union {x}
<1>1. /\ Append(q, x) \in Seq(S) /\ Len(q) \in Nat
      /\ DOMAIN Append(q, x) = 1..(Len(q) + 1) /\ DOMAIN q = 1..Len(q)
      /\ \A i \in 1..Len(q) : Append(q, x)[i] = q[i]
      /\ Append(q, x)[Len(q) + 1] = x
  OBVIOUS
<1> QED
  BY <1>1 DEF Range

LEMMA FrontFact ==
  ASSUME NEW S, NEW q \in Seq(S), q # << >>
  PROVE  /\ Front(q) \in Seq(S)
         /\ Last(q) \in Range(q) /\ Last(q) \in S
         /\ Range(q) = Range(Front(q)) \union {Last(q)}
<1>1. Len(q) \in Nat /\ Len(q) > 0 /\ DOMAIN q = 1..Len(q)
  OBVIOUS
<1>2. /\ Front(q) \in Seq(S) /\ DOMAIN Front(q) = 1..(Len(q) - 1)
      /\ \A i \in 1..(Len(q) - 1) : Front(q)[i] = q[i]
  BY <1>1 DEF Front
<1>3. Last(q) = q[Len(q)]
  BY DEF Last
<1> QED
  BY <1>1, <1>2, <1>3 DEF Range

LEMMA StoreSignatureStep ==
  ASSUME IInv, NEW f \in Files, StoreSignature(f)
  PROVE  /\ GoesOn /\ job'.pc = job.pc /\ JobShape'
         /\ job.pc \in {"dirty", "cascade"}
         /\ f \in job.files /\ f \in Stored /\ f \notin Done /\ job.writing = f
         /\ Done' = Done \union {f} /\ Stored' = Stored /\ job'.writing = NoFile
         /\ job'.todo = job.todo \ {f}
         /\ job'.dependents = job.dependents \ {f}
         /\ job.pc = "cascade" => job'.invalidated = job.invalidated \union {f}
         /\ job.pc = "cascade" => f \in job.dependents
         /\ job'.prior = Put(job.prior, f, source[f])
         /\ job'.inUse = Put(job.inUse, f, Bytes(f))
         /\ job'.newSig = Put(job.newSig, f, NewSignature(f))
         /\ job'.deps = [job.deps EXCEPT ![f] = Imports(source[f])]
         /\ job'.graph = job.graph
         /\ job'.changed = job.changed /\ job'.replaced = job.replaced
         /\ Range(job'.queue) =
              Range(job.queue) \union
                (IF job.pc = "cascade" /\ SignatureMoved(f) /\ f \in job.changed
                 THEN {f} ELSE {})
         /\ objects' = objects
         /\ signatures' = Put(signatures, source[f], NewSignature(f))
<1>1. /\ Running /\ job.writing = f
      /\ signatures' = Put(signatures, source[f], NewSignature(f))
      /\ UNCHANGED <<source, manifest, objects, executables, lost, warm>>
  BY DEF StoreSignature, SignaturesWith
<1>2. f # NoFile
  BY FilesFact
<1>3. /\ DOMAIN job = JobFields /\ job = [x \in JobFields |-> job[x]]
      /\ f \in job.todo \union job.dependents
      /\ job.pc \in {"dirty", "cascade"}
      /\ f \in job.files
      /\ job.pc = "dirty" => job.dependents = {} /\ job.invalidated = {}
      /\ job.pc = "cascade" => job.todo = {}
      /\ f \notin Done /\ f \in Stored
  <2>1. f \notin Done
    BY <1>1, <1>2, JobFact DEF IInv
  <2> QED
    BY <1>1, <1>2, <2>1, JobFact DEF IInv, Stored
<1>4. job' = [job EXCEPT
       !.writing = NoFile,
       !.prior = Put(job.prior, f, source[f]),
       !.inUse = Put(@, f, Bytes(f)),
       !.newSig = Put(@, f, NewSignature(f)),
       !.deps[f] = Imports(source[f]),
       !.todo = @ \ {f},
       !.dependents = @ \ {f},
       !.invalidated = IF job.pc = "cascade" THEN @ \union {f} ELSE @,
       !.queue = IF /\ job.pc = "cascade"
                    /\ SignatureMoved(f)
                    /\ f \in job.changed
                 THEN Append(@, f) ELSE @]
  BY DEF StoreSignature, EntriesWith, SignatureMoved
<1>5. /\ DOMAIN job' = JobFields /\ job' = [x \in JobFields |-> job'[x]]
      /\ job'.pc = job.pc
      /\ job'.files = job.files /\ job'.flags = job.flags /\ job'.force = job.force
      /\ job'.output = job.output /\ job'.dirty = job.dirty /\ job'.priorSig = job.priorSig
      /\ job'.changed = job.changed /\ job'.replaced = job.replaced /\ job'.graph = job.graph
      /\ job'.writing = NoFile
      /\ job'.prior = Put(job.prior, f, source[f])
      /\ job'.inUse = Put(job.inUse, f, Bytes(f))
      /\ job'.newSig = Put(job.newSig, f, NewSignature(f))
      /\ job'.todo = job.todo \ {f}
      /\ job'.dependents = job.dependents \ {f}
  BY <1>3, <1>4 DEF JobFields
<1>6. job'.deps = [job.deps EXCEPT ![f] = Imports(source[f])]
  BY <1>3, <1>4 DEF JobFields
<1>7. /\ job.pc = "cascade" => job'.invalidated = job.invalidated \union {f}
      /\ job.pc = "dirty" => job'.invalidated = job.invalidated
  BY <1>3, <1>4 DEF JobFields
<1>8. job'.queue = IF job.pc = "cascade" /\ SignatureMoved(f) /\ f \in job.changed
                   THEN Append(job.queue, f) ELSE job.queue
  BY <1>3, <1>4 DEF JobFields
<1>9. job.dirty \subseteq job.files /\ job.todo \subseteq job.dirty
  BY <1>1, JobFact DEF IInv
<1>10. Done' = Done \union {f}
  BY <1>3, <1>5, <1>7, <1>9 DEF Done
<1>11. Stored' = Stored
  BY <1>1, <1>2, <1>5, <1>10 DEF Stored
<1>12. /\ job'.queue \in Seq(Done')
       /\ Range(job'.queue) =
              Range(job.queue) \union
                (IF job.pc = "cascade" /\ SignatureMoved(f) /\ f \in job.changed
                 THEN {f} ELSE {})
  <2>1. job.queue \in Seq(Done)
    BY <1>1, JobFact DEF IInv
  <2>2. job.queue \in Seq(Done \union {f})
    BY <2>1
  <2>3. f \in Done \union {f}
    OBVIOUS
  <2>4. /\ Append(job.queue, f) \in Seq(Done \union {f})
        /\ Range(Append(job.queue, f)) = Range(job.queue) \union {f}
    BY <2>2, <2>3, AppendFact
  <2> QED
    BY <1>8, <1>10, <2>2, <2>4
<1>13. DOMAIN signatures \subseteq DOMAIN signatures'
  BY <1>1 DEF Put
<1>14. GoesOn
  BY <1>1, <1>3, <1>5, <1>13 DEF GoesOn, Working
<1>15. JobShape'
  <2>1. /\ job.dependents \union job.invalidated \subseteq job.files \ job.dirty
        /\ job.dependents \intersect job.invalidated = {}
        /\ job.changed \subseteq Stored
    BY <1>1, JobFact DEF IInv
  <2>2. /\ job'.todo \subseteq job'.dirty
        /\ job'.dependents \union job'.invalidated \subseteq job'.files \ job'.dirty
        /\ job'.dependents \intersect job'.invalidated = {}
    BY <1>3, <1>5, <1>7, <1>9, <2>1
  <2>3. job'.pc = "dirty" => job'.dependents = {} /\ job'.invalidated = {}
    BY <1>3, <1>5, <1>7
  <2>4. job'.pc # "dirty" => job'.todo = {}
    BY <1>3, <1>5
  <2> QED
    BY <1>1, <1>3, <1>5, <1>9, <1>11, <1>12, <2>1, <2>2, <2>3, <2>4, JobFact
       DEF IInv, JobShape
<1>16. job.pc = "cascade" => f \in job.dependents
  BY <1>3
<1> QED
  BY <1>1, <1>3, <1>5, <1>6, <1>7, <1>10, <1>11, <1>12, <1>14, <1>15, <1>16

LEMMA StoreSignatureInv ==
  ASSUME IInv, NEW f \in Files, StoreSignature(f)
  PROVE  IInv'
<1>1. /\ GoesOn /\ job'.pc = job.pc /\ JobShape'
      /\ job.pc \in {"dirty", "cascade"}
      /\ f \in job.files /\ f \in Stored /\ f \notin Done /\ job.writing = f
      /\ Done' = Done \union {f} /\ Stored' = Stored /\ job'.writing = NoFile
      /\ job'.todo = job.todo \ {f}
      /\ job'.dependents = job.dependents \ {f}
      /\ job.pc = "cascade" => job'.invalidated = job.invalidated \union {f}
      /\ job.pc = "cascade" => f \in job.dependents
      /\ job'.prior = Put(job.prior, f, source[f])
      /\ job'.inUse = Put(job.inUse, f, Bytes(f))
      /\ job'.newSig = Put(job.newSig, f, NewSignature(f))
      /\ job'.deps = [job.deps EXCEPT ![f] = Imports(source[f])]
      /\ job'.graph = job.graph
      /\ job'.changed = job.changed /\ job'.replaced = job.replaced
      /\ Range(job'.queue) =
           Range(job.queue) \union
             (IF job.pc = "cascade" /\ SignatureMoved(f) /\ f \in job.changed
              THEN {f} ELSE {})
      /\ objects' = objects
      /\ signatures' = Put(signatures, source[f], NewSignature(f))
  BY StoreSignatureStep
<1>2. /\ Running /\ Running' /\ Working /\ Working'
      /\ M' = M /\ IsSaved' = IsSaved /\ Intact' = Intact /\ Known' = Known
      /\ \A g : /\ Key(g)' = Key(g) /\ Bytes(g)' = Bytes(g)
                /\ NewSignature(g)' = NewSignature(g)
                /\ SignatureMoved(g)' = SignatureMoved(g)
                /\ Replaces(g)' = Replaces(g)
  BY <1>1, SameBuild
<1>3. /\ job'.files = job.files /\ job'.flags = job.flags /\ job'.force = job.force
      /\ job'.dirty = job.dirty /\ job'.priorSig = job.priorSig
      /\ source' = source /\ manifest' = manifest /\ lost' = lost
  BY <1>1 DEF GoesOn
<1>4. job.files \subseteq Files /\ Done \subseteq Files /\ Shape /\ f # NoFile
  BY <1>2, FilesFact, JobFact DEF IInv
<1>5. /\ source[f] \in DOMAIN signatures' /\ signatures'[source[f]] = NewSignature(f)
      /\ \A s \in DOMAIN signatures :
           s \in DOMAIN signatures' /\ (s # source[f] => signatures'[s] = signatures[s])
      /\ \A s \in DOMAIN signatures' : s \in DOMAIN signatures \/ s = source[f]
  BY <1>1 DEF Put
<1>6. SnapshotStands'
  <2> SUFFICES ASSUME IsSaved, Intact, NEW g \in DOMAIN M
               PROVE  /\ ObjectStands(g)' \/ (job.replaced /\ g \in Stored)
                      /\ SignatureStands(g)' \/ (job.replaced /\ g \in Done \union {f})
    BY <1>1, <1>2 DEF SnapshotStands
  <2>1. ObjectStands(g)' <=> ObjectStands(g)
    BY <1>1, <1>2, <1>3 DEF ObjectStands
  <2>2. /\ ObjectStands(g) \/ (job.replaced /\ g \in Stored)
        /\ SignatureStands(g) \/ (job.replaced /\ g \in Done)
    BY DEF IInv, SnapshotStands
  <2>3. ASSUME M[g] # source[f], SignatureStands(g)
        PROVE  SignatureStands(g)'
    BY <1>2, <1>5, <2>3 DEF SignatureStands
  <2>4. CASE g # f
    <3>1. M[g] # source[f]
      BY <1>4, <2>4, KeysDiffer
    <3> QED
      BY <2>1, <2>2, <2>3, <3>1
  <2>5. CASE g = f /\ M[f] # source[f]
    BY <2>1, <2>2, <2>3, <2>5
  <2>6. CASE g = f /\ M[f] = source[f]
    <3>1. job.replaced \/ ~Replaces(f)
      BY <1>1, <1>2, <1>4 DEF IInv, Compiled
    <3>2. ASSUME ~Replaces(f)
          PROVE  SignatureStands(f)'
      <4>1. SignatureOf(f, M) = SignatureOf(f, source)
        BY <2>6, <3>2 DEF Replaces, IsSaved, M
      <4> QED
        BY <1>2, <1>5, <2>6, <4>1 DEF SignatureStands, NewSignature
    <3> QED
      BY <2>1, <2>2, <2>6, <3>1, <3>2
  <2> QED
    BY <2>4, <2>5, <2>6
<1>7. Hits'
  <2>1. ASSUME NEW g, g \in DOMAIN job.inUse
        PROVE  g \in DOMAIN job'.inUse /\ (g # f => job'.inUse[g] = job.inUse[g])
    BY <1>1, <2>1 DEF Put
  <2> QED
    BY <1>1, <1>2, <1>3, <2>1 DEF IInv, Hits, Compatible
<1>8. Compiled'
  <2>1. ASSUME NEW g \in Done
        PROVE  /\ source[g] \in DOMAIN signatures'
               /\ signatures'[source[g]] = NewSignature(g)
               /\ g \in DOMAIN job'.newSig /\ job'.newSig[g] = NewSignature(g)
    <3>1. /\ source[g] \in DOMAIN signatures /\ signatures[source[g]] = NewSignature(g)
          /\ g \in DOMAIN job.newSig /\ job.newSig[g] = NewSignature(g)
      BY <1>2 DEF IInv, Compiled
    <3>2. source[g] # source[f]
      BY <1>1, <1>4, SourcesDiffer, ShapeFact
    <3>3. g # f
      BY <1>1
    <3> QED
      BY <1>1, <1>5, <3>1, <3>2, <3>3 DEF Put
  <2>2. f \in DOMAIN job'.newSig /\ job'.newSig[f] = NewSignature(f)
    BY <1>1 DEF Put
  <2>3. \A g \in Stored : Key(g) \in DOMAIN objects /\ objects[Key(g)] = Bytes(g)
    BY <1>2 DEF IInv, Compiled
  <2> QED
    BY <1>1, <1>2, <1>3, <1>5, <2>1, <2>2, <2>3 DEF Compiled
<1>9. Remembered'
  <2>1. /\ DOMAIN job.prior = Done \union (IF Known THEN DOMAIN M ELSE {})
        /\ job.prior = [g \in DOMAIN job.prior |-> IF g \in Done THEN source[g] ELSE M[g]]
        /\ DOMAIN job.deps = job.files
        /\ "imports" \notin lost =>
             \A g \in job.files \ job.todo : job.deps[g] = Imports(source[g])
    BY <1>2 DEF IInv, Remembered
  <2>2. DOMAIN job'.prior = Done' \union (IF Known THEN DOMAIN M ELSE {})
    BY <1>1, <2>1 DEF Put
  <2>3. job'.prior = [g \in DOMAIN job'.prior |-> IF g \in Done' THEN source[g] ELSE M[g]]
    <3>1. job'.prior = [g \in DOMAIN job.prior \union {f} |->
                           IF g = f THEN source[f] ELSE job.prior[g]]
      BY <1>1 DEF Put
    <3>2. ASSUME NEW g \in DOMAIN job.prior, g # f
          PROVE  job.prior[g] = IF g \in Done' THEN source[g] ELSE M[g]
      BY <1>1, <2>1, <3>2
    <3>3. f \in Done'
      BY <1>1
    <3> QED
      BY <3>1, <3>2, <3>3
  <2>4. /\ DOMAIN job'.deps = job.files
        /\ "imports" \notin lost =>
             \A g \in job.files \ job'.todo : job'.deps[g] = Imports(source[g])
    BY <1>1, <2>1
  <2> QED
    BY <1>2, <1>3, <2>2, <2>3, <2>4 DEF IInv, Remembered
<1>10. Unmoved'
  BY <1>1, <1>2, <1>3 DEF IInv, Unmoved
<1>11. Cascading'
  <2> SUFFICES ASSUME job.pc = "cascade"
               PROVE  Cascading'
    BY <1>1 DEF Cascading
  <2>1. /\ DOMAIN job.graph = job.files /\ ~Cyclic(job.graph)
        /\ "imports" \notin lost => \A g \in job.files : job.graph[g] = Imports(source[g])
        /\ \A d \in job.changed \intersect Done :
             \/ ~SignatureMoved(d)
             \/ d \in Range(job.queue)
             \/ \A g \in job.files : d \in job.graph[g] => g \in Done \union job.dependents
        /\ \A d \in Range(job.queue) : SignatureMoved(d)
        /\ \A g \in job.dependents \union job.invalidated :
             \E d \in job.graph[g] : d \in job.files /\ SignatureMoved(d)
    BY <1>2 DEF IInv, Cascading
  <2>2. Done' \union job'.dependents = Done \union job.dependents
    BY <1>1
  <2>3. ASSUME NEW d \in job.changed \intersect Done'
        PROVE  \/ ~SignatureMoved(d)
               \/ d \in Range(job'.queue)
               \/ \A g \in job.files :
                    d \in job.graph[g] => g \in Done' \union job'.dependents
    <3>1. CASE d = f
      BY <1>1, <3>1
    <3>2. CASE d \in Done
      BY <1>1, <2>1, <2>2, <3>2
    <3> QED
      BY <1>1, <3>1, <3>2
  <2>4. \A d \in Range(job'.queue) : SignatureMoved(d)
    BY <1>1, <2>1
  <2>5. job'.dependents \union job'.invalidated = job.dependents \union job.invalidated
    BY <1>1
  <2> QED
    BY <1>1, <1>2, <1>3, <2>1, <2>3, <2>4, <2>5 DEF Cascading
<1> QED
  BY <1>1, <1>6, <1>7, <1>8, <1>9, <1>10, <1>11, GoesOnInv

\* What a file of the build imports is built with it.
LEMMA ImportsInBuild ==
  ASSUME Shape, JobShape, Running, NEW f \in job.files
  PROVE  f \in Files /\ Imports(source[f]) \subseteq job.files
<1>1. job.files \in Invocations /\ f \in Files
  BY JobFact
<1>2. source[f] \in SourcesOf[f]
  BY <1>1, ShapeFact, SnapshotFact
<1> QED
  BY <1>1, <1>2, SourcesAssumption

LEMMA SeedCascadeInv ==
  ASSUME IInv, SeedCascade, ~EndEarly
  PROVE  IInv'
<1> DEFINE graph == [f \in job.files |-> job.deps[f] \intersect job.files]
           seeds == {f \in job.dirty \intersect job.changed :
                       SignatureChanged(f, job.newSig[f])}
<1>1. /\ Running /\ job.pc = "dirty" /\ job.todo = {} /\ job.writing = NoFile
      /\ ~Cyclic(graph)
      /\ UNCHANGED <<source, manifest, objects, signatures, executables, lost, warm>>
      /\ \E queue \in InOrder(seeds) :
           job' = [job EXCEPT !.pc = "cascade", !.graph = graph, !.queue = queue]
  BY DEF SeedCascade, disk
<1>2. PICK queue \in InOrder(seeds) :
        job' = [job EXCEPT !.pc = "cascade", !.graph = graph, !.queue = queue]
  BY <1>1
<1>3. /\ DOMAIN job = JobFields /\ job = [x \in JobFields |-> job[x]]
      /\ job.dirty \subseteq job.files /\ job.files \subseteq Files
      /\ job.files \in Invocations
      /\ job.dependents = {} /\ job.invalidated = {}
      /\ job.changed \subseteq Stored
  BY <1>1, JobFact DEF IInv
<1>4. Working /\ Done = job.dirty /\ Stored = Done
  BY <1>1, <1>3 DEF Working, Done, Stored
<1>5. DOMAIN graph = job.files
  OBVIOUS
<1>6. seeds \subseteq Done
  BY <1>4
<1>7. seeds = {f \in job.changed \intersect Done : SignatureMoved(f)}
  <2>1. \A f \in Done : job.newSig[f] = NewSignature(f)
    BY <1>4 DEF IInv, Compiled
  <2> QED
    BY <1>4, <2>1 DEF SignatureMoved
<1>8. Intact \/ "imports" \notin lost => \A f \in job.files : graph[f] = Imports(source[f])
  <2> SUFFICES ASSUME "imports" \notin lost, NEW f \in job.files
               PROVE  graph[f] = Imports(source[f])
    BY DEF Intact
  <2>1. job.deps[f] = Imports(source[f])
    BY <1>1, <1>4 DEF IInv, Remembered
  <2>2. Imports(source[f]) \subseteq job.files
    BY <1>1, ImportsInBuild DEF IInv
  <2> QED
    BY <2>1, <2>2
<1> HIDE DEF graph, seeds
<1>9. /\ DOMAIN job' = JobFields /\ job' = [x \in JobFields |-> job'[x]]
      /\ job'.pc = "cascade" /\ job'.graph = graph /\ job'.queue = queue
      /\ job'.files = job.files /\ job'.flags = job.flags /\ job'.force = job.force
      /\ job'.output = job.output /\ job'.dirty = job.dirty /\ job'.todo = job.todo
      /\ job'.writing = job.writing /\ job'.prior = job.prior
      /\ job'.priorSig = job.priorSig /\ job'.inUse = job.inUse
      /\ job'.newSig = job.newSig /\ job'.deps = job.deps /\ job'.changed = job.changed
      /\ job'.invalidated = job.invalidated /\ job'.dependents = job.dependents
      /\ job'.replaced = job.replaced
  BY <1>2, <1>3 DEF JobFields
<1>10. GoesOn
  BY <1>1, <1>4, <1>9 DEF GoesOn
<1>11. /\ Running /\ Running' /\ Working /\ Working'
       /\ M' = M /\ IsSaved' = IsSaved /\ Intact' = Intact /\ Known' = Known
       /\ \A g : /\ Key(g)' = Key(g) /\ Bytes(g)' = Bytes(g)
                 /\ NewSignature(g)' = NewSignature(g)
                 /\ SignatureMoved(g)' = SignatureMoved(g)
                 /\ Replaces(g)' = Replaces(g)
  BY <1>10, SameBuild
<1>12. Done' = Done /\ Stored' = Stored
  BY <1>9 DEF Done, Stored
<1>13. queue \in Seq(Done) /\ Range(queue) = seeds
  <2>1. IsFiniteSet(seeds)
    BY <1>3, <1>4, <1>6, FilesFact, FS_Subset
  <2>2. Cardinality(seeds) \in Nat
    BY <2>1, FS_CardinalityType
  <2>3. queue \in [1..Cardinality(seeds) -> seeds] /\ Range(queue) = seeds
    BY DEF InOrder
  <2>4. queue \in [1..Cardinality(seeds) -> Done]
    BY <1>6, <2>3
  <2> QED
    BY <2>2, <2>3, <2>4
<1>14. JobShape'
  <2>1. job.replaced \in BOOLEAN /\ job.force \in BOOLEAN
    BY <1>1, JobFact DEF IInv
  <2> QED
    BY <1>1, <1>3, <1>9, <1>12, <1>13, <2>1, JobFact DEF IInv, JobShape
<1>15. SnapshotStands'
  BY <1>1, <1>9, <1>11, <1>12 DEF IInv, SnapshotStands, ObjectStands, SignatureStands, M
<1>16. Hits'
  BY <1>1, <1>9, <1>11, <1>12 DEF IInv, Hits, Compatible
<1>17. Compiled'
  BY <1>1, <1>9, <1>11, <1>12 DEF IInv, Compiled
<1>18. Remembered'
  BY <1>1, <1>9, <1>11, <1>12 DEF IInv, Remembered
<1>19. Unmoved'
  BY <1>1, <1>9, <1>11, <1>12 DEF IInv, Unmoved
<1>20. Cascading'
  BY <1>1, <1>3, <1>5, <1>7, <1>8, <1>9, <1>11, <1>12, <1>13 DEF Cascading
<1> QED
  BY <1>10, <1>14, <1>15, <1>16, <1>17, <1>18, <1>19, <1>20, GoesOnInv

LEMMA PopOriginInv ==
  ASSUME IInv, PopOrigin
  PROVE  IInv'
<1>1. /\ Running /\ job.pc = "cascade" /\ job.dependents = {} /\ job.writing = NoFile
      /\ job.queue # << >>
      /\ UNCHANGED <<source, manifest, objects, signatures, executables, lost, warm>>
  BY DEF PopOrigin
<1> DEFINE origin == Last(job.queue)
           next == {f \in job.files : origin \in job.graph[f]} \ (job.invalidated \union job.dirty)
<1>2. job' = [job EXCEPT !.queue = Front(@), !.dependents = next]
  BY DEF PopOrigin
<1>3. /\ DOMAIN job = JobFields /\ job = [x \in JobFields |-> job[x]]
      /\ job.queue \in Seq(Done) /\ job.todo = {} /\ job.files \subseteq Files
      /\ job.dirty \subseteq job.files
  BY <1>1, JobFact DEF IInv
<1>4. /\ Front(job.queue) \in Seq(Done) /\ origin \in Range(job.queue) /\ origin \in Done
      /\ Range(job.queue) = Range(Front(job.queue)) \union {origin}
  BY <1>1, <1>3, FrontFact
<1>5. next \subseteq job.files \ job.dirty /\ next \intersect job.invalidated = {}
  OBVIOUS
<1>6. /\ \A f \in job.files : origin \in job.graph[f] => f \in job.dirty \union job.invalidated \union next
      /\ \A f \in next : origin \in job.graph[f]
  OBVIOUS
<1> HIDE DEF next, origin
<1>7. /\ DOMAIN job' = JobFields /\ job' = [x \in JobFields |-> job'[x]]
      /\ job'.pc = job.pc /\ job'.graph = job.graph /\ job'.queue = Front(job.queue)
      /\ job'.files = job.files /\ job'.flags = job.flags /\ job'.force = job.force
      /\ job'.output = job.output /\ job'.dirty = job.dirty /\ job'.todo = job.todo
      /\ job'.writing = job.writing /\ job'.prior = job.prior
      /\ job'.priorSig = job.priorSig /\ job'.inUse = job.inUse
      /\ job'.newSig = job.newSig /\ job'.deps = job.deps /\ job'.changed = job.changed
      /\ job'.invalidated = job.invalidated /\ job'.dependents = next
      /\ job'.replaced = job.replaced
  BY <1>2, <1>3 DEF JobFields
<1>8. Working /\ GoesOn
  BY <1>1, <1>7 DEF GoesOn, Working
<1>9. /\ Running /\ Running' /\ Working /\ Working'
      /\ M' = M /\ IsSaved' = IsSaved /\ Intact' = Intact /\ Known' = Known
      /\ \A g : /\ Key(g)' = Key(g) /\ Bytes(g)' = Bytes(g)
                /\ NewSignature(g)' = NewSignature(g)
                /\ SignatureMoved(g)' = SignatureMoved(g)
                /\ Replaces(g)' = Replaces(g)
  BY <1>8, SameBuild
<1>10. Done' = Done /\ Stored' = Stored /\ Done = job.dirty \union job.invalidated
  BY <1>3, <1>7 DEF Done, Stored
<1>11. JobShape'
  <2>1. /\ job.replaced \in BOOLEAN /\ job.force \in BOOLEAN
        /\ job.invalidated \subseteq job.files \ job.dirty
    BY <1>1, JobFact DEF IInv
  <2> QED
    BY <1>1, <1>3, <1>4, <1>5, <1>7, <1>10, <2>1, JobFact DEF IInv, JobShape
<1>12. SnapshotStands'
  BY <1>1, <1>7, <1>9, <1>10 DEF IInv, SnapshotStands, ObjectStands, SignatureStands, M
<1>13. Hits'
  BY <1>1, <1>7, <1>9, <1>10 DEF IInv, Hits, Compatible
<1>14. Compiled'
  BY <1>1, <1>7, <1>9, <1>10 DEF IInv, Compiled
<1>15. Remembered'
  BY <1>1, <1>7, <1>9, <1>10 DEF IInv, Remembered
<1>16. Unmoved'
  BY <1>1, <1>7, <1>9, <1>10 DEF IInv, Unmoved
<1>17. Cascading'
  <2>1. /\ DOMAIN job.graph = job.files /\ ~Cyclic(job.graph)
        /\ "imports" \notin lost => \A g \in job.files : job.graph[g] = Imports(source[g])
        /\ \A d \in job.changed \intersect Done :
             \/ ~SignatureMoved(d)
             \/ d \in Range(job.queue)
             \/ \A g \in job.files : d \in job.graph[g] => g \in Done \union job.dependents
        /\ \A d \in Range(job.queue) : SignatureMoved(d)
        /\ \A g \in job.dependents \union job.invalidated :
             \E d \in job.graph[g] : d \in job.files /\ SignatureMoved(d)
    BY <1>1 DEF IInv, Cascading
  <2>2. ASSUME NEW d \in job.changed \intersect Done
        PROVE  \/ ~SignatureMoved(d)
               \/ d \in Range(Front(job.queue))
               \/ \A g \in job.files : d \in job.graph[g] => g \in Done \union next
    <3>1. CASE d = origin
      BY <1>6, <1>10, <3>1
    <3>2. CASE d # origin
      BY <1>1, <1>4, <2>1, <3>2
    <3> QED
      BY <3>1, <3>2
  <2>3. \A d \in Range(Front(job.queue)) : SignatureMoved(d)
    BY <1>4, <2>1
  <2>4. ASSUME NEW g \in next \union job.invalidated
        PROVE  \E d \in job.graph[g] : d \in job.files /\ SignatureMoved(d)
    <3>1. origin \in job.files /\ SignatureMoved(origin)
      BY <1>1, <1>4, <2>1, JobFact DEF IInv
    <3> QED
      BY <1>6, <2>1, <3>1
  <2> QED
    BY <1>1, <1>7, <1>9, <1>10, <2>1, <2>2, <2>3, <2>4 DEF Cascading
<1> QED
  BY <1>8, <1>11, <1>12, <1>13, <1>14, <1>15, <1>16, <1>17, GoesOnInv

-----------------------------------------------------------------------------
(* Saving the manifest.                                                    *)

\* The cascade is over.
Converged ==
  /\ Running /\ job.pc = "cascade"
  /\ job.dependents = {} /\ job.writing = NoFile /\ job.queue = << >>

LEMMA ConvergedFact ==
  ASSUME IInv, Converged
  PROVE  /\ Running /\ Working /\ Shape /\ JobShape /\ Stored = Done
         /\ job.files \subseteq Files /\ job.files \in Invocations
         /\ Done \subseteq job.files /\ job.dirty \subseteq Done /\ job.todo = {}
         /\ \A f \in job.files \ Done :
              /\ f \in job.files \ job.dirty
              /\ Known /\ f \in DOMAIN M /\ M[f] = source[f] /\ Key(f) \in DOMAIN objects
         /\ Known => IsSaved /\ M \in Snapshots /\ manifest.flags = job.flags
         /\ source \in Snapshots /\ DOMAIN source = Files
<1>1. /\ Running /\ Working /\ Shape /\ JobShape /\ Stored = Done
      /\ job.files \subseteq Files /\ job.files \in Invocations
      /\ Done \subseteq job.files /\ job.todo = {}
  BY JobFact DEF IInv, Converged, Working, Stored
<1>2. job.dirty \subseteq Done
  BY <1>1 DEF Done
<1>3. ASSUME NEW f \in job.files \ Done
      PROVE  /\ f \in job.files \ job.dirty
             /\ Known /\ f \in DOMAIN M /\ M[f] = source[f] /\ Key(f) \in DOMAIN objects
  BY <1>1, <1>2 DEF IInv, Hits
<1>4. Known => IsSaved /\ M \in Snapshots /\ manifest.flags = job.flags
  BY <1>1, ShapeFact DEF Known, Compatible, IsSaved
<1> QED
  BY <1>1, <1>2, <1>3, <1>4, ShapeFact

\* Among files that do not import each other in a circle, a defect that each
\* of them would have from another is in none.
LEMMA NoLoop ==
  ASSUME NEW graph, ~Cyclic(graph), NEW S, S \subseteq DOMAIN graph,
         \A f \in S : graph[f] \intersect S # {}
  PROVE  S = {}
BY DEF Cyclic

\* Where the cascade did not come, the sources give what the manifest has.
LEMMA NotReached ==
  ASSUME IInv, Converged, Intact, NEW f \in job.files \ Done
  PROVE  /\ ObjectOf(f, M) = ObjectOf(f, source)
         /\ SignatureOf(f, M) = SignatureOf(f, source)
<1>1. /\ Running /\ Working /\ Shape /\ JobShape /\ Stored = Done
      /\ job.files \subseteq Files
      /\ Done \subseteq job.files
      /\ source \in Snapshots /\ DOMAIN source = Files
      /\ \A g \in job.files \ Done : g \in DOMAIN M /\ M[g] = source[g]
      /\ Known /\ M \in Snapshots
  BY ConvergedFact
<1>2. /\ DOMAIN job.graph = job.files /\ ~Cyclic(job.graph)
      /\ \A g \in job.files : job.graph[g] = Imports(source[g])
      /\ \A d \in job.changed \intersect Done :
           \/ ~SignatureMoved(d)
           \/ \A g \in job.files : d \in job.graph[g] => g \in Done
  <2>1. "imports" \notin lost /\ job.pc = "cascade" /\ Range(job.queue) = {} /\ job.dependents = {}
    BY DEF Intact, Converged, Range
  <2> QED
    BY <1>1, <2>1 DEF IInv, Cascading
<1>3. \A g \in job.files : Imports(source[g]) \subseteq job.files
  BY <1>1, ImportsInBuild
<1>4. ASSUME NEW g \in job.files \ Done, NEW d \in Imports(source[g]), d \in Done
      PROVE  SignatureOf(d, M) = SignatureOf(d, source)
  <2>1. CASE d \in job.changed
    <3>1. ~SignatureMoved(d)
      BY <1>2, <1>4, <2>1
    <3>2. d \in DOMAIN job.priorSig /\ job.priorSig[d] = NewSignature(d)
      BY <3>1 DEF SignatureMoved, SignatureChanged
    <3>3. job.priorSig[d] = SignatureOf(d, M)
      BY <1>1, <3>2 DEF IInv, Remembered
    <3> QED
      BY <3>2, <3>3 DEF NewSignature
  <2>2. CASE d \notin job.changed
    <3>1. d \in DOMAIN M /\ ObjectOf(d, M) = ObjectOf(d, source)
      BY <1>1, <1>4, <2>2 DEF IInv, Unmoved
    <3>2. d \in DOMAIN source
      BY <1>1, <1>4
    <3> QED
      BY <1>1, <3>1, <3>2, SameSignature
  <2> QED
    BY <2>1, <2>2
<1> DEFINE Stale == {g \in job.files \ Done : SignatureOf(g, M) # SignatureOf(g, source)}
<1>5. ASSUME NEW g \in job.files \ Done,
             \A d \in Imports(source[g]) : SignatureOf(d, M) = SignatureOf(d, source)
      PROVE  /\ ObjectOf(g, M) = ObjectOf(g, source)
             /\ SignatureOf(g, M) = SignatureOf(g, source)
  <2>1. g \in DOMAIN M \intersect DOMAIN source /\ M[g] = source[g]
    BY <1>1
  <2> QED
    BY <1>1, <1>5, <2>1, SameResults
<1>6. Stale = {}
  <2>1. ASSUME NEW g \in Stale PROVE job.graph[g] \intersect Stale # {}
    <3>1. PICK d \in Imports(source[g]) : SignatureOf(d, M) # SignatureOf(d, source)
      BY <1>5
    <3>2. d \notin Done /\ d \in job.files /\ d \in job.graph[g]
      BY <1>2, <1>3, <1>4, <3>1
    <3>3. d \in Stale
      BY <3>1, <3>2
    <3> QED
      BY <3>2, <3>3
  <2>2. Stale \subseteq DOMAIN job.graph
    BY <1>2
  <2> HIDE DEF Stale
  <2> QED
    BY <1>2, <2>1, <2>2, NoLoop
<1>7. \A d \in Imports(source[f]) : SignatureOf(d, M) = SignatureOf(d, source)
  BY <1>3, <1>4, <1>6
<1> QED
  BY <1>5, <1>7

\* So what the build returns is what compiling would give.
LEMMA AllFresh ==
  ASSUME IInv, Converged, NEW f \in job.files
  PROVE  /\ Key(f) \in DOMAIN objects
         /\ source[f] \in DOMAIN signatures
         /\ Intact => /\ objects[Key(f)] = Bytes(f)
                      /\ signatures[source[f]] = NewSignature(f)
<1>1. /\ Running /\ Working /\ Stored = Done
      /\ \A g \in job.files \ Done :
              Known /\ g \in DOMAIN M /\ M[g] = source[g] /\ Key(g) \in DOMAIN objects
      /\ Known => IsSaved /\ manifest.flags = job.flags
  BY ConvergedFact
<1>2. CASE f \in Done
  BY <1>1, <1>2 DEF IInv, Compiled
<1>3. CASE f \notin Done
  <2>1. /\ IsSaved /\ manifest.flags = job.flags /\ f \in DOMAIN M /\ M[f] = source[f]
        /\ Key(f) \in DOMAIN objects
    BY <1>1, <1>3
  <2>2. source[f] \in DOMAIN signatures
    BY <2>1 DEF IInv, Signed
  <2>3. Key(f) = CacheKey(M[f], manifest.flags)
    BY <2>1 DEF Key
  <2>4. ASSUME Intact
        PROVE  /\ objects[Key(f)] = Bytes(f)
               /\ signatures[source[f]] = NewSignature(f)
    <3>1. ObjectStands(f) /\ SignatureStands(f)
      BY <1>1, <1>3, <2>1, <2>4 DEF IInv, SnapshotStands
    <3>2. /\ ObjectOf(f, M) = ObjectOf(f, source)
          /\ SignatureOf(f, M) = SignatureOf(f, source)
      BY <1>3, <2>4, NotReached
    <3> QED
      BY <2>1, <2>2, <2>3, <3>1, <3>2 DEF ObjectStands, SignatureStands, Bytes, NewSignature
  <2> QED
    BY <2>1, <2>2, <2>4
<1> QED
  BY <1>2, <1>3

\* The entries of the new manifest: the files of the build as they are, and
\* the others as they were.
LEMMA NewEntries ==
  ASSUME IInv, Converged
  PROVE  /\ job.prior \in Snapshots
         /\ job.files \subseteq DOMAIN job.prior
         /\ \A f \in job.files : job.prior[f] = source[f]
         /\ \A f \in DOMAIN job.prior \ job.files :
              Known /\ f \in DOMAIN M /\ job.prior[f] = M[f]
         /\ Known => DOMAIN M \subseteq DOMAIN job.prior
<1>1. /\ Running /\ Working /\ Shape /\ JobShape
      /\ Done \subseteq job.files /\ job.files \subseteq Files
      /\ \A f \in job.files \ Done : Known /\ f \in DOMAIN M /\ M[f] = source[f]
      /\ Known => M \in Snapshots
      /\ source \in Snapshots /\ DOMAIN source = Files
  BY ConvergedFact
<1>2. /\ DOMAIN job.prior = Done \union (IF Known THEN DOMAIN M ELSE {})
      /\ job.prior = [f \in DOMAIN job.prior |-> IF f \in Done THEN source[f] ELSE M[f]]
  BY <1>1 DEF IInv, Remembered
<1>3. \A f \in DOMAIN job.prior : job.prior[f] = IF f \in Done THEN source[f] ELSE M[f]
  BY <1>2
<1>4. /\ job.files \subseteq DOMAIN job.prior
      /\ \A f \in job.files : job.prior[f] = source[f]
      /\ \A f \in DOMAIN job.prior \ job.files :
           Known /\ f \in DOMAIN M /\ job.prior[f] = M[f]
      /\ Known => DOMAIN M \subseteq DOMAIN job.prior
  BY <1>1, <1>2, <1>3
<1>5. job.prior = [f \in DOMAIN job.prior |-> job.prior[f]]
  BY <1>2
<1>6. DOMAIN job.prior \subseteq Files
  BY <1>1, <1>4, SnapshotFact
<1>7. ASSUME NEW f \in DOMAIN job.prior
      PROVE  job.prior[f] \in SourcesOf[f] /\ Imports(job.prior[f]) \subseteq DOMAIN job.prior
  <2>1. CASE f \in job.files
    <3>1. Imports(source[f]) \subseteq job.files
      BY <1>1, <2>1, ImportsInBuild
    <3>2. source[f] \in SourcesOf[f]
      BY <1>1, <2>1, SnapshotFact
    <3> QED
      BY <1>4, <2>1, <3>1, <3>2
  <2>2. CASE f \notin job.files
    <3>1. Known /\ f \in DOMAIN M /\ job.prior[f] = M[f] /\ M \in Snapshots
      BY <1>1, <1>4, <2>2
    <3>2. M[f] \in SourcesOf[f] /\ Imports(M[f]) \subseteq DOMAIN M
      BY <3>1, SnapshotFact
    <3> QED
      BY <1>4, <3>1, <3>2
  <2> QED
    BY <2>1, <2>2
<1>8. job.prior \in Snapshots
  BY <1>5, <1>6, <1>7, IsSnapshot
<1> QED
  BY <1>4, <1>8

\* An entry that is kept imports nothing, or that is forgotten.
LEMMA KeptImportsNothing ==
  ASSUME IInv, Converged, "imports" \notin lost, ~Forgets,
         NEW f \in DOMAIN job.prior \ job.files
  PROVE  Imports(M[f]) = {}
<1>1. Known /\ f \in DOMAIN M /\ IsSaved
  BY ConvergedFact, NewEntries
<1>2. Imports(M[f]) = IF f \in DOMAIN manifest.deps THEN manifest.deps[f] ELSE {}
  BY <1>1 DEF IInv, ImportsKnown
<1>3. f \in DOMAIN manifest.deps => manifest.deps[f] = {}
  BY <1>1 DEF Forgets, Known
<1> QED
  BY <1>2, <1>3

\* To the compiler the new entries are the sources, and the old ones.
LEMMA NewSnapshot ==
  ASSUME IInv, Converged, Intact, ~Forgets
  PROVE  /\ \A f \in job.files :
              /\ ObjectOf(f, job.prior) = ObjectOf(f, source)
              /\ SignatureOf(f, job.prior) = SignatureOf(f, source)
         /\ \A f \in DOMAIN job.prior \ job.files :
              /\ ObjectOf(f, job.prior) = ObjectOf(f, M)
              /\ SignatureOf(f, job.prior) = SignatureOf(f, M)
<1>1. /\ Running /\ Working /\ Shape /\ JobShape
      /\ job.files \subseteq Files
      /\ Known => M \in Snapshots
      /\ source \in Snapshots /\ DOMAIN source = Files
  BY ConvergedFact
<1>2. /\ job.prior \in Snapshots
      /\ job.files \subseteq DOMAIN job.prior
      /\ \A f \in job.files : job.prior[f] = source[f]
      /\ \A f \in DOMAIN job.prior \ job.files :
           Known /\ f \in DOMAIN M /\ job.prior[f] = M[f]
  BY NewEntries
<1>3. /\ DOMAIN job.graph = job.files /\ ~Cyclic(job.graph)
      /\ \A g \in job.files : job.graph[g] = Imports(source[g])
  <2>1. "imports" \notin lost /\ job.pc = "cascade"
    BY DEF Intact, Converged
  <2> QED
    BY <1>1, <2>1 DEF IInv, Cascading
<1>4. \A g \in job.files : Imports(source[g]) \subseteq job.files
  BY <1>1, ImportsInBuild
<1> DEFINE Bad == {g \in job.files : SignatureOf(g, job.prior) # SignatureOf(g, source)}
<1>5. ASSUME NEW g \in job.files,
             \A d \in Imports(source[g]) : SignatureOf(d, job.prior) = SignatureOf(d, source)
      PROVE  /\ ObjectOf(g, job.prior) = ObjectOf(g, source)
             /\ SignatureOf(g, job.prior) = SignatureOf(g, source)
  <2>1. g \in DOMAIN job.prior \intersect DOMAIN source /\ job.prior[g] = source[g]
    BY <1>1, <1>2
  <2> QED
    BY <1>1, <1>2, <1>5, <2>1, SameResults
<1>6. Bad = {}
  <2>1. ASSUME NEW g \in Bad PROVE job.graph[g] \intersect Bad # {}
    <3>1. PICK d \in Imports(source[g]) : SignatureOf(d, job.prior) # SignatureOf(d, source)
      BY <1>5
    <3>2. d \in Bad /\ d \in job.graph[g]
      BY <1>3, <1>4, <3>1
    <3> QED
      BY <3>2
  <2>2. Bad \subseteq DOMAIN job.graph
    BY <1>3
  <2> HIDE DEF Bad
  <2> QED
    BY <1>3, <2>1, <2>2, NoLoop
<1>7. ASSUME NEW f \in job.files
      PROVE  /\ ObjectOf(f, job.prior) = ObjectOf(f, source)
             /\ SignatureOf(f, job.prior) = SignatureOf(f, source)
  <2>1. \A d \in Imports(source[f]) : SignatureOf(d, job.prior) = SignatureOf(d, source)
    BY <1>4, <1>6
  <2> QED
    BY <1>5, <2>1
<1>8. ASSUME NEW f \in DOMAIN job.prior \ job.files
      PROVE  /\ ObjectOf(f, job.prior) = ObjectOf(f, M)
             /\ SignatureOf(f, job.prior) = SignatureOf(f, M)
  <2>1. M \in Snapshots /\ f \in DOMAIN job.prior \intersect DOMAIN M /\ job.prior[f] = M[f]
    BY <1>1, <1>2
  <2>2. Imports(job.prior[f]) = {}
    BY <2>1, KeptImportsNothing DEF Intact
  <2> QED
    BY <1>2, <2>1, <2>2, SameResults
<1> QED
  BY <1>7, <1>8

LEMMA SaveManifestInv ==
  ASSUME IInv, SaveManifest
  PROVE  IInv'
<1>1. /\ Converged
      /\ manifest' = Saved(job.flags, job.prior,
                           [f \in job.files |-> job.deps[f] \intersect DOMAIN job.prior])
      /\ job' = [job EXCEPT !.pc = "link", !.replaced = FALSE]
      /\ lost' = lost \union (IF Forgets THEN {"imports"} ELSE {})
      /\ warm' = WarmWithJob
      /\ UNCHANGED <<source, objects, signatures, executables>>
  BY DEF SaveManifest, SavedByJob, Converged
<1>2. /\ Running /\ Working /\ Shape /\ JobShape /\ Stored = Done
      /\ job.files \in Invocations
      /\ Done \subseteq job.files /\ job.dirty \subseteq Done /\ job.todo = {}
      /\ \A f \in job.files \ Done :
           Known /\ f \in DOMAIN M /\ M[f] = source[f] /\ Key(f) \in DOMAIN objects
      /\ Known => IsSaved /\ M \in Snapshots /\ manifest.flags = job.flags
  BY <1>1, ConvergedFact
<1>3. /\ job.prior \in Snapshots
      /\ job.files \subseteq DOMAIN job.prior
      /\ \A f \in job.files : job.prior[f] = source[f]
      /\ \A f \in DOMAIN job.prior \ job.files :
           Known /\ f \in DOMAIN M /\ job.prior[f] = M[f]
      /\ Known => DOMAIN M \subseteq DOMAIN job.prior
  BY <1>1, NewEntries
<1>4. /\ manifest'.state = "saved" /\ IsSaved' /\ M' = job.prior
      /\ manifest'.flags = job.flags /\ DOMAIN manifest'.deps = job.files
      /\ \A f \in job.files : manifest'.deps[f] = job.deps[f] \intersect DOMAIN job.prior
      /\ manifest' = Saved(manifest'.flags, M', manifest'.deps)
  BY <1>1 DEF Saved, IsSaved, M
<1>5. DOMAIN job = JobFields /\ job = [x \in JobFields |-> job[x]]
  BY <1>2, JobFact
<1>6. /\ DOMAIN job' = JobFields /\ job' = [x \in JobFields |-> job'[x]]
      /\ job'.pc = "link" /\ job'.replaced = FALSE
      /\ job'.files = job.files /\ job'.flags = job.flags /\ job'.force = job.force
      /\ job'.output = job.output /\ job'.dirty = job.dirty /\ job'.todo = job.todo
      /\ job'.writing = job.writing /\ job'.dependents = job.dependents
      /\ job'.invalidated = job.invalidated /\ job'.changed = job.changed
      /\ job'.queue = job.queue /\ job'.prior = job.prior
  BY <1>1, <1>5 DEF JobFields
<1>7. /\ Running' /\ ~Working' /\ Done' = Done /\ Stored' = Stored
      /\ \A f : Key(f)' = Key(f) /\ Bytes(f)' = Bytes(f)
  <2>1. "files" \in DOMAIN job' /\ "files" \notin DOMAIN NoJob
    BY <1>6 DEF JobFields, NoJob
  <2> QED
    BY <1>1, <1>6, <2>1 DEF Running, Working, Done, Stored, Key, Bytes
<1>8. /\ "imports" \notin lost' => "imports" \notin lost /\ ~Forgets
      /\ Intact' => Intact /\ ~Forgets
      /\ lost' = {} => lost = {} /\ Intact /\ ~Forgets
  BY <1>1 DEF Intact
<1>9. \A f \in job.files :
        /\ Key(f) \in DOMAIN objects
        /\ source[f] \in DOMAIN signatures
        /\ Intact => /\ objects[Key(f)] = Bytes(f)
                     /\ signatures[source[f]] = NewSignature(f)
  BY <1>1, AllFresh
<1>10. Shape'
  <2>1. job.flags \in Flags
    BY <1>2, JobFact
  <2>2. lost' \subseteq {"replaced", "imports", "unlinked"}
    BY <1>1, <1>2 DEF Shape
  <2>3. /\ manifest'.flags \in Flags /\ M' \in Snapshots
        /\ DOMAIN manifest'.deps \subseteq DOMAIN M'
        /\ \A f \in DOMAIN manifest'.deps : manifest'.deps[f] \subseteq DOMAIN M'
    BY <1>3, <1>4, <2>1
  <2>4. /\ source' \in Snapshots /\ DOMAIN source' = Files
        /\ DOMAIN executables' \subseteq Outputs
    BY <1>1, <1>2 DEF Shape
  <2> QED
    BY <1>4, <2>2, <2>3, <2>4 DEF Shape
<1>11. JobShape'
  BY <1>1, <1>2, <1>6, <1>7, JobFact DEF Converged, JobShape
<1>12. Signed'
  <2> SUFFICES ASSUME NEW f \in DOMAIN job.prior
               PROVE  job.prior[f] \in DOMAIN signatures
    BY <1>1, <1>4 DEF Signed
  <2>1. CASE f \in job.files
    BY <1>3, <1>9, <2>1
  <2>2. CASE f \notin job.files
    BY <1>2, <1>3, <2>2 DEF IInv, Signed
  <2> QED
    BY <2>1, <2>2
<1>13. ImportsKnown'
  <2> SUFFICES ASSUME "imports" \notin lost', NEW f \in DOMAIN job.prior
               PROVE  Imports(job.prior[f]) =
                        IF f \in job.files THEN job.deps[f] \intersect DOMAIN job.prior ELSE {}
    BY <1>4 DEF ImportsKnown
  <2>1. CASE f \in job.files
    <3>1. job.deps[f] = Imports(source[f])
      BY <1>2, <1>8, <2>1 DEF IInv, Remembered
    <3>2. Imports(source[f]) \subseteq job.files
      BY <1>2, <2>1, ImportsInBuild
    <3> QED
      BY <1>3, <2>1, <3>1, <3>2
  <2>2. CASE f \notin job.files
    <3>1. Imports(M[f]) = {}
      BY <1>1, <1>8, <2>2, KeptImportsNothing
    <3> QED
      BY <1>3, <2>2, <3>1
  <2> QED
    BY <2>1, <2>2
<1>14. SnapshotStands'
  <2> SUFFICES ASSUME Intact', NEW f \in DOMAIN job.prior
               PROVE  ObjectStands(f)' /\ SignatureStands(f)'
    BY <1>4 DEF SnapshotStands
  <2>1. Intact /\ ~Forgets
    BY <1>8
  <2>2. CASE f \in job.files
    <3>1. /\ ObjectOf(f, job.prior) = ObjectOf(f, source)
          /\ SignatureOf(f, job.prior) = SignatureOf(f, source)
      BY <1>1, <2>1, <2>2, NewSnapshot
    <3>2. CacheKey(job.prior[f], job.flags) = Key(f)
      BY <1>3, <2>2 DEF Key
    <3> QED
      BY <1>1, <1>3, <1>4, <1>9, <2>1, <2>2, <3>1, <3>2
         DEF ObjectStands, SignatureStands, Bytes, NewSignature
  <2>3. CASE f \notin job.files
    <3>1. /\ ObjectOf(f, job.prior) = ObjectOf(f, M)
          /\ SignatureOf(f, job.prior) = SignatureOf(f, M)
      BY <1>1, <2>1, <2>3, NewSnapshot
    <3>2. /\ IsSaved /\ f \in DOMAIN M /\ job.prior[f] = M[f] /\ manifest.flags = job.flags
      BY <1>2, <1>3, <2>3
    <3>3. ObjectStands(f) /\ SignatureStands(f)
      BY <1>2, <2>1, <2>3, <3>2 DEF IInv, SnapshotStands
    <3> QED
      BY <1>1, <1>4, <3>1, <3>2, <3>3 DEF ObjectStands, SignatureStands
  <2> QED
    BY <2>2, <2>3
<1>15. /\ Hits' /\ Compiled' /\ Remembered' /\ Unmoved' /\ Cascading' /\ WarmFilesHit'
  BY <1>6, <1>7 DEF Hits, Compiled, Remembered, Unmoved, Cascading, WarmFilesHit
<1>16. AfterSave'
  BY <1>1, <1>3, <1>4, <1>6 DEF AfterSave, Compatible
<1>17. FreshObjects'
  BY <1>1, <1>6, <1>7, <1>8, <1>9 DEF FreshObjects
<1>18. WarmIsStored'
  <2> SUFFICES ASSUME NEW f \in DOMAIN warm'
               PROVE  /\ f \in DOMAIN job.prior /\ job.prior[f] = warm'[f]
                      /\ CacheKey(job.prior[f], job.flags) \in DOMAIN objects
    BY <1>1, <1>4 DEF WarmIsStored
  <2>1. CASE f \in job.files
    <3>1. warm'[f] = source[f]
      BY <1>1, <2>1 DEF WarmWithJob
    <3> QED
      BY <1>3, <1>9, <2>1, <3>1 DEF Key
  <2>2. CASE f \notin job.files
    <3>1. ~job.force /\ f \in DOMAIN warm /\ warm'[f] = warm[f]
      BY <1>1, <2>2, EmptyDomain DEF WarmWithJob
    <3>2. /\ IsSaved /\ f \in DOMAIN M /\ M[f] = warm[f]
          /\ CacheKey(M[f], manifest.flags) \in DOMAIN objects
      BY <3>1 DEF IInv, WarmIsStored
    <3>3. Known
      BY <1>2, <3>1, <3>2, ShapeFact DEF IInv, Hits, Known
    <3> QED
      BY <1>2, <1>3, <2>2, <3>1, <3>2, <3>3
  <2> QED
    BY <2>1, <2>2
<1>19. ProgramStands'
  <2> SUFFICES ASSUME OneProgram, lost' = {}, NEW o \in DOMAIN executables,
                      NEW f \in DOMAIN job.prior, {f} \in Invocations,
                      ~(job.changed # {} /\ f \in job.files)
               PROVE  executables[o] = <<ObjectOf(f, job.prior), job.flags>>
    BY <1>1, <1>4, <1>6, <1>7 DEF ProgramStands, Unlinked
  <2>1. lost = {} /\ Intact /\ ~Forgets
    BY <1>8
  <2>2. ~Unlinked
    BY <1>2 DEF Unlinked, Working
  <2>3. CASE f \in job.files
    <3>1. job.changed = {}
      BY <2>3
    <3>2. Known /\ f \in DOMAIN M /\ ObjectOf(f, M) = ObjectOf(f, source)
      <4>1. CASE f \in Done
        BY <1>2, <2>1, <3>1, <4>1 DEF IInv, Unmoved
      <4>2. CASE f \notin Done
        BY <1>1, <1>2, <2>1, <2>3, <4>2, NotReached
      <4> QED
        BY <4>1, <4>2
    <3>3. executables[o] = <<ObjectOf(f, M), manifest.flags>>
      BY <1>2, <2>1, <2>2, <3>2 DEF IInv, ProgramStands
    <3>4. ObjectOf(f, job.prior) = ObjectOf(f, source)
      BY <1>1, <2>1, <2>3, NewSnapshot
    <3> QED
      BY <1>2, <3>2, <3>3, <3>4
  <2>4. CASE f \notin job.files
    <3>1. Known /\ f \in DOMAIN M
      BY <1>3, <2>4
    <3>2. executables[o] = <<ObjectOf(f, M), manifest.flags>>
      BY <1>2, <2>1, <2>2, <3>1 DEF IInv, ProgramStands
    <3>3. ObjectOf(f, job.prior) = ObjectOf(f, M)
      BY <1>1, <2>1, <2>4, NewSnapshot
    <3> QED
      BY <1>2, <3>1, <3>2, <3>3
  <2> QED
    BY <2>3, <2>4
<1> QED
  BY <1>10, <1>11, <1>12, <1>13, <1>14, <1>15, <1>16, <1>17, <1>18, <1>19 DEF IInv

-----------------------------------------------------------------------------
(* Starting a build.                                                       *)

LEMMA StartBuildInv ==
  ASSUME IInv, NEW files \in Invocations, NEW flags \in Flags, NEW force \in BOOLEAN,
         NEW output \in Outputs \union {NoOutput}, StartBuild(files, flags, force, output)
  PROVE  IInv'
<1> DEFINE discard == ~force /\ ~Compatible(flags) /\ manifest # Missing
           known == ~force /\ Compatible(flags)
           prior == IF known THEN manifest.entries ELSE EmptyMap
           hits == {f \in files \intersect DOMAIN prior :
                      /\ prior[f] = source[f]
                      /\ CacheKey(source[f], flags) \in DOMAIN objects}
           signed == {f \in files \intersect DOMAIN prior : prior[f] \in DOMAIN signatures}
           priorSig == [f \in signed |-> signatures[prior[f]]]
           inUse == [f \in hits |-> objects[CacheKey(source[f], flags)]]
           newSig == Only(priorSig, hits)
           deps == [f \in files |-> IF f \in hits /\ f \in DOMAIN manifest.deps
                                    THEN manifest.deps[f] ELSE {}]
<1>1. /\ ~Running /\ (output = NoOutput <=> Cardinality(files) # 1)
      /\ manifest' = IF discard THEN Missing ELSE manifest
      /\ objects' = IF discard THEN EmptyMap ELSE objects
      /\ signatures' = IF discard THEN EmptyMap ELSE signatures
      /\ lost' = IF discard THEN {} ELSE lost
      /\ warm' = IF discard THEN EmptyMap ELSE warm
      /\ UNCHANGED <<source, executables>>
  BY DEF StartBuild
<1>2. job' = [pc |-> "dirty", files |-> files, flags |-> flags, force |-> force,
              output |-> output, dirty |-> files \ hits, todo |-> files \ hits,
              writing |-> NoFile, prior |-> prior, priorSig |-> priorSig,
              inUse |-> inUse, newSig |-> newSig, deps |-> deps,
              graph |-> EmptyMap, changed |-> {}, invalidated |-> {}, queue |-> << >>,
              dependents |-> {}, replaced |-> FALSE]
  BY DEF StartBuild
<1>3. Shape /\ (IsSaved => M \in Snapshots) /\ ~Unlinked
  BY <1>1, ShapeFact DEF IInv, Unlinked
<1>4. known => /\ ~discard /\ IsSaved /\ manifest.flags = flags /\ prior = M
  BY DEF Compatible, IsSaved, M
<1>5. ~known => DOMAIN prior = {} /\ prior = EmptyMap
  BY EmptyDomain
<1>6. discard => ~IsSaved' /\ DOMAIN warm' = {}
  BY <1>1, EmptyDomain DEF IsSaved, Missing
<1>7. /\ hits \subseteq files /\ hits \subseteq DOMAIN prior
      /\ \A f \in hits : prior[f] = source[f] /\ CacheKey(source[f], flags) \in DOMAIN objects
      /\ \A f \in files \ hits : f \in DOMAIN prior =>
           prior[f] # source[f] \/ CacheKey(source[f], flags) \notin DOMAIN objects
      /\ DOMAIN priorSig = signed /\ \A f \in signed : priorSig[f] = signatures[prior[f]]
      /\ DOMAIN inUse = hits /\ \A f \in hits : inUse[f] = objects[CacheKey(source[f], flags)]
      /\ DOMAIN deps = files
      /\ \A f \in hits : deps[f] = IF f \in DOMAIN manifest.deps THEN manifest.deps[f] ELSE {}
  OBVIOUS
<1>8. signed = IF known THEN files \intersect DOMAIN M ELSE {}
  BY <1>4, <1>5 DEF IInv, Signed
<1>9. Compatible(flags)' /\ ~force <=> known
  BY <1>1 DEF Compatible, Missing
<1>10. ~force /\ ~known => manifest' = Missing
  BY <1>1
<1> HIDE DEF discard, known, prior, hits, signed, priorSig, inUse, newSig, deps
<1>11. /\ DOMAIN job' = JobFields /\ job' = [x \in JobFields |-> job'[x]]
       /\ job'.pc = "dirty" /\ job'.files = files /\ job'.flags = flags /\ job'.force = force
       /\ job'.output = output /\ job'.dirty = files \ hits /\ job'.todo = files \ hits
       /\ job'.writing = NoFile /\ job'.prior = prior /\ job'.priorSig = priorSig
       /\ job'.inUse = inUse /\ job'.deps = deps
       /\ job'.changed = {} /\ job'.invalidated = {} /\ job'.queue = << >>
       /\ job'.dependents = {} /\ job'.replaced = FALSE
  BY <1>2 DEF JobFields
<1>12. /\ Running' /\ Working' /\ ~Unlinked' /\ Done' = {} /\ Stored' = {}
       /\ (Known' <=> known)
  <2>1. "files" \in DOMAIN job' /\ "files" \notin DOMAIN NoJob
    BY <1>11 DEF JobFields, NoJob
  <2>2. Known' <=> known
    BY <1>9, <1>11 DEF Known, Compatible
  <2> QED
    BY <1>11, <2>1, <2>2 DEF Running, Working, Unlinked, Done, Stored
<1>13. ~discard => /\ M' = M /\ IsSaved' = IsSaved /\ Intact' = Intact /\ manifest' = manifest
                   /\ objects' = objects /\ signatures' = signatures /\ lost' = lost
                   /\ warm' = warm
  BY <1>1 DEF M, IsSaved, Intact
<1>14. known => \A f \in DOMAIN M : Intact => ObjectStands(f) /\ SignatureStands(f)
  BY <1>1, <1>4 DEF IInv, SnapshotStands
<1>15. Shape'
  <2>1. CASE discard
    BY <1>1, <1>3, <2>1 DEF Shape
  <2>2. CASE ~discard
    BY <1>1, <1>3, <1>13, <2>2 DEF Shape
  <2> QED
    BY <2>1, <2>2
<1>16. JobShape'
  <2>1. << >> \in Seq(Done')
    OBVIOUS
  <2> QED
    BY <1>1, <1>7, <1>11, <1>12, <2>1 DEF JobShape
<1>17. Signed' /\ ImportsKnown' /\ WarmIsStored'
  BY <1>6, <1>13 DEF IInv, Signed, ImportsKnown, WarmIsStored
<1>18. SnapshotStands'
  BY <1>1, <1>6, <1>13 DEF IInv, SnapshotStands, ObjectStands, SignatureStands, M
<1>19. Hits'
  <2> SUFFICES /\ ~force /\ ~known => manifest' = Missing
               /\ hits # {} => known
               /\ \A f \in hits :
                    /\ f \in DOMAIN M' /\ M'[f] = source[f]
                    /\ CacheKey(source[f], flags) \in DOMAIN objects' /\ f \in DOMAIN inUse
                    /\ Intact' => inUse[f] = <<ObjectOf(f, M'), flags>>
    BY <1>1, <1>7, <1>9, <1>11, <1>12 DEF Hits, Key, Compatible
  <2>1. hits # {} => known
    BY <1>5, <1>7
  <2>2. ASSUME NEW f \in hits
        PROVE  /\ f \in DOMAIN M' /\ M'[f] = source[f]
               /\ CacheKey(source[f], flags) \in DOMAIN objects' /\ f \in DOMAIN inUse
               /\ Intact' => inUse[f] = <<ObjectOf(f, M'), flags>>
    <3>1. known /\ f \in DOMAIN M /\ M[f] = source[f] /\ manifest.flags = flags /\ ~discard
      BY <1>4, <1>7, <2>1
    <3>2. CacheKey(source[f], flags) \in DOMAIN objects
          /\ inUse[f] = objects[CacheKey(source[f], flags)] /\ f \in DOMAIN inUse
      BY <1>7
    <3>3. Intact => inUse[f] = <<ObjectOf(f, M), flags>>
      BY <1>14, <3>1, <3>2 DEF ObjectStands
    <3> QED
      BY <1>13, <3>1, <3>2, <3>3
  <2> QED
    BY <1>10, <2>1, <2>2
<1>20. Compiled' /\ Unmoved' /\ Cascading' /\ AfterSave' /\ FreshObjects'
  BY <1>11, <1>12 DEF Compiled, Unmoved, Cascading, AfterSave, FreshObjects
<1>21. Remembered'
  <2>1. DOMAIN prior = IF known THEN DOMAIN M' ELSE {}
    BY <1>4, <1>5, <1>13
  <2>2. prior = [f \in DOMAIN prior |-> IF f \in {} THEN source[f] ELSE M'[f]]
    <3>1. CASE known
      BY <1>3, <1>4, <1>13, <3>1, SnapshotFact
    <3>2. CASE ~known
      BY <1>5, <3>2, EmptyDomain DEF EmptyMap
    <3> QED
      BY <3>1, <3>2
  <2>3. DOMAIN priorSig = IF known THEN files \intersect DOMAIN M' ELSE {}
    BY <1>4, <1>7, <1>8, <1>13
  <2>4. ASSUME Intact', NEW f \in DOMAIN priorSig
        PROVE  priorSig[f] = SignatureOf(f, M')
    <3>1. known /\ f \in signed /\ f \in DOMAIN M /\ prior = M /\ ~discard /\ IsSaved
      BY <1>4, <1>7, <1>8, <2>4
    <3>2. priorSig[f] = signatures[M[f]]
      BY <1>7, <3>1
    <3>3. M[f] \in DOMAIN signatures /\ SignatureStands(f)
      BY <1>13, <1>14, <2>4, <3>1 DEF IInv, Signed
    <3> QED
      BY <1>13, <3>1, <3>2, <3>3 DEF SignatureStands
  <2>5. ASSUME "imports" \notin lost', NEW f \in hits
        PROVE  deps[f] = Imports(source[f])
    <3>1. known /\ f \in DOMAIN M /\ M[f] = source[f] /\ ~discard /\ IsSaved
      BY <1>4, <1>5, <1>7
    <3>2. Imports(M[f]) = IF f \in DOMAIN manifest.deps THEN manifest.deps[f] ELSE {}
      BY <1>13, <2>5, <3>1 DEF IInv, ImportsKnown
    <3> QED
      BY <1>7, <3>1, <3>2
  <2>6. files \ (files \ hits) = hits
    BY <1>7
  <2> QED
    BY <1>1, <1>7, <1>11, <1>12, <2>1, <2>2, <2>3, <2>4, <2>5, <2>6 DEF Remembered
<1>22. WarmFilesHit'
  <2> SUFFICES ASSUME ~force, NEW f \in files \ hits, f \in DOMAIN warm'
               PROVE  warm'[f] # source[f]
    BY <1>1, <1>11 DEF WarmFilesHit
  <2>1. ~discard /\ warm' = warm
    BY <1>6, <1>13
  <2>2. /\ IsSaved /\ f \in DOMAIN M /\ M[f] = warm[f]
        /\ CacheKey(M[f], manifest.flags) \in DOMAIN objects
    BY <2>1 DEF IInv, WarmIsStored
  <2>3. known
    BY <1>3, <1>10, <1>13, <2>1, <2>2, ShapeFact
  <2> QED
    BY <1>4, <1>7, <2>1, <2>2, <2>3
<1>23. ProgramStands'
  BY <1>1, <1>3, <1>6, <1>12, <1>13 DEF IInv, ProgramStands
<1> QED
  BY <1>15, <1>16, <1>17, <1>18, <1>19, <1>20, <1>21, <1>22, <1>23 DEF IInv

-----------------------------------------------------------------------------
(* The theorems.                                                           *)

LEMMA StutterInv ==
  ASSUME IInv, UNCHANGED vars
  PROVE  IInv'
<1>1. /\ UNCHANGED <<source, manifest, objects, signatures, executables, job, lost, warm>>
  BY DEF vars
<1>2. /\ M' = M /\ IsSaved' = IsSaved /\ Running' = Running /\ Working' = Working
      /\ Known' = Known /\ Done' = Done /\ Stored' = Stored /\ Intact' = Intact
      /\ Unlinked' = Unlinked
      /\ \A f : /\ Key(f)' = Key(f) /\ Bytes(f)' = Bytes(f)
                /\ NewSignature(f)' = NewSignature(f)
                /\ SignatureMoved(f)' = SignatureMoved(f)
                /\ Replaces(f)' = Replaces(f)
                /\ ObjectStands(f)' = ObjectStands(f)
                /\ SignatureStands(f)' = SignatureStands(f)
  <2>1. M' = M /\ IsSaved' = IsSaved /\ Running' = Running /\ Intact' = Intact
    BY <1>1 DEF M, IsSaved, Running, Intact
  <2>2. /\ Working' = Working /\ Known' = Known /\ Done' = Done /\ Unlinked' = Unlinked
        /\ Stored' = Stored
    BY <1>1 DEF Working, Running, Known, Compatible, Done, Unlinked, Stored
  <2>3. ASSUME NEW f
        PROVE  /\ Key(f)' = Key(f) /\ Bytes(f)' = Bytes(f)
               /\ NewSignature(f)' = NewSignature(f)
               /\ SignatureMoved(f)' = SignatureMoved(f)
               /\ Replaces(f)' = Replaces(f)
               /\ ObjectStands(f)' = ObjectStands(f)
               /\ SignatureStands(f)' = SignatureStands(f)
    BY <1>1 DEF Key, Bytes, NewSignature, SignatureMoved, SignatureChanged, Replaces,
       ObjectStands, SignatureStands, M
  <2> QED
    BY <2>1, <2>2, <2>3
<1>3. Shape' /\ JobShape'
  BY <1>1, <1>2 DEF IInv, Shape, JobShape
<1>4. Signed' /\ ImportsKnown' /\ SnapshotStands' /\ WarmIsStored' /\ ProgramStands'
  BY <1>1, <1>2 DEF IInv, Signed, ImportsKnown, SnapshotStands, WarmIsStored, ProgramStands
<1>5. Hits' /\ Compiled' /\ Remembered' /\ Unmoved'
  BY <1>1, <1>2 DEF IInv, Hits, Compiled, Remembered, Unmoved, Compatible
<1>6. Cascading'
  BY <1>1, <1>2 DEF IInv, Cascading
<1>7. AfterSave' /\ FreshObjects' /\ WarmFilesHit'
  BY <1>1, <1>2 DEF IInv, AfterSave, FreshObjects, WarmFilesHit, Compatible
<1> QED
  BY <1>3, <1>4, <1>5, <1>6, <1>7 DEF IInv

LEMMA NextInv ==
  ASSUME IInv, [Next]_vars
  PROVE  IInv'
<1>1. ASSUME NEW files \in Invocations, NEW flags \in Flags, NEW force \in BOOLEAN,
             NEW output \in Outputs \union {NoOutput},
             StartBuild(files, flags, force, output)
      PROVE  IInv'
  BY <1>1, StartBuildInv
<1>2. ASSUME NEW f \in Files, CompileFails(f) PROVE IInv'
  BY <1>2, FailInv
<1>3. ASSUME NEW f \in Files, StoreObject(f) PROVE IInv'
  BY <1>3, StoreObjectInv
<1>4. ASSUME NEW f \in Files, StoreSignature(f) PROVE IInv'
  BY <1>4, StoreSignatureInv
<1>5. ASSUME SeedCascade PROVE IInv'
  BY <1>5, SeedCascadeInv, FailInv
<1>6. ASSUME PopOrigin PROVE IInv'
  BY <1>6, PopOriginInv
<1>7. ASSUME SaveManifest PROVE IInv'
  BY <1>7, SaveManifestInv
<1>8. ASSUME SkipLink \/ Link PROVE IInv'
  BY <1>8, ReportInv
<1>9. ASSUME LinkFails \/ Crash PROVE IInv'
  BY <1>9, FailInv
<1>10. ASSUME Return PROVE IInv'
  BY <1>10, ReturnInv
<1>11. ASSUME NEW f \in Files, NEW s \in SourcesOf[f], Edit(f, s) PROVE IInv'
  BY <1>11, EditInv
<1>12. ASSUME Clean \/ CorruptManifest PROVE IInv'
  BY <1>12, CleanInv
<1>13. ASSUME NEW k \in DOMAIN objects, LoseObject(k) PROVE IInv'
  BY <1>13, LoseObjectInv
<1>14. ASSUME NEW o \in DOMAIN executables, LoseProgram(o) PROVE IInv'
  BY <1>14, LoseProgramInv
<1>15. CASE UNCHANGED vars
  BY <1>15, StutterInv
<1> QED
  BY <1>1, <1>2, <1>3, <1>4, <1>5, <1>6, <1>7, <1>8, <1>9, <1>10, <1>11, <1>12, <1>13,
     <1>14, <1>15 DEF Next

\* The disk, the memory of the build in progress and the history agree in
\* every reachable state.
THEOREM BuildCacheInvariant == Spec => []IInv
<1>1. Init => IInv
  BY InitInv
<1>2. IInv /\ [Next]_vars => IInv'
  BY NextInv
<1> QED
  BY <1>1, <1>2, PTL DEF Spec

\* Every part of the state is well formed, in and between builds.
THEOREM BuildCacheTypeCorrect == Spec => []TypeOK
<1>1. IInv => TypeOK
  <2> SUFFICES ASSUME IInv PROVE TypeOK
    OBVIOUS
  <2>1. /\ \A f \in Files : source[f] \in SourcesOf[f]
        /\ manifest.state \in {"missing", "corrupt", "saved"}
        /\ manifest.state = "saved" =>
             /\ manifest.flags \in Flags
             /\ DOMAIN manifest.entries \subseteq Files
             /\ DOMAIN manifest.deps \subseteq DOMAIN manifest.entries
             /\ \A f \in DOMAIN manifest.deps : manifest.deps[f] \subseteq DOMAIN manifest.entries
        /\ DOMAIN executables \subseteq Outputs
        /\ lost \subseteq {"replaced", "imports", "unlinked"}
    <3>1. Shape
      BY DEF IInv
    <3>2. \A f \in Files : source[f] \in SourcesOf[f]
      BY <3>1, ShapeFact, SnapshotFact
    <3>3. M \in Snapshots => DOMAIN M \subseteq Files
      BY SnapshotFact
    <3> QED
      BY <3>1, <3>2, <3>3 DEF Shape, Missing, Corrupt, Saved, M
  <2>2. ASSUME Running
        PROVE  /\ job.pc \in {"dirty", "cascade", "link", "reported"}
               /\ job.files \in Invocations
               /\ job.todo \subseteq job.dirty /\ job.dirty \subseteq job.files
               /\ job.dependents \union job.invalidated \subseteq job.files \ job.dirty
               /\ job.changed \subseteq job.dirty \union job.invalidated \union {job.writing}
               /\ job.pc # "dirty" => job.files \subseteq DOMAIN job.prior
    <3>1. /\ job.pc \in {"dirty", "cascade", "link", "reported"}
          /\ job.files \in Invocations
          /\ job.todo \subseteq job.dirty /\ job.dirty \subseteq job.files
          /\ job.dependents \union job.invalidated \subseteq job.files \ job.dirty
          /\ job.changed \subseteq Stored
          /\ job.pc # "dirty" => job.todo = {}
      BY <2>2, JobFact DEF IInv
    <3>2. job.changed \subseteq job.dirty \union job.invalidated \union {job.writing}
      BY <3>1 DEF Stored, Done
    <3>3. ASSUME job.pc = "cascade", NEW f \in job.files
          PROVE  f \in DOMAIN job.prior
      <4>1. Working
        BY <2>2, <3>3 DEF Working
      <4>2. f \in Done \/ f \in job.files \ job.dirty
        BY <3>1, <3>3 DEF Done
      <4>3. f \in Done \/ (Known /\ f \in DOMAIN M)
        BY <4>1, <4>2 DEF IInv, Hits
      <4> QED
        BY <4>1, <4>3 DEF IInv, Remembered
    <3>4. ASSUME job.pc \in {"link", "reported"}
          PROVE  job.files \subseteq DOMAIN job.prior
      BY <2>2, <3>4 DEF IInv, AfterSave
    <3> QED
      BY <3>1, <3>2, <3>3, <3>4
  <2> QED
    BY <2>1, <2>2 DEF TypeOK
<1> QED
  BY <1>1, BuildCacheInvariant, PTL

\* A build that succeeds returns for each of its files the object the
\* compiler makes of the sources as they are, whatever was cached, edited,
\* lost, forced or cut short before, unless the cache was broken in one of
\* the two ways Intact names.
THEOREM BuildCacheFreshObjects == Spec => []FreshObjects
<1>1. IInv => FreshObjects
  BY DEF IInv
<1> QED
  BY <1>1, BuildCacheInvariant, PTL

\* Between builds the objects and signatures the manifest names are all of
\* one state of the project.
THEOREM BuildCacheManifestIsSnapshot == Spec => []ManifestIsSnapshot
<1>1. IInv => ManifestIsSnapshot
  BY DEF IInv, SnapshotStands, ManifestIsSnapshot, ObjectStands, SignatureStands, IsSaved, M
<1> QED
  BY <1>1, BuildCacheInvariant, PTL

\* What was built, has not changed and has not been lost is not looked at
\* again, whatever else was built in between.
THEOREM BuildCacheWarmFilesHit == Spec => []WarmFilesHit
<1>1. IInv => WarmFilesHit
  BY DEF IInv
<1> QED
  BY <1>1, BuildCacheInvariant, PTL

\* The cascade compiles a file again only if it imports one whose signature
\* is not what the manifest has.
THEOREM BuildCacheOnlyInterfacesInvalidate == Spec => []OnlyInterfacesInvalidate
<1>1. IInv => OnlyInterfacesInvalidate
  <2> SUFFICES ASSUME IInv, Running, job.pc = "cascade", Intact, NEW f \in job.invalidated
               PROVE  \E d \in Imports(source[f]) \intersect job.files :
                        \/ d \notin DOMAIN manifest.entries
                        \/ SignatureOf(d, manifest.entries) # NewSignature(d)
    BY DEF OnlyInterfacesInvalidate
  <2>1. Working /\ f \in job.files /\ f \in job.files \ job.dirty
    BY JobFact DEF IInv, Working
  <2>2. PICK d \in job.graph[f] : d \in job.files /\ SignatureMoved(d)
    BY DEF IInv, Cascading
  <2>3. job.graph[f] = Imports(source[f])
    BY <2>1 DEF IInv, Cascading, Intact
  <2>4. Known
    BY <2>1 DEF IInv, Hits
  <2>5. CASE d \notin DOMAIN job.priorSig
    BY <2>1, <2>2, <2>3, <2>4, <2>5 DEF IInv, Remembered, M
  <2>6. CASE d \in DOMAIN job.priorSig
    <3>1. job.priorSig[d] # NewSignature(d)
      BY <2>2, <2>6 DEF SignatureMoved, SignatureChanged
    <3>2. job.priorSig[d] = SignatureOf(d, M)
      BY <2>1, <2>6 DEF IInv, Remembered
    <3> QED
      BY <2>2, <2>3, <3>1, <3>2 DEF M
  <2> QED
    BY <2>5, <2>6
<1> QED
  BY <1>1, BuildCacheInvariant, PTL

\* The program ruxenc has just reported is the one its source gives: if one
\* program is built, to one path, and no build was cut off between saving
\* the manifest and linking.
THEOREM BuildCacheReportedIsCurrent ==
  ASSUME OneProgram
  PROVE  Spec => []ReportedIsCurrent
<1>1. IInv => ReportedIsCurrent
  <2> SUFFICES ASSUME IInv, Running, job.pc = "reported", lost = {}, NEW f \in job.files
               PROVE  executables[job.output] = Bytes(f)
    BY DEF ReportedIsCurrent
  <2>1. /\ Compatible(job.flags) /\ f \in DOMAIN M /\ M[f] = source[f]
        /\ job.output \in DOMAIN executables
    BY DEF IInv, AfterSave
  <2>2. IsSaved /\ manifest.flags = job.flags /\ Intact /\ ~job.replaced /\ ~Unlinked
    BY <2>1, JobFact DEF IInv, Compatible, IsSaved, Intact, Unlinked
  <2>3. {f} \in Invocations
    <3>1. /\ job.files \in Invocations /\ Cardinality(job.files) = 1
          /\ IsFiniteSet(job.files)
      BY JobFact, FilesFact DEF IInv
    <3>2. PICK g : job.files = {g}
      BY <3>1, FS_Singleton
    <3> QED
      BY <3>1, <3>2
  <2>4. executables[job.output] = <<ObjectOf(f, M), manifest.flags>>
    BY <2>1, <2>2, <2>3, OneProgram DEF IInv, ProgramStands
  <2>5. Key(f) \in DOMAIN objects /\ objects[Key(f)] = Bytes(f)
    BY <2>2 DEF IInv, FreshObjects
  <2>6. Key(f) = CacheKey(M[f], manifest.flags) /\ ObjectStands(f)
    BY <2>1, <2>2 DEF IInv, SnapshotStands, Key
  <2> QED
    BY <2>4, <2>5, <2>6 DEF ObjectStands
<1> QED
  BY <1>1, BuildCacheInvariant, PTL

=============================================================================
