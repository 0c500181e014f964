---------------------------- MODULE MCBuildCache ----------------------------
(***************************************************************************)
(* Projects for BuildCache.  app imports mid, mid imports lib; test is     *)
(* built alone, by ruxenc, and test2 imports itself.  A signature can      *)
(* change only together with the object it belongs to.                     *)
(***************************************************************************)
EXTENDS BuildCache

app == 1
lib == 2
mid == 3
test == 4

ProjectSources ==
  (app :> {"app1"}) @@ (lib :> {"lib1", "lib2", "lib3"})
  @@ (mid :> {"mid1", "mid2"}) @@ (test :> {"test1", "test2"})

MCImports(s) ==
  CASE s = "app1" -> {mid}
    [] s \in {"mid1", "mid2"} -> {lib}
    [] s = "test2" -> {test}
    [] OTHER -> {}

LibSignature(s) == CASE s = "lib2" -> "T" [] s = "lib3" -> "U" [] OTHER -> "S"

\* mid1 hands on what lib declares; mid2 declares S whatever lib does, so to
\* go from one to the other may change the body only.
MidSignature(src) == IF src[mid] = "mid1" THEN LibSignature(src[lib]) ELSE "S"

MCSignatureOf(f, src) ==
  CASE f = lib -> LibSignature(src[lib])
    [] f = mid -> MidSignature(src)
    [] OTHER -> "main"

\* An object depends on its source and on what it imports declares.
MCObjectOf(f, src) ==
  CASE f = app -> <<src[app], MidSignature(src)>>
    [] f = mid -> <<src[mid], LibSignature(src[lib])>>
    [] OTHER -> <<src[f]>>

\* app does not compile against the signature T.
MCCompiles(f, src) ==
  CASE f = app -> MidSignature(src) # "T"
    [] OTHER -> TRUE


ProjectAndTest == { {app, lib, mid}, {test} }
=============================================================================
