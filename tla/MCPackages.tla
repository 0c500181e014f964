---------------------------- MODULE MCPackages ----------------------------
(* Instances of Packages for TLC.                                          *)
EXTENDS Packages, TLC

\* Piece 1 needs 2, from its second revision on at a revision of 2; 2 comes
\* with the sources of 3, then asks for the tag of 3; and 3 has a revision
\* that closes a circle.
Tangled ==
  [p \in Pieces |-> [r \in Revisions |->
     CASE p = 1 -> 2 :> GitDep(IF r = 1 THEN HeadRef ELSE 1)
       [] p = 2 -> 3 :> (IF r = 1 THEN PathDep ELSE GitDep(Tag))
       [] p = 3 -> IF r = 1 THEN None ELSE 1 :> GitDep(HeadRef)]]

SmallWorlds == {Tangled}

\* Piece 1 may be on disk, 2 may be asked for at a revision, 3 is asked for
\* by a branch.
SomeSpecs ==
  [p \in Pieces |->
     CASE p = 1 -> {GitDep(HeadRef), PathDep}
       [] p = 2 -> {GitDep(HeadRef), GitDep(1)}
       [] p = 3 -> {GitDep(Branch)}]

ProcessSymmetry == Permutations(Processes)
=============================================================================
