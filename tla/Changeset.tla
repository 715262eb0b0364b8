----------------------------- MODULE Changeset -----------------------------
(***************************************************************************)
(* generate-changeset.mjs: the packages a range of commits releases, and   *)
(* the bump of each.                                                       *)
(*                                                                         *)
(* A commit is its type, whether it is marked breaking (`!` or a footer)   *)
(* and the packages whose files it touches; one that is not a conventional *)
(* commit has the type "none".                                             *)
(***************************************************************************)
EXTENDS Integers, SequencesExt

CONSTANTS Packages

Types == {"feat", "fix", "chore", "version packages", "none"}
Commits == [type : Types, breaking : BOOLEAN, dirs : SUBSET Packages]

NoBump == 0
Patch == 1
Minor == 2
Major == 3

BumpFor(commit) ==
    CASE commit.type \in {"version packages", "none"} -> NoBump
      [] commit.type \in {"feat", "fix", "chore"} /\ commit.breaking -> Major
      [] commit.type = "feat" /\ ~commit.breaking -> Minor
      [] commit.type = "fix" /\ ~commit.breaking -> Patch
      [] commit.type = "chore" /\ ~commit.breaking -> NoBump

\* Mutant: the last commit decides.
MutantAddCommit(perPackage, commit) ==
    [p \in Packages |->
        IF p \in commit.dirs /\ BumpFor(commit) # NoBump THEN BumpFor(commit) ELSE perPackage[p]]

\* One round of the loop over the commits.
AddCommit(perPackage, commit) ==
    [p \in Packages |->
        IF p \in commit.dirs /\ BumpFor(commit) > perPackage[p]
        THEN BumpFor(commit) ELSE perPackage[p]]

\* The bump of every package; the changeset names those that have one.
PerPackage(commits) == FoldLeft(AddCommit, [p \in Packages |-> NoBump], commits)
=============================================================================
