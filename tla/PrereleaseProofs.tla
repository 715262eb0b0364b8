-------------------------- MODULE PrereleaseProofs --------------------------
(***************************************************************************)
(* Theorems about Prerelease, for any packages, dependencies and commits   *)
(* and every order of pushes, rewrites, merges, closings and job steps.    *)
(***************************************************************************)
EXTENDS Prerelease, SequenceTheorems, TLAPS

\* The packages that the feats among the first n commits touched.
FeatsOf(n) == {branch[i].package : i \in {j \in 1..n : branch[j].kind = "feat"}}

\* What each step of a job relies on.  A job that looks at the commits of one
\* push relies on the earlier ones having been dealt with.
Owed ==
    /\ prJob.at = "gate" => prJob.before <= Len(branch)
    /\ prJob.at = "gate" /\ prJob.before # Unreachable /\ ~cut /\ Manual = {} =>
          FeatsOf(prJob.before) \subseteq auto
    /\ prJob.at \in {"publish", "comment"} /\ Manual = {} => Conventional(Base) \subseteq auto
    /\ prJob.at = "publish" => auto # {} \/ Manual # {}
    /\ prJob.at = "none" => prJob = NoJob

Inv == TypeOK /\ Owed /\ SnapshotIsComplete /\ CompleteUnlessCut

(***************************************************************************)
(* The packages of a branch.                                               *)
(***************************************************************************)

LEMMA CommitPackage ==
    ASSUME NEW c \in Commits \cup FromMain, c.kind \in {"feat", "manual", "drop", "main"}
    PROVE  c.package \in Packages
  <1>1. CASE c \in [kind : {"feat", "manual", "drop"}, package : Packages]
    BY <1>1
  <1>2. CASE c \in [kind : {"chore", "dropAuto"}]
    BY <1>2
  <1>3. CASE c \in FromMain
    BY <1>3 DEF FromMain
  <1>4. QED
    BY <1>1, <1>2, <1>3, PrereleaseAssumption

LEMMA PackagesOfBranch ==
    ASSUME TypeOK, NEW n \in Nat, NEW kinds \in SUBSET {"feat", "main"}
    PROVE  PackagesOf(kinds, n) \subseteq Packages
  <1>1. ASSUME NEW p \in PackagesOf(kinds, n)  PROVE p \in Packages
    <2>1. PICK j \in n + 1..Len(branch) : branch[j].kind \in kinds /\ p = branch[j].package
      BY <1>1 DEF PackagesOf
    <2>2. j \in 1..Len(branch) /\ branch[j] \in Commits \cup FromMain
      BY <2>1 DEF TypeOK
    <2>3. QED
      BY <2>1, <2>2, CommitPackage
  <1>2. QED
    BY <1>1

LEMMA PackageSets ==
    ASSUME TypeOK
    PROVE  Manual \subseteq Packages /\ Conventional(Base) \subseteq Packages
  BY PackagesOfBranch DEF Manual, Conventional, Base

\* A feat of the branch is one of the first n commits or one of the others.
LEMMA FeatsSplit ==
    ASSUME TypeOK
    PROVE  /\ Len(branch) \in Nat
           /\ FeatsOf(Base) = {}
           /\ \A n \in 0..Len(branch) : Conventional(Base) \subseteq FeatsOf(n) \cup Conventional(n)
           /\ FeatsOf(Len(branch)) = Conventional(Base)
  <1>1. Len(branch) \in Nat
    BY DEF TypeOK
  <1>2. ASSUME NEW n \in 0..Len(branch), NEW p \in Conventional(Base)
        PROVE  p \in FeatsOf(n) \cup Conventional(n)
    <2>1. PICK j \in 1..Len(branch) : branch[j].kind = "feat" /\ p = branch[j].package
      BY <1>2 DEF Conventional, PackagesOf, Base
    <2>2. CASE j <= n
      BY <1>1, <2>1, <2>2 DEF FeatsOf
    <2>3. CASE j > n
      <3>1. j \in n + 1..Len(branch)
        BY <1>1, <2>3
      <3>2. QED
        BY <2>1, <3>1 DEF Conventional, PackagesOf
    <2>4. QED
      BY <1>1, <2>2, <2>3
  <1>3. FeatsOf(Len(branch)) = Conventional(Base) /\ FeatsOf(Base) = {}
    BY <1>1 DEF FeatsOf, Conventional, PackagesOf, Base
  <1>4. QED
    BY <1>1, <1>2, <1>3

LEMMA BranchGrows ==
    ASSUME TypeOK, NEW c \in Commits \cup FromMain, branch' = Append(branch, c)
    PROVE  /\ branch' \in Seq(Commits \cup FromMain)
           /\ Len(branch') = Len(branch) + 1
           /\ \A n \in 0..Len(branch) : FeatsOf(n)' = FeatsOf(n)
  <1>1. branch \in Seq(Commits \cup FromMain) /\ Len(branch) \in Nat
    BY DEF TypeOK
  <1>2. branch' \in Seq(Commits \cup FromMain) /\ Len(branch') = Len(branch) + 1
        /\ \A i \in 1..Len(branch) : branch'[i] = branch[i]
    BY <1>1
  <1>3. ASSUME NEW n \in 0..Len(branch)  PROVE FeatsOf(n)' = FeatsOf(n)
    <2>1. \A i \in 1..n : branch'[i] = branch[i]
      BY <1>1, <1>2
    <2>2. QED
      BY <2>1 DEF FeatsOf
  <1>4. QED
    BY <1>2, <1>3

(***************************************************************************)
(* Events.                                                                 *)
(***************************************************************************)

\* A job that is triggered may take what its push does not hold for settled.
LEMMA TriggerKeepsInv ==
    ASSUME Inv, NEW n \in Unreachable..MaxCommits, Triggered(n),
           pr' \in {"open", "closed"},
           branch' \in Seq(Commits \cup FromMain), Len(branch') <= MaxCommits,
           inherited' \subseteq Packages, auto' \subseteq Packages,
           n <= Len(branch'),
           n # Unreachable /\ ~cut' /\ Manual' = {} => FeatsOf(n)' \subseteq auto'
    PROVE  Inv'
  <1>1. prJob' = [at |-> "gate", before |-> n, snapshot |-> {}]
    BY DEF Triggered, NoJob
  <1>2. prJob'.at = "gate" /\ prJob'.before = n /\ prJob'.snapshot = {} /\ prJob' # NoJob
    BY <1>1 DEF NoJob
  <1>3. prJob' \in [at : {"none", "gate", "commit", "publish", "comment"},
                    before : Unreachable..MaxCommits, snapshot : SUBSET Packages]
    BY <1>1
  <1>4. cut' \in BOOLEAN
    BY DEF Triggered, Inv, TypeOK
  <1>5. TypeOK'
    BY <1>2, <1>3, <1>4 DEF TypeOK
  <1>6. Owed'
    BY <1>2 DEF Owed
  <1>7. SnapshotIsComplete' /\ CompleteUnlessCut'
    BY <1>2 DEF SnapshotIsComplete, CompleteUnlessCut
  <1>8. QED
    BY <1>5, <1>6, <1>7 DEF Inv

\* A job that is not cut short leaves no feat behind.
LEMMA GrowKeepsInv ==
    ASSUME Inv, pr = "open", pr' = pr, Len(branch) < MaxCommits, NEW c \in Commits \cup FromMain,
           branch' = Append(branch, c), inherited' \subseteq Packages, auto' \in {auto, {}},
           Triggered(Len(branch))
    PROVE  Inv'
  <1>1. PICK n \in Nat : n = Len(branch)
    BY FeatsSplit DEF Inv
  <1>2. n \in 0..Len(branch) /\ n \in Unreachable..MaxCommits /\ Len(branch') <= MaxCommits
        /\ n <= Len(branch') /\ branch' \in Seq(Commits \cup FromMain)
    BY <1>1, BranchGrows, PrereleaseAssumption DEF Inv, Unreachable
  <1>3. ASSUME ~cut', Manual' = {}  PROVE FeatsOf(n)' \subseteq auto'
    <2>1. ~cut /\ prJob.at \notin {"gate", "commit"} /\ Manual = {} /\ auto' = auto
      BY <1>3 DEF Triggered, TakenAway
    <2>2. prJob.at \in {"none", "publish", "comment"}
      BY <2>1 DEF Inv, TypeOK
    <2>3. Conventional(Base) \subseteq auto
      BY <2>1, <2>2 DEF Inv, Owed, CompleteUnlessCut
    <2>4. FeatsOf(n)' = FeatsOf(n)
      BY <1>2, BranchGrows DEF Inv
    <2>5. FeatsOf(n) = Conventional(Base)
      BY <1>1, FeatsSplit DEF Inv
    <2>6. QED
      BY <2>1, <2>3, <2>4, <2>5
  <1>4. Triggered(n) /\ auto' \subseteq Packages
    BY <1>1 DEF Inv, TypeOK
  <1>5. QED
    BY <1>2, <1>3, <1>4, TriggerKeepsInv

LEMMA OpenKeepsInv ==
    ASSUME Inv, NEW commit \in Commits, NEW pending \in SUBSET Packages, Open(commit, pending)
    PROVE  Inv'
  <1>1. branch' = <<commit>> /\ branch' \in Seq(Commits \cup FromMain) /\ Len(branch') = 1
    BY DEF Open
  <1>2. FeatsOf(Base)' = {}
    BY DEF FeatsOf, Base
  <1>3. Base \in Unreachable..MaxCommits /\ Base <= Len(branch') /\ Len(branch') <= MaxCommits
    BY <1>1, PrereleaseAssumption DEF Base, Unreachable
  <1>4. Triggered(Base) /\ pr' = "open" /\ inherited' \subseteq Packages /\ auto' \subseteq Packages
    BY DEF Open, Inv, TypeOK
  <1>5. QED
    BY <1>1, <1>2, <1>3, <1>4, TriggerKeepsInv

LEMMA RewriteKeepsInv ==
    ASSUME Inv, NEW commit \in Commits, NEW keep \in BOOLEAN, Rewrite(commit, keep)
    PROVE  Inv'
  <1>1. branch' = [branch EXCEPT ![Len(branch)] = commit] /\ Triggered(Unreachable)
        /\ auto' \in {auto, {}}
    BY DEF Rewrite, LeftBy
  <1>2. branch' \in Seq(Commits \cup FromMain) /\ Len(branch') = Len(branch)
    <2> DEFINE S == Commits \cup FromMain
    <2>1. branch \in Seq(S) /\ commit \in S
      BY DEF Inv, TypeOK
    <2> HIDE DEF S
    <2>2. ASSUME Len(branch) \in 1..Len(branch)
          PROVE  branch' \in Seq(S) /\ Len(branch') = Len(branch)
      BY <1>1, <2>1, <2>2, ExceptSeq
    <2>3. ASSUME Len(branch) \notin 1..Len(branch)
          PROVE  branch' \in Seq(S) /\ Len(branch') = Len(branch)
      <3>1. DOMAIN branch = 1..Len(branch)
        BY <2>1
      <3>2. branch' = branch
        BY <1>1, <2>1, <2>3, <3>1
      <3>3. QED
        BY <2>1, <3>2
    <2>4. branch' \in Seq(S) /\ Len(branch') = Len(branch)
      BY <2>2, <2>3
    <2>5. QED
      BY <2>4 DEF S
  <1>3. Unreachable \in Unreachable..MaxCommits /\ Unreachable <= Len(branch')
    BY <1>2, FeatsSplit, PrereleaseAssumption DEF Unreachable, Inv
  <1>4. Len(branch') <= MaxCommits /\ auto' \subseteq Packages /\ inherited' \subseteq Packages
        /\ pr' = "open"
    BY <1>1, <1>2 DEF Inv, TypeOK, Rewrite
  <1>5. QED
    BY <1>1, <1>2, <1>3, <1>4, TriggerKeepsInv

LEMMA ReopenKeepsInv ==
    ASSUME Inv, Reopen
    PROVE  Inv'
  <1>1. Triggered(Base) /\ pr' = "open" /\ branch' = branch /\ inherited' = inherited /\ auto' = auto
    BY DEF Reopen
  <1>2. FeatsOf(Base)' = {}
    BY DEF FeatsOf, Base
  <1>3. Base \in Unreachable..MaxCommits /\ Base <= Len(branch')
    BY <1>1, FeatsSplit, PrereleaseAssumption DEF Base, Unreachable, Inv
  <1>4. QED
    BY <1>1, <1>2, <1>3, TriggerKeepsInv DEF Inv, TypeOK

\* What leaves the branch alone leaves what it says alone.
LEMMA SameBranch ==
    ASSUME branch' = branch
    PROVE  /\ Manual' = Manual
           /\ \A n : FeatsOf(n)' = FeatsOf(n) /\ Conventional(n)' = Conventional(n)
  BY DEF Manual, FeatsOf, Conventional, PackagesOf

LEMMA CloseKeepsInv ==
    ASSUME Inv, Close
    PROVE  Inv'
  <1>1. pr = "open" /\ pr' = "closed" /\ UNCHANGED <<branch, inherited, auto, prJob, cut>>
    BY DEF Close
  <1>2. TypeOK'
    BY <1>1 DEF Inv, TypeOK
  <1>3. Owed'
    BY <1>1, SameBranch DEF Inv, Owed, Base
  <1>4. SnapshotIsComplete' /\ CompleteUnlessCut'
    BY <1>1, SameBranch DEF Inv, SnapshotIsComplete, CompleteUnlessCut, Base
  <1>5. QED
    BY <1>2, <1>3, <1>4 DEF Inv

(***************************************************************************)
(* The steps of a job.                                                     *)
(***************************************************************************)

LEMMA NoJobFacts == NoJob.at = "none" /\ NoJob.snapshot = {}
                    /\ NoJob \in [at : {"none", "gate", "commit", "publish", "comment"},
                                  before : Unreachable..MaxCommits, snapshot : SUBSET Packages]
  BY PrereleaseAssumption DEF NoJob, Unreachable

\* A job that goes from one step to the next keeps the rest of its record.
LEMMA NextStep ==
    ASSUME TypeOK, NEW step \in {"commit", "publish"}, prJob' = [prJob EXCEPT !.at = step],
           prJob.at \in {"gate", "commit"}
    PROVE  /\ prJob'.at = step /\ prJob'.snapshot = {} /\ prJob' # NoJob
           /\ prJob' \in [at : {"none", "gate", "commit", "publish", "comment"},
                          before : Unreachable..MaxCommits, snapshot : SUBSET Packages]
  <1>1. prJob' \in [at : {"none", "gate", "commit", "publish", "comment"},
                    before : Unreachable..MaxCommits, snapshot : SUBSET Packages]
    BY DEF TypeOK
  <1>2. prJob'.at = step /\ prJob'.snapshot = prJob.snapshot /\ prJob.snapshot = {}
    BY DEF TypeOK
  <1>3. QED
    BY <1>1, <1>2, NoJobFacts

LEMMA GateKeepsInv ==
    ASSUME Inv, Gate
    PROVE  Inv'
  <1>1. prJob.at = "gate" /\ UNCHANGED <<pr, branch, inherited, auto>> /\ pr # "none"
    BY NoJobFacts DEF Gate, Inv, TypeOK
  <1>2. CASE prJob.before = Unreachable /\ prJob' = NoJob /\ cut' = TRUE
    <2>1. TypeOK'
      BY <1>1, <1>2, NoJobFacts DEF Inv, TypeOK
    <2>2. QED
      BY <1>2, <2>1, NoJobFacts DEF Inv, Owed, SnapshotIsComplete, CompleteUnlessCut
  <1>3. CASE prJob.before # Unreachable /\ cut' = cut /\ ~Deserved(prJob.before) /\ prJob' = NoJob
    <2>1. TypeOK'
      BY <1>1, <1>3, NoJobFacts DEF Inv, TypeOK
    <2>2. Owed' /\ SnapshotIsComplete'
      BY <1>3, NoJobFacts DEF Owed, SnapshotIsComplete
    <2>3. prJob.before \in 0..Len(branch)
      BY <1>1, <1>3, FeatsSplit DEF Inv, TypeOK, Owed, Unreachable
    <2>4. Manual = {} /\ Conventional(prJob.before) = {}
      BY <1>3 DEF Deserved
    <2>5. ~cut => Conventional(Base) \subseteq auto
      BY <1>1, <1>3, <2>3, <2>4, FeatsSplit DEF Inv, Owed
    <2>6. CompleteUnlessCut'
      BY <1>1, <1>3, <2>5, SameBranch DEF CompleteUnlessCut, Base
    <2>7. QED
      BY <2>1, <2>2, <2>6 DEF Inv
  <1>4. CASE cut' = cut /\ prJob' = [prJob EXCEPT !.at = IF Manual = {} THEN "commit" ELSE "publish"]
    <2> DEFINE step == IF Manual = {} THEN "commit" ELSE "publish"
    <2>1. step \in {"commit", "publish"} /\ prJob' = [prJob EXCEPT !.at = step]
          /\ (step = "publish" => Manual # {})
      BY <1>4
    <2> HIDE DEF step
    <2>2. /\ prJob'.at = step /\ prJob'.snapshot = {} /\ prJob' # NoJob
          /\ prJob' \in [at : {"none", "gate", "commit", "publish", "comment"},
                         before : Unreachable..MaxCommits, snapshot : SUBSET Packages]
      BY <1>1, <2>1, NextStep DEF Inv
    <2>3. TypeOK'
      BY <1>1, <1>4, <2>1, <2>2 DEF Inv, TypeOK
    <2>4. Owed'
      BY <1>1, <2>1, <2>2, SameBranch DEF Owed
    <2>5. SnapshotIsComplete' /\ CompleteUnlessCut'
      BY <2>1, <2>2 DEF SnapshotIsComplete, CompleteUnlessCut
    <2>6. QED
      BY <2>3, <2>4, <2>5 DEF Inv
  <1>5. QED
    BY <1>2, <1>3, <1>4 DEF Gate

\* The changeset is that of the whole pull request, whatever push it was for.
LEMMA CommitKeepsInv ==
    ASSUME Inv, CommitAutomatic
    PROVE  Inv'
  <1>1. prJob.at = "commit" /\ cut' = FALSE /\ UNCHANGED <<pr, branch, inherited>> /\ pr # "none"
    BY NoJobFacts DEF CommitAutomatic, Inv, TypeOK
  <1>2. Conventional(Base) \subseteq auto' /\ auto' \subseteq Packages
    BY PackageSets DEF CommitAutomatic, Inv, TypeOK
  <1>3. Conventional(Base)' \subseteq auto'
    BY <1>1, <1>2, SameBranch DEF Base
  <1>4. CASE auto' # {} /\ prJob' = [prJob EXCEPT !.at = "publish"]
    <2>1. /\ prJob'.at = "publish" /\ prJob'.snapshot = {} /\ prJob' # NoJob
          /\ prJob' \in [at : {"none", "gate", "commit", "publish", "comment"},
                         before : Unreachable..MaxCommits, snapshot : SUBSET Packages]
      BY <1>1, <1>4, NextStep DEF Inv
    <2>2. TypeOK'
      BY <1>1, <1>2, <2>1 DEF Inv, TypeOK
    <2>3. Owed'
      BY <1>3, <1>4, <2>1 DEF Owed
    <2>4. SnapshotIsComplete' /\ CompleteUnlessCut'
      BY <2>1 DEF SnapshotIsComplete, CompleteUnlessCut
    <2>5. QED
      BY <2>2, <2>3, <2>4 DEF Inv
  <1>5. CASE prJob' = NoJob
    <2>1. TypeOK'
      BY <1>1, <1>2, <1>5, NoJobFacts DEF Inv, TypeOK
    <2>2. QED
      BY <1>3, <1>5, <2>1, NoJobFacts DEF Inv, Owed, SnapshotIsComplete, CompleteUnlessCut
  <1>6. QED
    BY <1>4, <1>5 DEF CommitAutomatic

\* Restoring the packages that the list does not name leaves those it names.
LEMMA RestoredAreNamed ==
    ASSUME NEW changesets, UNION changesets \subseteq Packages
    PROVE  RestoreOthers(Versioned(changesets), {}, CollectPackageNames(changesets))
           = CollectPackageNames(changesets)
  <1>1. CollectPackageNames({}) = {}
    BY DEF CollectPackageNames
  <1>2. CollectPackageNames(changesets) \subseteq Versioned(changesets)
        /\ Versioned(changesets) \subseteq Packages
    BY DEF Versioned, CollectPackageNames
  <1>3. RestoreOthers(Versioned(changesets), {}, CollectPackageNames(changesets))
        = Versioned(changesets) \ (Packages \ CollectPackageNames(changesets))
    BY <1>1 DEF RestoreOthers, PackageDirsNotNamed
  <1>4. QED
    BY <1>2, <1>3

LEMMA PublishKeepsInv ==
    ASSUME Inv, PublishSnapshot
    PROVE  Inv'
  <1> DEFINE changesets == {inherited, auto, Manual}
             names == inherited \cup auto \cup Manual
  <1>1. prJob.at = "publish" /\ UNCHANGED <<pr, branch, inherited, auto, cut>> /\ pr # "none"
    BY NoJobFacts DEF PublishSnapshot, Inv, TypeOK
  <1>2. UNION changesets = names /\ names \subseteq Packages
    BY PackageSets DEF Inv, TypeOK
  <1>3. CollectPackageNames(changesets) = names
    BY <1>2 DEF CollectPackageNames
  <1>4. prJob' = [prJob EXCEPT !.at = "comment", !.snapshot = names]
    BY <1>2, <1>3, RestoredAreNamed DEF PublishSnapshot
  <1>5. names \in SUBSET Packages /\ names # {}
    BY <1>1, <1>2 DEF Inv, Owed
  <1> HIDE DEF names, changesets
  <1>6. /\ prJob'.at = "comment" /\ prJob'.snapshot = names
        /\ prJob' \in [at : {"none", "gate", "commit", "publish", "comment"},
                       before : Unreachable..MaxCommits, snapshot : SUBSET Packages]
    BY <1>4, <1>5 DEF Inv, TypeOK
  <1>7. prJob' # NoJob
    BY <1>6, NoJobFacts
  <1>8. TypeOK'
    BY <1>1, <1>5, <1>6 DEF Inv, TypeOK
  <1>9. Manual' = {} => Conventional(Base)' \subseteq auto'
    BY <1>1, SameBranch DEF Inv, Owed, Base
  <1>10. Owed' /\ CompleteUnlessCut'
    BY <1>6, <1>7, <1>9 DEF Owed, CompleteUnlessCut
  <1>11. prJob'.snapshot = (inherited \cup auto \cup Manual)'
    BY <1>1, <1>6, SameBranch DEF names
  <1>12. SnapshotIsComplete'
    BY <1>9, <1>11 DEF SnapshotIsComplete
  <1>13. QED
    BY <1>8, <1>10, <1>12 DEF Inv

LEMMA CommentKeepsInv ==
    ASSUME Inv, Comment
    PROVE  Inv'
  <1>1. prJob.at = "comment" /\ prJob' = NoJob /\ UNCHANGED <<pr, branch, inherited, auto, cut>>
    BY DEF Comment
  <1>2. TypeOK'
    BY <1>1, NoJobFacts DEF Inv, TypeOK
  <1>3. Owed' /\ SnapshotIsComplete'
    BY <1>1, NoJobFacts DEF Owed, SnapshotIsComplete
  <1>4. CompleteUnlessCut'
    BY <1>1, SameBranch DEF Inv, Owed, CompleteUnlessCut, Base
  <1>5. QED
    BY <1>2, <1>3, <1>4 DEF Inv

(***************************************************************************)
(* The properties the run checks.                                          *)
(***************************************************************************)

LEMMA InvInit ==
    ASSUME Init
    PROVE  Inv
  <1>1. branch = <<>> /\ Len(branch) = 0 /\ branch \in Seq(Commits \cup FromMain)
    BY DEF Init
  <1>2. TypeOK
    <2>1. Len(branch) <= MaxCommits
      BY <1>1, PrereleaseAssumption
    <2>2. prJob = NoJob /\ cut \in BOOLEAN /\ pr \in {"none", "open", "closed"}
          /\ inherited \subseteq Packages /\ auto \subseteq Packages
      BY DEF Init
    <2>3. QED
      BY <1>1, <2>1, <2>2, NoJobFacts DEF TypeOK
  <1>3. Conventional(Base) = {}
    BY <1>1 DEF Conventional, PackagesOf, Base
  <1>4. QED
    BY <1>2, <1>3, NoJobFacts DEF Init, Inv, Owed, SnapshotIsComplete, CompleteUnlessCut

LEMMA InvStep ==
    ASSUME Inv, [Next]_vars
    PROVE  Inv'
  <1>1. ASSUME NEW commit \in Commits, NEW pending \in SUBSET Packages, Open(commit, pending)
        PROVE  Inv'
    BY <1>1, OpenKeepsInv
  <1>2. ASSUME NEW commit \in Commits, Push(commit)  PROVE Inv'
    <2>1. /\ pr = "open" /\ Len(branch) < MaxCommits /\ UNCHANGED <<pr, inherited>>
          /\ branch' = Append(branch, commit) /\ Triggered(Len(branch)) /\ auto' \in {auto, {}}
      BY <1>2 DEF Push, LeftBy
    <2>2. inherited' \subseteq Packages
      BY <2>1 DEF Inv, TypeOK
    <2>3. QED
      BY <2>1, <2>2, GrowKeepsInv
  <1>3. ASSUME NEW commit \in Commits, NEW keep \in BOOLEAN, Rewrite(commit, keep)  PROVE Inv'
    BY <1>3, RewriteKeepsInv
  <1>4. ASSUME NEW commit \in FromMain, NEW pending \in SUBSET Packages, MergeMain(commit, pending)
        PROVE  Inv'
    BY <1>4, GrowKeepsInv DEF MergeMain
  <1>5. CASE Close
    BY <1>5, CloseKeepsInv
  <1>6. CASE Reopen
    BY <1>6, ReopenKeepsInv
  <1>7. CASE Job
    BY <1>7, GateKeepsInv, CommitKeepsInv, PublishKeepsInv, CommentKeepsInv DEF Job
  <1>8. CASE UNCHANGED vars
    <2>1. UNCHANGED <<pr, branch, inherited, auto, prJob, cut>>
      BY <1>8 DEF vars
    <2>2. TypeOK' /\ Owed'
      BY <2>1, SameBranch DEF Inv, TypeOK, Owed, Base
    <2>3. SnapshotIsComplete' /\ CompleteUnlessCut'
      BY <2>1, SameBranch DEF Inv, SnapshotIsComplete, CompleteUnlessCut, Base
    <2>4. QED
      BY <2>2, <2>3 DEF Inv
  <1>9. QED
    BY <1>1, <1>2, <1>3, <1>4, <1>5, <1>6, <1>7, <1>8 DEF Next

LEMMA PrereleaseInvariant == Spec => []Inv
  BY InvInit, InvStep, PTL DEF Spec

\* Type correctness: a job runs for a pull request that was opened, and a job
\* that publishes has something to publish.
THEOREM PrereleaseTypeCorrect == Spec => []TypeOK
  BY PrereleaseInvariant, PTL DEF Inv

\* What a job has published is what the changesets of the checkout name, no
\* dependent besides, and misses no package of a feat of the pull request.
THEOREM SnapshotsComplete == Spec => []SnapshotIsComplete
  BY PrereleaseInvariant, PTL DEF Inv

\* A branch whose jobs have ended is covered by its automatic changeset, unless
\* a job was cut short or the author took the changeset away: a gate that looks
\* at one push may take the earlier ones for settled, since both are recorded.
THEOREM BranchCovered == Spec => []CompleteUnlessCut
  BY PrereleaseInvariant, PTL DEF Inv

=============================================================================
