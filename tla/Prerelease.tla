----------------------------- MODULE Prerelease -----------------------------
(***************************************************************************)
(* The prerelease workflow of one pull request: its gate, the automatic    *)
(* changeset it commits to the branch and the snapshot it publishes.       *)
(*                                                                         *)
(* The author's commits are numbered on the branch; the workflow's own are *)
(* chores and are not counted.  A changeset is the set of packages it      *)
(* names.  A push cancels the job that runs, so a job is always one of the *)
(* branch as it stands.  The base.sha of an event is main as it is then.   *)
(* A merge is a Close without a Reopen: what the job still does then, it   *)
(* does to a branch that is over.                                          *)
(***************************************************************************)
EXTENDS Integers, Sequences

CONSTANTS Packages,
          Commits,     \* what a commit may be: a feat, a changeset by hand, its removal,
                       \* the removal of the automatic one, or a chore
          DependsOn,   \* the pairs of a package and one whose new version its range excludes
          MaxCommits   \* the bound on the author's commits

ASSUME PrereleaseAssumption ==
    /\ Commits \subseteq [kind : {"feat", "manual", "drop"}, package : Packages]
                          \cup [kind : {"chore", "dropAuto"}]
    /\ DependsOn \subseteq Packages \X Packages
    /\ MaxCommits \in Nat \ {0}

FromMain == [kind : {"main"}, package : Packages]

VARIABLES pr,         \* none, open or closed
          branch,     \* the author's commits, and the merges of a feat from main
          inherited,  \* the packages of the changesets pending where the branch left main
          auto,       \* the packages auto-pr-<number>.md names; none when there is no file
          prJob,      \* the job that runs, the `before` of its push, and the packages it published
          cut         \* history: a job was stopped short of the commits that came before it
                      \* or with it, or the author took away the changeset that was there,
                      \* and no job has read the whole branch since

vars == <<pr, branch, inherited, auto, prJob, cut>>

NoJob == [at |-> "none", before |-> 0, snapshot |-> {}]
Unreachable == -1  \* a commit that a rewritten history lost

Init == /\ pr = "none"
        /\ branch = <<>>
        /\ inherited = {}
        /\ auto = {}
        /\ prJob = NoJob
        /\ cut = FALSE

PackagesOf(kinds, from) ==
    {branch[i].package : i \in {j \in from + 1..Len(branch) : branch[j].kind \in kinds}}

Base == 0

\* generate-changeset.mjs --from from --to head.  What was merged from main is
\* in no range that starts at main.
Conventional(from) == PackagesOf(IF from = Base THEN {"feat"} ELSE {"feat", "main"}, from)

\* git diff origin/main...HEAD -- '.changeset/*.md': what is on the branch now,
\* not what some commit of it once added.
Manual ==
    {p \in Packages : \E i \in 1..Len(branch) :
        /\ branch[i] = [kind |-> "manual", package |-> p]
        /\ \A j \in i + 1..Len(branch) : branch[j] # [kind |-> "drop", package |-> p]}

\* What auto-pr-<number>.md names after the author's commit.
LeftBy(commit) == IF commit.kind = "dropAuto" THEN {} ELSE auto
-----------------------------------------------------------------------------
\* The events of the pull request.

\* The push leaves the branch without the changeset that spoke for it.
TakenAway == Manual' = {} /\ (Manual # {} \/ auto' # auto)

\* cancel-in-progress: the job of the previous push stops where it is.
Triggered(before) ==
    /\ prJob' = [NoJob EXCEPT !.at = "gate", !.before = before]
    /\ cut' = (cut \/ prJob.at \in {"gate", "commit"} \/ TakenAway)

Open(commit, pending) ==
    /\ pr = "none"
    /\ pr' = "open"
    /\ branch' = <<commit>>
    /\ inherited' = pending
    /\ UNCHANGED auto
    /\ Triggered(Base)

Push(commit) ==
    /\ pr = "open" /\ Len(branch) < MaxCommits
    /\ branch' = Append(branch, commit)
    /\ auto' = LeftBy(commit)
    /\ Triggered(Len(branch))
    /\ UNCHANGED <<pr, inherited>>

\* Main, where other pull requests left pending, is merged into the branch.
MergeMain(commit, pending) ==
    /\ pr = "open" /\ Len(branch) < MaxCommits
    /\ branch' = Append(branch, commit)
    /\ inherited' = pending
    /\ UNCHANGED <<pr, auto>>
    /\ Triggered(Len(branch))

\* The last commit is amended and pushed by force, with or without the
\* automatic changeset.
Rewrite(commit, keep) ==
    /\ pr = "open"
    /\ branch' = [branch EXCEPT ![Len(branch)] = commit]
    /\ auto' = IF keep THEN LeftBy(commit) ELSE {}
    /\ Triggered(Unreachable)
    /\ UNCHANGED <<pr, inherited>>

Close == /\ pr = "open"
         /\ pr' = "closed"
         /\ UNCHANGED <<branch, inherited, auto, prJob, cut>>

Reopen == /\ pr = "closed"
          /\ pr' = "open"
          /\ UNCHANGED <<branch, inherited, auto>>
          /\ Triggered(Base)
-----------------------------------------------------------------------------
\* The steps of the job.

\* Mutant: a branch that has its automatic changeset gets no other.
MutantDeserved(before) == Manual # {} \/ (auto = {} /\ Conventional(before) # {})

Deserved(before) == Manual # {} \/ Conventional(before) # {}

\* `git log` of a range whose start the checkout does not have fails the job.
Gate ==
    /\ prJob.at = "gate"
    /\ \/ prJob.before = Unreachable /\ prJob' = NoJob /\ cut' = TRUE
       \/ /\ prJob.before # Unreachable
          /\ UNCHANGED cut
          /\ prJob' = IF ~Deserved(prJob.before) THEN NoJob
                      ELSE [prJob EXCEPT !.at = IF Manual = {} THEN "commit" ELSE "publish"]
    /\ UNCHANGED <<pr, branch, inherited, auto>>

\* Mutant: the changeset is generated from the commits of this push.
MutantCommitAutomatic ==
    /\ prJob.at = "commit"
    /\ auto' = Conventional(prJob.before)
    /\ prJob' = [prJob EXCEPT !.at = "publish"]
    /\ cut' = FALSE
    /\ UNCHANGED <<pr, branch, inherited>>

\* A range without feats writes no file; `git add` of none fails the job.
CommitAutomatic ==
    /\ prJob.at = "commit"
    /\ auto' = IF Conventional(Base) # {} THEN Conventional(Base) ELSE auto
    /\ prJob' = IF auto' # {} THEN [prJob EXCEPT !.at = "publish"] ELSE NoJob
    /\ cut' = FALSE
    /\ UNCHANGED <<pr, branch, inherited>>

\* The union of what every file of .changeset names.
CollectPackageNames(changesets) == UNION changesets

PackageDirsNotNamed(names) == Packages \ names

\* What is rewritten: the packages named and the dependents out of range.
Versioned(changesets) ==
    LET names == CollectPackageNames(changesets)
    IN  names \cup {p \in Packages : \E n \in names : <<p, n>> \in DependsOn}

\* Mutant: the names are read from .changeset alone, which is empty by then.
MutantRestoreOthers(versioned, changesets, list) ==
    versioned \ PackageDirsNotNamed(CollectPackageNames(changesets))

\* What stays rewritten after --restore-others --from-file list.
RestoreOthers(versioned, changesets, list) ==
    LET left == CollectPackageNames(changesets)
    IN  versioned \ PackageDirsNotNamed(IF left = {} THEN list ELSE left)

\* `changeset version` consumes the changesets between --list and the rest.
PublishSnapshot ==
    LET changesets == {inherited, auto, Manual} IN
    /\ prJob.at = "publish"
    /\ prJob' = [prJob EXCEPT !.at = "comment", !.snapshot =
                    RestoreOthers(Versioned(changesets), {}, CollectPackageNames(changesets))]
    /\ UNCHANGED <<pr, branch, inherited, auto, cut>>

Comment ==
    /\ prJob.at = "comment"
    /\ prJob' = NoJob
    /\ UNCHANGED <<pr, branch, inherited, auto, cut>>

Job == Gate \/ CommitAutomatic \/ PublishSnapshot \/ Comment

Next ==
    \/ \E commit \in Commits :
          \/ \E pending \in SUBSET Packages : Open(commit, pending)
          \/ Push(commit)
          \/ \E keep \in BOOLEAN : Rewrite(commit, keep)
    \/ \E commit \in FromMain, pending \in SUBSET Packages : MergeMain(commit, pending)
    \/ Close
    \/ Reopen
    \/ Job

Spec == Init /\ [][Next]_vars
-----------------------------------------------------------------------------
\* A job runs for a pull request, and publishes something.
TypeOK ==
    /\ pr \in {"none", "open", "closed"}
    /\ branch \in Seq(Commits \cup FromMain) /\ Len(branch) <= MaxCommits
    /\ inherited \subseteq Packages /\ auto \subseteq Packages
    /\ prJob \in [at : {"none", "gate", "commit", "publish", "comment"},
                  before : Unreachable..MaxCommits, snapshot : SUBSET Packages]
    /\ cut \in BOOLEAN
    /\ pr = "none" => prJob = NoJob
    /\ prJob.at = "comment" <=> prJob.snapshot # {}

\* prerelease.yml:12-25: what a job has published is what merges with the
\* branch and what was pending on main, and no other package: no dependent
\* that was only versioned.  Without a changeset written by hand it misses no
\* package that a feat of the pull request touched, in this push or earlier.
SnapshotIsComplete ==
    prJob.at = "comment" =>
        /\ prJob.snapshot = inherited \cup auto \cup Manual
        /\ Manual = {} => Conventional(Base) \subseteq auto

\* prerelease.yml:14-19 against the cancel-in-progress of line 42: once the jobs
\* have ended, a branch without a changeset by hand has one that names every
\* package its feats touched, whatever the order of pushes, merges of main,
\* rewrites and reopenings.  It need not where a job was cancelled before it
\* committed, where the history a job was to read was rewritten, and where the
\* author removed the last changeset by hand or the automatic one (the gate of
\* that push finds nothing to release), until a later job makes up for it.
CompleteUnlessCut ==
    prJob = NoJob /\ ~cut /\ Manual = {} => Conventional(Base) \subseteq auto
=============================================================================
