------------------------------ MODULE Release ------------------------------
(***************************************************************************)
(* The release workflow: what becomes of the commits pushed to main, until *)
(* the versions they belong to are published.                              *)
(*                                                                         *)
(* main only grows, so a sha is a length of it and the checkout of sha n   *)
(* is its first n commits.  A changeset file is named by the commit that   *)
(* adds it.  GitHub runs one job of the concurrency group at a time and    *)
(* keeps one waiting: a later push takes the place of the one that waits.  *)
(* A job's steps interleave with pushes and with the merge of its pull     *)
(* request; a step that GitHub or the registry fails by itself is left out.*)
(* A job has the pushed commit (sha, GITHUB_SHA) and the checkout its steps *)
(* work in (head), which is one commit further once it generated a         *)
(* changeset.  changesets/action counts the changesets of the checkout, and *)
(* resets it to GITHUB_SHA before it computes the versions of a pull       *)
(* request.                                                                *)
(*                                                                         *)
(* A push is one commit, the commits of a merge or of a direct push taken  *)
(* together: a feat (generate-changeset.mjs counts one of them) or a chore *)
(* (it counts none).  It brings a changeset if its pull request had one,   *)
(* written by hand or by the prerelease workflow.                          *)
(***************************************************************************)
EXTENDS Integers, Sequences

CONSTANTS MaxPushes  \* the bound on pushes to main by people

ASSUME ReleaseAssumption == MaxPushes \in Nat

VARIABLES main,       \* the commits of main
          job,        \* the job that runs
          waiting,    \* the job that waits in the concurrency group
          versionPr,  \* the changesets the open Version Packages PR consumes, or NoPr
          published,  \* the commits whose changeset is in a published version
          pushes      \* the pushes so far

vars == <<main, job, waiting, versionPr, published, pushes>>

Pushed == [kind : {"feat", "chore"}, brings : BOOLEAN]
Changeset(commits) == [kind |-> "changeset", covers |-> commits]
VersionPackages(changesets) == [kind |-> "version", consumes |-> changesets]

NoJob == [at |-> "none", before |-> 0, sha |-> 0, head |-> 0]
NewJob(before, sha) == [at |-> "checkout", before |-> before, sha |-> sha, head |-> sha]
NoPr == {0}

Init == /\ main = <<>>
        /\ job = NoJob
        /\ waiting = NoJob
        /\ versionPr = NoPr
        /\ published = {}
        /\ pushes = 0
-----------------------------------------------------------------------------
\* A checkout of sha n.

Added(n) == {i \in 1..n : \/ main[i].kind = "changeset"
                          \/ main[i].kind \in {"feat", "chore"} /\ main[i].brings}

Consumed(n) == UNION {main[i].consumes : i \in {j \in 1..n : main[j].kind = "version"}}

Pending(n) == Added(n) \ Consumed(n)

\* The commits a changeset releases.
Covers(c) == IF main[c].kind = "changeset" THEN main[c].covers ELSE {c}

\* Mutant: the range starts at the first commit of the repository.
MutantReleasable(before, sha) == {i \in 1..sha : main[i].kind = "feat"}

\* Mutant: every commit counts, whatever its type.
MutantGate(before, sha) == before + 1..sha

\* generate-changeset.mjs --from before --to sha
Releasable(before, sha) == {i \in before + 1..sha : main[i].kind = "feat"}
-----------------------------------------------------------------------------
\* Pushes to main.

\* Mutant: a push whose job cannot start at once has none.
MutantTriggered(before, sha) ==
    /\ job' = IF job.at = "none" THEN NewJob(before, sha) ELSE job
    /\ UNCHANGED waiting

Triggered(before, sha) ==
    IF job.at = "none" THEN job' = NewJob(before, sha) /\ UNCHANGED waiting
    ELSE waiting' = NewJob(before, sha) /\ UNCHANGED job

Push(commit) ==
    /\ pushes < MaxPushes
    /\ pushes' = pushes + 1
    /\ main' = Append(main, commit)
    /\ Triggered(Len(main), Len(main) + 1)
    /\ UNCHANGED <<versionPr, published>>

\* The Version Packages PR is merged: the changesets it was computed from go,
\* those that came later stay.
MergeVersionPr ==
    /\ versionPr # NoPr
    /\ main' = Append(main, VersionPackages(versionPr \cap Pending(Len(main))))
    /\ versionPr' = NoPr
    /\ Triggered(Len(main), Len(main) + 1)
    /\ UNCHANGED <<published, pushes>>
-----------------------------------------------------------------------------
\* The steps of a job.

JobEnds == job' = waiting /\ waiting' = NoJob

\* Count the changesets of the checkout; generate one if there is none.
CountAndGenerate ==
    /\ job.at = "checkout"
    /\ job' = [job EXCEPT !.at = IF Pending(job.head) = {} /\ Releasable(job.before, job.sha) # {}
                                 THEN "commit" ELSE "action"]
    /\ UNCHANGED <<main, waiting, versionPr, published, pushes>>

\* git push origin HEAD:main, which triggers nothing.  It is rejected, and the
\* job with it, when main has moved on.
CommitChangeset ==
    /\ job.at = "commit"
    /\ \/ /\ Len(main) = job.sha
          /\ main' = Append(main, Changeset(Releasable(job.before, job.sha)))
          /\ job' = [job EXCEPT !.at = "action", !.head = @ + 1]
          /\ UNCHANGED waiting
       \/ Len(main) # job.sha /\ JobEnds /\ UNCHANGED main
    /\ UNCHANGED <<versionPr, published, pushes>>

\* Mutant: the action publishes whether or not changesets are pending.
MutantCreateReleaseOrPublish ==
    /\ job.at = "action"
    /\ versionPr' = IF Pending(job.sha) # {} THEN Pending(job.sha) ELSE versionPr
    /\ published' = published \cup UNION {Covers(c) : c \in Added(job.sha)}
    /\ JobEnds
    /\ UNCHANGED <<main, pushes>>

\* changesets/action: update the pull request, or publish what was merged.  A
\* pull request whose branch is reset to a commit with no changesets has
\* nothing to merge, which GitHub does not keep open.
CreatePrOrPublish ==
    /\ job.at = "action"
    /\ \/ /\ Pending(job.head) # {}
          /\ versionPr' = IF Pending(job.sha) # {} THEN Pending(job.sha) ELSE NoPr
          /\ UNCHANGED published
       \/ /\ Pending(job.head) = {}
          /\ published' = published \cup UNION {Covers(c) : c \in Consumed(job.head)}
          /\ UNCHANGED versionPr
    /\ JobEnds
    /\ UNCHANGED <<main, pushes>>

Job == CountAndGenerate \/ CommitChangeset \/ CreatePrOrPublish

Next == (\E commit \in Pushed : Push(commit)) \/ MergeVersionPr \/ Job

Spec == Init /\ [][Next]_vars

\* GitHub runs the jobs, and somebody merges the Version Packages PR.
Fairness == WF_vars(Job) /\ WF_vars(MergeVersionPr)

LiveSpec == Spec /\ Fairness
-----------------------------------------------------------------------------
Tip == Len(main)
Feats == {i \in 1..Tip : main[i].kind = "feat"}
Covering(i) == {c \in Added(Tip) : i \in Covers(c)}
Quiet == job.at = "none" /\ waiting.at = "none"

Jobs == [at : {"none", "checkout", "commit", "action"}, before : Nat, sha : Nat, head : Nat]

TypeOK ==
    /\ \A i \in 1..Tip : \/ main[i] \in Pushed
                         \/ main[i] \in [kind : {"changeset"}, covers : SUBSET Feats]
                         \/ main[i] \in [kind : {"version"}, consumes : SUBSET Added(Tip)]
    /\ job \in Jobs /\ waiting \in Jobs
    /\ job.head <= Tip /\ waiting.head <= Tip
    /\ versionPr = NoPr \/ versionPr \subseteq Added(Tip)
    /\ published \subseteq 1..Tip
    /\ pushes \in 0..MaxPushes

\* release.yml:20-21, "a merge that already brought a changeset does not
\* generate another one": a commit is in one changeset at most.
CoveredOnce == \A i \in 1..Tip : \A c, d \in Covering(i) : c = d

\* The last job generated a changeset and pushed it, which triggers no job.
AwaitsPush == Quiet /\ Tip > 0 /\ main[Tip].kind = "changeset"

\* release.yml:13-18, when no job is left, whichever jobs were replaced or
\* failed: the Version Packages PR offers exactly the pending changesets, and
\* when nothing is pending all that was merged is published.  The exception is
\* the changeset that the last job generated itself: it waits for the next push,
\* and nothing else waits with it.
QuietMeansDone ==
    Quiet => \/ Pending(Tip) = {} /\ UNION {Covers(c) : c \in Consumed(Tip)} \subseteq published
             \/ Pending(Tip) # {} /\ versionPr = Pending(Tip)
             \/ AwaitsPush /\ Pending(Tip) = {Tip} /\ versionPr = NoPr

\* docs/versionamento.md, step 5 (reviewing and merging that PR is the act of
\* deciding to publish): over every order of pushes, merges and jobs, a changeset
\* waits, is consumed by one merged PR that offered it, and is published after
\* that and not before; nothing consumed or published comes back.
Abstract ==
    INSTANCE Releasing WITH
        waiting <- Pending(Tip),
        offered <- versionPr \cap Pending(Tip),
        decided <- Consumed(Tip),
        published <- {c \in Added(Tip) : Covers(c) \subseteq published}
ImplementsReleasing == Abstract!Spec

\* A commit that has a changeset is published in the end, once the pushes stop
\* (a job that finds a pending changeset publishes nothing, so pushes that bring
\* one each put it off for ever; the bound on pushes is what stops them here).
\* The exception is again a last job that generated a changeset: it publishes
\* nothing and offers nothing, and all that is not published waits for a push.
EveryChangesetReleased ==
    \A i \in 1..2 * MaxPushes :
        (i \in 1..Tip /\ Covering(i) # {}) ~> (i \in published \/ AwaitsPush)

\* release.yml:13-15, "changesets/action then checks for pending changesets: if
\* there are any, it opens or updates a "Version Packages" PR": when no job is
\* left, what is pending is offered.  The action finds the changeset its own job
\* has just committed, resets to the pushed commit and versions nothing; the
\* push of that changeset starts no job that would offer it.
PendingIsOffered == Quiet /\ Pending(Tip) # {} => versionPr = Pending(Tip)

\* release.yml:4-5, "if this push carries no changeset yet, one is generated
\* from its feat and fix commits", and 22-24: a feat on main has a changeset
\* when no job is left.  The code generates none while an earlier push's
\* changeset is pending, when the push of the changeset is rejected, and when
\* the job is replaced before it starts.
EveryFeatHasChangeset == Quiet => \A i \in Feats : Covering(i) # {}
=============================================================================
