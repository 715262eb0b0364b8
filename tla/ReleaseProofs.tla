---------------------------- MODULE ReleaseProofs ----------------------------
(***************************************************************************)
(* Theorems about Release, for any number of pushes and every order of     *)
(* pushes, jobs and merges.                                                *)
(***************************************************************************)
EXTENDS Release, TLAPS

Entries == Pushed \cup [kind : {"changeset"}, covers : SUBSET Nat]
                  \cup [kind : {"version"}, consumes : SUBSET Nat]

\* A generated changeset stands right behind the one feat it covers, which
\* brought none; a merge consumes changesets of before it.
History ==
    /\ main \in Seq(Entries)
    /\ \A i \in 1..Tip : main[i].kind = "changeset" =>
          i > 1 /\ main[i].covers = {i - 1} /\ main[i - 1].kind = "feat" /\ ~main[i - 1].brings
    /\ \A i \in 1..Tip : main[i].kind = "version" => main[i].consumes \subseteq Added(i - 1)

\* A job looks at one pushed commit, at most one commit behind its checkout: it
\* goes on to commit for a feat that has no changeset where none is pending, and
\* what it then has besides is that changeset, the only one pending.
JobOK(j) ==
    /\ j \in Jobs /\ j.sha <= j.head /\ j.head <= Tip
    /\ j.at # "none" => j.sha >= 1
    /\ j.at \in {"checkout", "commit"} =>
          j.sha = j.before + 1 /\ j.head = j.sha /\ main[j.sha].kind # "changeset"
    /\ j.at = "commit" => main[j.sha].kind = "feat" /\ ~main[j.sha].brings /\ Pending(j.sha) = {}
    /\ j.at = "action" =>
          \/ j.head = j.sha /\ main[j.head].kind # "changeset"
          \/ main[j.head].kind = "changeset" /\ Pending(j.sha) = {} /\ Pending(j.head) = {j.head}

\* The youngest job is that of the tip.
Scheduled ==
    /\ JobOK(job) /\ JobOK(waiting)
    /\ waiting.at \in {"none", "checkout"}
    /\ waiting.at = "checkout" => waiting.sha = Tip /\ job.at # "none" /\ job.head < Tip
    /\ waiting.at = "none" /\ job.at # "none" => job.head = Tip

Released ==
    /\ versionPr = NoPr \/ versionPr \subseteq Added(Tip)
    /\ published \subseteq UNION {Covers(c) : c \in Consumed(Tip)}
    /\ pushes \in 0..MaxPushes

Inv == History /\ Scheduled /\ Released /\ QuietMeansDone

(***************************************************************************)
(* The changesets of a checkout.                                           *)
(***************************************************************************)

LEMMA MainFacts ==
    ASSUME main \in Seq(Entries)
    PROVE  /\ Tip \in Nat
           /\ DOMAIN main = 1..Tip
           /\ \A i \in 1..Tip : main[i] \in Entries
  BY DEF Tip

\* The kind of a commit of main tells its fields.
LEMMA EntryKinds ==
    ASSUME NEW e \in Entries
    PROVE  /\ e.kind \in {"feat", "chore", "changeset", "version"}
           /\ e.kind \in {"feat", "chore"} => e \in Pushed /\ e.brings \in BOOLEAN
           /\ e.kind = "changeset" => e.covers \in SUBSET Nat
           /\ e.kind = "version" => e.consumes \in SUBSET Nat
  BY DEF Entries, Pushed

LEMMA AddedFacts ==
    ASSUME NEW n \in Nat
    PROVE  /\ Added(n) \subseteq 1..n
           /\ \A m \in 0..n : Added(m) \subseteq Added(n)
           /\ \A m \in 0..n : Consumed(m) \subseteq Consumed(n)
  BY DEF Added, Consumed

\* No checkout consumes a changeset it does not have, nor one of its tip.
LEMMA ConsumedFacts ==
    ASSUME History, NEW n \in 0..Tip
    PROVE  Consumed(n) \subseteq Added(n) /\ n \notin Consumed(n)
  <1>1. Tip \in Nat
    BY MainFacts DEF History
  <1>2. ASSUME NEW c \in Consumed(n)  PROVE c \in Added(n) /\ c # n
    <2>1. PICK i \in 1..n : main[i].kind = "version" /\ c \in main[i].consumes
      BY DEF Consumed
    <2>2. c \in Added(i - 1)
      BY <1>1, <2>1 DEF History
    <2>3. i - 1 \in Nat /\ i - 1 \in 0..n /\ n \in Nat
      BY <1>1
    <2>4. c \in 1..(i - 1) /\ c \in Added(n)
      BY <2>2, <2>3, AddedFacts
    <2>5. QED
      BY <2>3, <2>4
  <1>3. QED
    BY <1>2

\* A changeset covers the one commit it came with or the one it stands behind.
LEMMA CoversOne ==
    ASSUME History, NEW c \in Added(Tip)
    PROVE  /\ c \in 1..Tip
           /\ \/ main[c].kind \in {"feat", "chore"} /\ main[c].brings /\ Covers(c) = {c}
              \/ /\ main[c].kind = "changeset" /\ Covers(c) = {c - 1}
                 /\ c - 1 \in 1..Tip /\ main[c - 1].kind = "feat" /\ ~main[c - 1].brings
  <1>1. Tip \in Nat /\ c \in 1..Tip
    BY MainFacts DEF History, Added
  <1>2. CASE main[c].kind = "changeset"
    BY <1>1, <1>2 DEF History, Covers
  <1>3. CASE main[c].kind \in {"feat", "chore"} /\ main[c].brings
    BY <1>1, <1>3 DEF Covers
  <1>4. QED
    BY <1>1, <1>2, <1>3 DEF Added

LEMMA OneCover ==
    ASSUME History, NEW c \in Added(Tip), NEW d \in Added(Tip), NEW i \in Covers(c), i \in Covers(d)
    PROVE  c = d
  <1>1. Tip \in Nat
    BY MainFacts DEF History
  <1>2. QED
    BY <1>1, CoversOne

(***************************************************************************)
(* main grows.                                                             *)
(***************************************************************************)

\* What a checkout has and consumes does not change.
LEMMA MainGrows ==
    ASSUME History, NEW e \in Entries, main' = Append(main, e)
    PROVE  /\ main' \in Seq(Entries)
           /\ Tip' = Tip + 1
           /\ main'[Tip + 1] = e
           /\ \A i \in 1..Tip : main'[i] = main[i] /\ Covers(i)' = Covers(i)
           /\ \A n \in 0..Tip : /\ Added(n)' = Added(n)
                                /\ Consumed(n)' = Consumed(n)
                                /\ Pending(n)' = Pending(n)
  <1>1. Tip \in Nat /\ main \in Seq(Entries)
    BY MainFacts DEF History
  <1>2. main' \in Seq(Entries) /\ Tip' = Tip + 1 /\ main'[Tip + 1] = e
    BY <1>1 DEF Tip
  <1>3. \A i \in 1..Tip : main'[i] = main[i]
    BY <1>1 DEF Tip
  <1>4. \A i \in 1..Tip : Covers(i)' = Covers(i)
    BY <1>3 DEF Covers
  <1>5. ASSUME NEW n \in 0..Tip
        PROVE  Added(n)' = Added(n) /\ Consumed(n)' = Consumed(n)
    <2>1. 1..n \subseteq 1..Tip
      BY <1>1
    <2>2. \A i \in 1..n : main'[i] = main[i]
      BY <1>3, <2>1
    <2>3. QED
      BY <2>2 DEF Added, Consumed
  <1>6. QED
    BY <1>2, <1>3, <1>4, <1>5 DEF Pending

\* What the new tip has and consumes besides.
LEMMA NewTip ==
    ASSUME History, NEW e \in Entries, main' = Append(main, e)
    PROVE  /\ e.kind \in {"feat", "chore"} =>
                 /\ Added(Tip)' = IF e.brings THEN Added(Tip) \cup {Tip + 1} ELSE Added(Tip)
                 /\ Consumed(Tip)' = Consumed(Tip)
           /\ e.kind = "changeset" =>
                 Added(Tip)' = Added(Tip) \cup {Tip + 1} /\ Consumed(Tip)' = Consumed(Tip)
           /\ e.kind = "version" =>
                 Added(Tip)' = Added(Tip) /\ Consumed(Tip)' = Consumed(Tip) \cup e.consumes
  <1>1. Tip \in Nat
    BY MainFacts DEF History
  <1>2. Tip' = Tip + 1 /\ main'[Tip + 1] = e /\ \A i \in 1..Tip : main'[i] = main[i]
    BY MainGrows
  <1>3. 1..(Tip + 1) = (1..Tip) \cup {Tip + 1}
    BY <1>1
  <1>4. Added(Tip)' = Added(Tip) \cup {i \in {Tip + 1} : \/ e.kind = "changeset"
                                                         \/ e.kind \in {"feat", "chore"} /\ e.brings}
    BY <1>2, <1>3 DEF Added
  <1>5. Consumed(Tip)' = Consumed(Tip) \cup (IF e.kind = "version" THEN e.consumes ELSE {})
    <2>1. ASSUME NEW c \in Consumed(Tip)'
          PROVE  c \in Consumed(Tip) \cup (IF e.kind = "version" THEN e.consumes ELSE {})
      <3>1. PICK i \in (1..Tip) \cup {Tip + 1} : main'[i].kind = "version" /\ c \in main'[i].consumes
        BY <1>2, <1>3 DEF Consumed
      <3>2. QED
        BY <1>2, <3>1 DEF Consumed
    <2>2. ASSUME NEW c \in Consumed(Tip)  PROVE c \in Consumed(Tip)'
      <3>1. PICK i \in 1..Tip : main[i].kind = "version" /\ c \in main[i].consumes
        BY DEF Consumed
      <3>2. i \in 1..Tip' /\ main'[i] = main[i]
        BY <1>2, <1>3
      <3>3. QED
        BY <3>1, <3>2 DEF Consumed
    <2>3. ASSUME e.kind = "version", NEW c \in e.consumes  PROVE c \in Consumed(Tip)'
      <3>1. Tip + 1 \in 1..Tip'
        BY <1>2, <1>3
      <3>2. QED
        BY <1>2, <2>3, <3>1 DEF Consumed
    <2>4. QED
      BY <2>1, <2>2, <2>3
  <1>6. QED
    BY <1>4, <1>5

LEMMA GrowthKeepsHistory ==
    ASSUME History, NEW e \in Entries, main' = Append(main, e),
           e.kind = "changeset" =>
              Tip >= 1 /\ e.covers = {Tip} /\ main[Tip].kind = "feat" /\ ~main[Tip].brings,
           e.kind = "version" => e.consumes \subseteq Added(Tip)
    PROVE  History'
  <1>1. Tip \in Nat
    BY MainFacts DEF History
  <1>2. /\ main' \in Seq(Entries) /\ Tip' = Tip + 1 /\ main'[Tip + 1] = e
        /\ \A i \in 1..Tip : main'[i] = main[i]
        /\ \A n \in 0..Tip : Added(n)' = Added(n)
    BY MainGrows
  <1>3. 1..Tip' = (1..Tip) \cup {Tip + 1}
    BY <1>1, <1>2
  <1>4. ASSUME NEW i \in 1..Tip, main'[i].kind = "changeset"
        PROVE  /\ i > 1 /\ main'[i].covers = {i - 1}
               /\ main'[i - 1].kind = "feat" /\ ~main'[i - 1].brings
    <2>1. i > 1 /\ main[i].covers = {i - 1} /\ main[i - 1].kind = "feat" /\ ~main[i - 1].brings
      BY <1>2, <1>4 DEF History
    <2>2. i - 1 \in 1..Tip
      BY <1>1, <2>1
    <2>3. QED
      BY <1>2, <2>1, <2>2
  <1>5. ASSUME e.kind = "changeset"
        PROVE  /\ Tip + 1 > 1 /\ e.covers = {(Tip + 1) - 1}
               /\ main'[(Tip + 1) - 1].kind = "feat" /\ ~main'[(Tip + 1) - 1].brings
    <2>1. Tip \in 1..Tip /\ (Tip + 1) - 1 = Tip /\ Tip + 1 > 1
      BY <1>1, <1>5
    <2>2. main'[Tip] = main[Tip]
      BY <1>2, <2>1
    <2>3. QED
      BY <1>5, <2>1, <2>2
  <1>6. ASSUME NEW i \in 1..Tip, main'[i].kind = "version"
        PROVE  main'[i].consumes \subseteq Added(i - 1)'
    <2>1. i - 1 \in 0..Tip
      BY <1>1
    <2>2. main[i].consumes \subseteq Added(i - 1)
      BY <1>2, <1>6 DEF History
    <2>3. QED
      BY <1>2, <2>1, <2>2
  <1>7. ASSUME NEW i, i = Tip + 1, main'[i].kind = "version"
        PROVE  main'[i].consumes \subseteq Added(i - 1)'
    <2>1. i - 1 = Tip /\ i - 1 \in 0..Tip
      BY <1>1, <1>7
    <2>2. Added(i - 1)' = Added(i - 1) /\ Added(i - 1) = Added(Tip)
      BY <1>2, <2>1
    <2>3. QED
      BY <1>2, <1>7, <2>2
  <1>8. \A i \in 1..Tip' : main'[i].kind = "changeset" =>
           i > 1 /\ main'[i].covers = {i - 1} /\ main'[i - 1].kind = "feat" /\ ~main'[i - 1].brings
    BY <1>2, <1>3, <1>4, <1>5
  <1>9. ASSUME NEW i \in 1..Tip', main'[i].kind = "version"
        PROVE  main'[i].consumes \subseteq Added(i - 1)'
    <2>1. i \in 1..Tip \/ i = Tip + 1
      BY <1>3
    <2>2. QED
      BY <1>6, <1>7, <1>9, <2>1
  <1>10. QED
    BY <1>2, <1>8, <1>9 DEF History

\* A commit gives nothing to publish, and takes nothing from the registry.
LEMMA GrowthKeepsReleased ==
    ASSUME History, Released, NEW e \in Entries, main' = Append(main, e),
           published' = published, versionPr' \in {versionPr, NoPr}, pushes' \in 0..MaxPushes
    PROVE  Released'
  <1>1. Tip \in Nat /\ Consumed(Tip) \subseteq Added(Tip) /\ Added(Tip) \subseteq 1..Tip
    BY MainFacts, ConsumedFacts, AddedFacts DEF History
  <1>2. e.kind \in {"feat", "chore", "changeset", "version"}
    BY EntryKinds
  <1>3. Added(Tip) \subseteq Added(Tip)' /\ Consumed(Tip) \subseteq Consumed(Tip)'
    BY <1>2, NewTip
  <1>4. \A c \in Consumed(Tip) : Covers(c)' = Covers(c)
    BY <1>1, MainGrows
  <1>5. published' \subseteq UNION {Covers(c)' : c \in Consumed(Tip)'}
    BY <1>3, <1>4 DEF Released
  <1>6. QED
    BY <1>3, <1>5 DEF Released, NoPr

\* A job has the same to do when main grows.
LEMMA JobKept ==
    ASSUME History, NEW e \in Entries, main' = Append(main, e)
    PROVE  /\ JobOK(job) /\ job' = job => JobOK(job)'
           /\ JobOK(waiting) /\ waiting' = waiting => JobOK(waiting)'
           /\ JobOK(waiting) /\ job' = waiting => JobOK(job)'
  <1>1. /\ Tip \in Nat /\ Tip' = Tip + 1
        /\ \A i \in 1..Tip : main'[i] = main[i]
        /\ \A n \in 0..Tip : Pending(n)' = Pending(n)
    BY MainFacts, MainGrows DEF History
  <1>2. ASSUME JobOK(job), job' = job  PROVE JobOK(job)'
    <2>1. /\ job \in Jobs /\ job.sha \in 0..Tip /\ job.head \in 0..Tip
          /\ job.at # "none" => job.sha \in 1..Tip /\ job.head \in 1..Tip
      BY <1>1, <1>2 DEF JobOK, Jobs
    <2>2. /\ job.at # "none" => /\ main'[job.sha] = main[job.sha]
                               /\ main'[job.head] = main[job.head]
          /\ Pending(job.sha)' = Pending(job.sha) /\ Pending(job.head)' = Pending(job.head)
      BY <1>1, <1>2, <2>1
    <2>3. job'.sha <= job'.head /\ job'.head <= Tip'
      BY <1>1, <1>2, <2>1 DEF JobOK
    <2>4. QED
      BY <1>2, <2>1, <2>2, <2>3 DEF JobOK
  <1>3. ASSUME JobOK(waiting), waiting' = waiting  PROVE JobOK(waiting)'
    <2>1. /\ waiting \in Jobs /\ waiting.sha \in 0..Tip /\ waiting.head \in 0..Tip
          /\ waiting.at # "none" => waiting.sha \in 1..Tip /\ waiting.head \in 1..Tip
      BY <1>1, <1>3 DEF JobOK, Jobs
    <2>2. /\ waiting.at # "none" => /\ main'[waiting.sha] = main[waiting.sha]
                               /\ main'[waiting.head] = main[waiting.head]
          /\ Pending(waiting.sha)' = Pending(waiting.sha) /\ Pending(waiting.head)' = Pending(waiting.head)
      BY <1>1, <1>3, <2>1
    <2>3. waiting'.sha <= waiting'.head /\ waiting'.head <= Tip'
      BY <1>1, <1>3, <2>1 DEF JobOK
    <2>4. QED
      BY <1>3, <2>1, <2>2, <2>3 DEF JobOK
  <1>4. ASSUME JobOK(waiting), job' = waiting  PROVE JobOK(job)'
    <2>1. /\ waiting \in Jobs /\ waiting.sha \in 0..Tip /\ waiting.head \in 0..Tip
          /\ waiting.at # "none" => waiting.sha \in 1..Tip /\ waiting.head \in 1..Tip
      BY <1>1, <1>4 DEF JobOK, Jobs
    <2>2. /\ waiting.at # "none" => /\ main'[waiting.sha] = main[waiting.sha]
                               /\ main'[waiting.head] = main[waiting.head]
          /\ Pending(job.sha)' = Pending(waiting.sha) /\ Pending(job.head)' = Pending(waiting.head)
      BY <1>1, <1>4, <2>1
    <2>3. job'.sha <= job'.head /\ job'.head <= Tip'
      BY <1>1, <1>4, <2>1 DEF JobOK
    <2>4. QED
      BY <1>4, <2>1, <2>2, <2>3 DEF JobOK
  <1>5. QED
    BY <1>2, <1>3, <1>4

\* A push to main triggers a job of its own, which becomes the youngest one.
LEMMA TriggerKeepsScheduled ==
    ASSUME History, Scheduled, NEW e \in Entries, main' = Append(main, e),
           e.kind # "changeset", Triggered(Tip, Tip + 1)
    PROVE  Scheduled' /\ ~Quiet'
  <1> DEFINE run == NewJob(Tip, Tip + 1)
  <1>1. Tip \in Nat /\ Tip' = Tip + 1 /\ main'[Tip + 1] = e
    BY MainFacts, MainGrows DEF History
  <1>2. /\ run \in Jobs /\ run.at = "checkout" /\ run.before = Tip
        /\ run.sha = Tip + 1 /\ run.head = Tip + 1
    BY <1>1 DEF Jobs, NewJob
  <1> HIDE DEF run
  <1>3. job.head \in Nat /\ job.head <= Tip
    BY DEF Scheduled, JobOK, Jobs
  <1>4. CASE job.at = "none" /\ job' = run /\ waiting' = waiting
    <2>1. waiting.at = "none"
      BY <1>4 DEF Scheduled
    <2>2. JobOK(job)'
      <3>1. job'.sha = Tip' /\ job'.head = Tip' /\ job'.before = Tip /\ main'[Tip'] = e
        BY <1>1, <1>2, <1>4
      <3>2. /\ job'.sha <= job'.head /\ job'.head <= Tip' /\ job'.sha >= 1
            /\ main'[job'.sha].kind # "changeset" /\ job'.sha = job'.before + 1
        BY <1>1, <3>1
      <3>3. job' \in Jobs /\ job'.at = "checkout" /\ job'.head = job'.sha
        BY <1>2, <1>4
      <3>4. QED
        BY <3>2, <3>3 DEF JobOK
    <2>3. JobOK(waiting)'
      BY <1>4, JobKept DEF Scheduled
    <2>4. QED
      BY <1>1, <1>2, <1>4, <2>1, <2>2, <2>3 DEF Scheduled, Quiet
  <1>5. CASE job.at # "none" /\ waiting' = run /\ job' = job
    <2>1. JobOK(waiting)'
      <3>1. waiting'.sha = Tip' /\ waiting'.head = Tip' /\ waiting'.before = Tip /\ main'[Tip'] = e
        BY <1>1, <1>2, <1>5
      <3>2. /\ waiting'.sha <= waiting'.head /\ waiting'.head <= Tip' /\ waiting'.sha >= 1
            /\ main'[waiting'.sha].kind # "changeset" /\ waiting'.sha = waiting'.before + 1
        BY <1>1, <3>1
      <3>3. waiting' \in Jobs /\ waiting'.at = "checkout" /\ waiting'.head = waiting'.sha
        BY <1>2, <1>5
      <3>4. QED
        BY <3>2, <3>3 DEF JobOK
    <2>2. JobOK(job)'
      BY <1>5, JobKept DEF Scheduled
    <2>3. waiting'.at = "checkout" /\ waiting'.sha = Tip' /\ job'.at # "none" /\ job'.head < Tip'
      BY <1>1, <1>2, <1>3, <1>5
    <2>4. QED
      BY <2>1, <2>2, <2>3 DEF Scheduled, Quiet
  <1>6. QED
    BY <1>4, <1>5 DEF Triggered, run

(***************************************************************************)
(* The actions.                                                            *)
(***************************************************************************)

LEMMA PushKeepsInv ==
    ASSUME Inv, NEW commit \in Pushed, Push(commit)
    PROVE  Inv'
  <1>1. commit \in Entries /\ commit.kind \in {"feat", "chore"}
    BY DEF Entries, Pushed
  <1>2. main' = Append(main, commit) /\ Triggered(Tip, Tip + 1)
    BY DEF Push, Tip
  <1>3. pushes' \in 0..MaxPushes
    BY ReleaseAssumption DEF Push, Inv, Released
  <1>4. History'
    BY <1>1, <1>2, GrowthKeepsHistory DEF Inv
  <1>5. Released'
    BY <1>1, <1>2, <1>3, GrowthKeepsReleased DEF Inv, Push
  <1>6. Scheduled' /\ ~Quiet'
    BY <1>1, <1>2, TriggerKeepsScheduled DEF Inv
  <1>7. QED
    BY <1>4, <1>5, <1>6 DEF Inv, QuietMeansDone

LEMMA VersionEntry ==
    ASSUME Inv
    PROVE  /\ VersionPackages(versionPr \cap Pending(Tip)) \in Entries
           /\ VersionPackages(versionPr \cap Pending(Tip)).kind = "version"
           /\ VersionPackages(versionPr \cap Pending(Tip)).consumes = versionPr \cap Pending(Tip)
  <1>1. Tip \in Nat /\ Pending(Tip) \subseteq 1..Tip
    BY MainFacts, AddedFacts DEF Inv, History, Pending
  <1>2. versionPr \cap Pending(Tip) \in SUBSET Nat
    BY <1>1
  <1>3. QED
    BY <1>2 DEF VersionPackages, Entries

LEMMA MergeKeepsInv ==
    ASSUME Inv, MergeVersionPr
    PROVE  Inv'
  <1> DEFINE e == VersionPackages(versionPr \cap Pending(Tip))
  <1>1. e \in Entries /\ e.kind = "version" /\ e.consumes = versionPr \cap Pending(Tip)
    BY VersionEntry
  <1>2. main' = Append(main, e) /\ Triggered(Tip, Tip + 1)
    BY DEF MergeVersionPr, Tip
  <1>3. e.consumes \subseteq Added(Tip)
    BY <1>1 DEF Pending
  <1> HIDE DEF e
  <1>4. History'
    BY <1>1, <1>2, <1>3, GrowthKeepsHistory DEF Inv
  <1>5. Released'
    BY <1>1, <1>2, GrowthKeepsReleased DEF Inv, Released, MergeVersionPr
  <1>6. Scheduled' /\ ~Quiet'
    BY <1>1, <1>2, TriggerKeepsScheduled DEF Inv
  <1>7. QED
    BY <1>4, <1>5, <1>6 DEF Inv, QuietMeansDone

\* Whatever leaves main alone keeps its checkouts.
LEMMA SameMain ==
    ASSUME main' = main
    PROVE  /\ Tip' = Tip
           /\ \A n : Added(n)' = Added(n) /\ Consumed(n)' = Consumed(n) /\ Pending(n)' = Pending(n)
           /\ \A c : Covers(c)' = Covers(c)
           /\ History => History'
           /\ Released /\ UNCHANGED <<versionPr, published, pushes>> => Released'
  BY DEF Tip, Added, Consumed, Pending, Covers, History, Released

\* A job that generates a changeset does so for a feat that has none.
LEMMA CountKeepsInv ==
    ASSUME Inv, CountAndGenerate
    PROVE  Inv'
  <1>1. /\ Tip \in Nat /\ job.sha \in 1..Tip /\ job.head = job.sha
        /\ job.sha = job.before + 1 /\ job \in Jobs /\ job.before \in Nat
        /\ main[job.sha].kind # "changeset"
    BY MainFacts DEF Inv, History, Scheduled, JobOK, CountAndGenerate, Jobs
  <1>2. /\ job' \in Jobs /\ job'.before = job.before /\ job'.sha = job.sha
        /\ job'.head = job.head /\ job'.at \in {"commit", "action"}
    BY <1>1 DEF CountAndGenerate, Jobs
  <1>3. ASSUME job'.at = "commit"
        PROVE  main[job.sha].kind = "feat" /\ ~main[job.sha].brings /\ Pending(job.sha) = {}
    <2>1. Pending(job.sha) = {} /\ Releasable(job.before, job.sha) # {}
      BY <1>1, <1>3 DEF CountAndGenerate, Jobs
    <2>2. main[job.sha].kind = "feat"
      BY <1>1, <2>1 DEF Releasable
    <2>3. job.sha \notin Consumed(job.sha)
      BY <1>1, ConsumedFacts DEF Inv
    <2>4. job.sha \notin Added(job.sha)
      BY <2>1, <2>3 DEF Pending
    <2>5. QED
      BY <1>1, <2>1, <2>2, <2>4 DEF Added
  <1>4. main' = main /\ waiting' = waiting /\ job.at = "checkout"
    BY DEF CountAndGenerate
  <1>5. JobOK(job)'
    BY <1>1, <1>2, <1>3, <1>4, SameMain DEF JobOK
  <1>6. JobOK(waiting)'
    BY <1>4, SameMain DEF Inv, Scheduled, JobOK
  <1>7. Scheduled'
    BY <1>2, <1>4, <1>5, <1>6, SameMain DEF Inv, Scheduled
  <1>8. History' /\ Released'
    BY <1>4, SameMain DEF Inv, CountAndGenerate
  <1>9. QED
    BY <1>2, <1>7, <1>8 DEF Inv, QuietMeansDone, Quiet

LEMMA JobEndsKeepsScheduled ==
    ASSUME Inv, JobEnds, main' = main
    PROVE  /\ Scheduled'
           /\ Quiet' => job.at = "none" \/ job.head = Tip
  <1>1. JobOK(NoJob) /\ NoJob.at = "none"
    BY MainFacts DEF NoJob, Jobs, JobOK, Inv, History
  <1>2. JobOK(waiting)
    BY DEF Inv, Scheduled
  <1>3. JobOK(job)' /\ JobOK(waiting)'
    BY <1>1, <1>2, SameMain DEF JobEnds, JobOK
  <1>4. /\ job'.at \in {"none", "checkout"} /\ waiting'.at = "none"
        /\ job'.at = "checkout" => job'.head = Tip'
    BY <1>1, SameMain DEF Inv, Scheduled, JobOK, JobEnds
  <1>5. QED
    BY <1>3, <1>4 DEF Inv, Scheduled, JobEnds, Quiet

\* The changeset that a job commits stands behind the feat it was made for.
LEMMA CommitsBehindFeat ==
    ASSUME Inv, job.at = "commit", Tip = job.sha
    PROVE  /\ Tip \in Nat \ {0} /\ waiting.at = "none"
           /\ main[Tip].kind = "feat" /\ ~main[Tip].brings
           /\ Releasable(job.before, job.sha) = {Tip}
           /\ Changeset(Releasable(job.before, job.sha)) \in Entries
           /\ Changeset(Releasable(job.before, job.sha)).kind = "changeset"
           /\ Changeset(Releasable(job.before, job.sha)).covers = {Tip}
  <1>1. job.before \in Nat /\ job.sha = job.before + 1 /\ job.head = job.sha
    BY DEF Inv, Scheduled, JobOK, Jobs
  <1>2. Tip \in Nat \ {0} /\ main[Tip].kind = "feat" /\ ~main[Tip].brings /\ waiting.at = "none"
    BY <1>1 DEF Inv, Scheduled, JobOK
  <1>3. Releasable(job.before, job.sha) = {Tip}
    BY <1>1, <1>2 DEF Releasable
  <1>4. {Tip} \in SUBSET Nat
    BY <1>2
  <1>5. QED
    BY <1>2, <1>3, <1>4 DEF Changeset, Entries

\* The one changeset pending after a job committed it is the one it committed.
LEMMA CommitPends ==
    ASSUME History, NEW e \in Entries, e.kind = "changeset", main' = Append(main, e),
           Pending(Tip) = {}
    PROVE  Pending(Tip)' = {Tip + 1}
  <1>1. Added(Tip)' = Added(Tip) \cup {Tip + 1} /\ Consumed(Tip)' = Consumed(Tip)
    BY NewTip
  <1>2. Tip \in Nat /\ Tip + 1 \notin Consumed(Tip)
    BY MainFacts, ConsumedFacts, AddedFacts DEF History
  <1>3. QED
    BY <1>1, <1>2 DEF Pending

LEMMA CommitKeepsInv ==
    ASSUME Inv, CommitChangeset
    PROVE  Inv'
  <1>1. /\ Tip \in Nat /\ job \in Jobs /\ job.at = "commit" /\ job.head = job.sha
        /\ job.sha \in Nat /\ job.sha >= 1 /\ Pending(job.sha) = {}
    BY MainFacts DEF Inv, History, Scheduled, JobOK, Jobs, CommitChangeset
  <1>2. CASE Tip = job.sha
    <2> DEFINE e == Changeset(Releasable(job.before, job.sha))
    <2>1. e \in Entries /\ e.kind = "changeset" /\ e.covers = {Tip} /\ Tip >= 1
      BY <1>1, <1>2, CommitsBehindFeat
    <2>2. main[Tip].kind = "feat" /\ ~main[Tip].brings /\ waiting.at = "none"
      BY <1>1, <1>2, CommitsBehindFeat
    <2>3. main' = Append(main, e) /\ job' = [job EXCEPT !.at = "action", !.head = @ + 1]
          /\ waiting' = waiting
      BY <1>2 DEF CommitChangeset, Tip
    <2> HIDE DEF e
    <2>4. History'
      BY <2>1, <2>2, <2>3, GrowthKeepsHistory DEF Inv
    <2>5. Released'
      BY <2>1, <2>3, GrowthKeepsReleased DEF Inv, Released, CommitChangeset
    <2>6. /\ job' \in Jobs /\ job'.at = "action" /\ job'.sha = Tip /\ job'.head = Tip + 1
          /\ Tip' = Tip + 1 /\ main'[Tip + 1] = e
      <3>1. Tip' = Tip + 1 /\ main'[Tip + 1] = e
        BY <2>1, <2>3, MainGrows DEF Inv
      <3>2. job.head + 1 \in Nat /\ job' = [job EXCEPT !.at = "action", !.head = job.head + 1]
        BY <1>1, <2>3 DEF Jobs
      <3>3. job' \in Jobs /\ job'.at = "action" /\ job'.sha = job.sha /\ job'.head = job.head + 1
        BY <1>1, <3>2 DEF Jobs
      <3>4. QED
        BY <1>1, <1>2, <3>1, <3>3
    <2>7. Pending(job.sha)' = {} /\ Pending(Tip)' = {Tip + 1}
      <3>1. Pending(Tip)' = {Tip + 1}
        BY <1>1, <1>2, <2>1, <2>3, CommitPends DEF Inv
      <3>2. \A n \in 0..Tip : Pending(n)' = Pending(n)
        BY <2>1, <2>3, MainGrows DEF Inv
      <3>3. job'.sha = job.sha /\ job.sha \in 0..Tip
        BY <1>1, <1>2, <2>6
      <3>4. Pending(job.sha)' = Pending(job.sha)
        BY <3>2, <3>3 DEF Pending, Added, Consumed
      <3>5. QED
        BY <1>1, <3>1, <3>4
    <2>8. JobOK(job)'
      <3>1. Pending(job.head)' = {Tip + 1}
        BY <2>6, <2>7 DEF Pending, Added, Consumed
      <3>2. QED
        BY <1>1, <2>1, <2>6, <2>7, <3>1 DEF JobOK
    <2>9. JobOK(waiting)'
      BY <2>1, <2>3, JobKept DEF Inv, Scheduled
    <2>10. Scheduled'
      BY <2>2, <2>3, <2>6, <2>8, <2>9 DEF Scheduled
    <2>11. QED
      BY <2>4, <2>5, <2>6, <2>10 DEF Inv, QuietMeansDone, Quiet
  <1>3. CASE Tip # job.sha
    <2>1. main' = main /\ JobEnds /\ UNCHANGED <<versionPr, published, pushes>>
      BY <1>3 DEF CommitChangeset, Tip
    <2>2. History' /\ Released' /\ Scheduled' /\ ~Quiet'
      BY <1>1, <1>3, <2>1, SameMain, JobEndsKeepsScheduled DEF Inv
    <2>3. QED
      BY <2>2 DEF Inv, QuietMeansDone
  <1>4. QED
    BY <1>2, <1>3

\* What the action offers, and why, for a job whose checkout is the tip.
LEMMA ActionOfTip ==
    ASSUME Inv, job.at = "action", job.head = Tip
    PROVE  /\ Pending(job.sha) # {} => Pending(job.sha) = Pending(Tip) /\ main[Tip].kind # "changeset"
           /\ Pending(job.sha) = {} /\ Pending(Tip) # {} =>
                 Pending(Tip) = {Tip} /\ Tip > 0 /\ main[Tip].kind = "changeset"
  <1>1. JobOK(job) /\ Tip \in Nat
    BY MainFacts DEF Inv, History, Scheduled
  <1>2. CASE job.head = job.sha /\ main[job.head].kind # "changeset"
    BY <1>2
  <1>3. CASE /\ main[job.head].kind = "changeset"
             /\ Pending(job.sha) = {} /\ Pending(job.head) = {job.head}
    <2>1. job.sha >= 1 /\ job.sha <= job.head /\ job.sha \in Nat
      BY <1>1 DEF JobOK, Jobs
    <2>2. Tip > 0
      BY <1>1, <2>1
    <2>3. QED
      BY <1>3, <2>2
  <1>4. QED
    BY <1>1, <1>2, <1>3 DEF JobOK

LEMMA ActionKeepsInv ==
    ASSUME Inv, CreatePrOrPublish
    PROVE  Inv'
  <1>1. Tip \in Nat /\ job.sha \in 0..Tip /\ job.head \in 0..Tip /\ job.at = "action"
    BY MainFacts DEF Inv, History, Scheduled, JobOK, CreatePrOrPublish, Jobs
  <1>2. main' = main /\ JobEnds /\ pushes' = pushes
    BY DEF CreatePrOrPublish
  <1>3. History' /\ Scheduled' /\ (Quiet' => job.head = Tip)
    BY <1>1, <1>2, SameMain, JobEndsKeepsScheduled DEF Inv
  <1>4. Tip' = Tip /\ Added(Tip)' = Added(Tip) /\ Consumed(Tip)' = Consumed(Tip)
        /\ Pending(Tip)' = Pending(Tip) /\ \A c : Covers(c)' = Covers(c)
    BY <1>2 DEF Tip, Added, Consumed, Pending, Covers
  <1>5. Pending(job.sha) \subseteq Added(Tip) /\ Consumed(job.head) \subseteq Consumed(Tip)
    BY <1>1, AddedFacts DEF Pending
  <1>6. CASE /\ Pending(job.head) # {} /\ Pending(job.sha) # {}
             /\ versionPr' = Pending(job.sha)
             /\ UNCHANGED published
    <2>1. Released'
      BY <1>2, <1>4, <1>5, <1>6 DEF Inv, Released
    <2>2. QuietMeansDone'
      <3>1. SUFFICES ASSUME Quiet'  PROVE QuietMeansDone'
        BY DEF QuietMeansDone
      <3>2. versionPr' = Pending(Tip)' /\ Pending(Tip)' # {} /\ main'[Tip'].kind # "changeset"
        BY <1>1, <1>2, <1>3, <1>4, <1>6, <3>1, ActionOfTip
      <3>3. QED
        BY <3>2 DEF QuietMeansDone
    <2>3. QED
      BY <1>3, <2>1, <2>2 DEF Inv
  <1>7. CASE /\ Pending(job.head) # {} /\ Pending(job.sha) = {}
             /\ versionPr' = NoPr
             /\ UNCHANGED published
    <2>1. Released'
      BY <1>2, <1>4, <1>7 DEF Inv, Released
    <2>2. QuietMeansDone'
      <3>1. SUFFICES ASSUME Quiet'  PROVE QuietMeansDone'
        BY DEF QuietMeansDone
      <3>2. /\ Pending(Tip)' = {Tip'} /\ Tip' > 0 /\ main'[Tip'].kind = "changeset"
            /\ versionPr' = NoPr'
        BY <1>1, <1>2, <1>3, <1>4, <1>7, <3>1, ActionOfTip DEF NoPr
      <3>3. AwaitsPush'
        BY <3>1, <3>2 DEF AwaitsPush
      <3>4. QED
        BY <3>2, <3>3 DEF QuietMeansDone
    <2>3. QED
      BY <1>3, <2>1, <2>2 DEF Inv
  <1>8. CASE /\ Pending(job.head) = {}
             /\ published' = published \cup UNION {Covers(c) : c \in Consumed(job.head)}
             /\ UNCHANGED versionPr
    <2>1. published' \subseteq UNION {Covers(c) : c \in Consumed(Tip)}
      BY <1>5, <1>8 DEF Inv, Released
    <2>2. Released'
      BY <1>2, <1>4, <1>8, <2>1 DEF Inv, Released
    <2>3. QuietMeansDone'
      <3>1. SUFFICES ASSUME Quiet'  PROVE QuietMeansDone'
        BY DEF QuietMeansDone
      <3>2. Pending(Tip)' = {}
        BY <1>3, <1>4, <1>8, <3>1
      <3>3. UNION {Covers(c) : c \in Consumed(Tip)} \subseteq published'
        BY <1>3, <1>8, <3>1
      <3>4. UNION {Covers(c)' : c \in Consumed(Tip)'} \subseteq published'
        BY <1>4, <3>3
      <3>5. QED
        BY <3>2, <3>4 DEF QuietMeansDone
    <2>4. QED
      BY <1>3, <2>2, <2>3 DEF Inv
  <1>9. QED
    BY <1>6, <1>7, <1>8 DEF CreatePrOrPublish

LEMMA InvInit ==
    ASSUME Init
    PROVE  Inv
  <1>1. Tip = 0 /\ main \in Seq(Entries)
    BY DEF Init, Tip
  <1>2. Added(Tip) = {} /\ Consumed(Tip) = {} /\ Pending(Tip) = {}
    BY <1>1 DEF Added, Consumed, Pending
  <1>3. JobOK(NoJob) /\ NoJob.at = "none"
    BY <1>1 DEF NoJob, Jobs, JobOK
  <1>4. Scheduled
    BY <1>3 DEF Init, Scheduled
  <1>5. History
    BY <1>1 DEF History
  <1>6. Released
    BY ReleaseAssumption DEF Init, Released
  <1>7. QuietMeansDone
    BY <1>2 DEF QuietMeansDone
  <1>8. QED
    BY <1>4, <1>5, <1>6, <1>7 DEF Inv

LEMMA InvStep ==
    ASSUME Inv, [Next]_vars
    PROVE  Inv'
  <1>1. ASSUME NEW commit \in Pushed, Push(commit)  PROVE Inv'
    BY <1>1, PushKeepsInv
  <1>2. CASE MergeVersionPr
    BY <1>2, MergeKeepsInv
  <1>3. CASE Job
    BY <1>3, CountKeepsInv, CommitKeepsInv, ActionKeepsInv DEF Job
  <1>4. CASE UNCHANGED vars
    <2>1. UNCHANGED <<main, job, waiting, versionPr, published, pushes>>
      BY <1>4 DEF vars
    <2>2. History' /\ Released'
      BY <2>1, SameMain DEF Inv
    <2>3. Scheduled'
      BY <2>1, SameMain DEF Inv, Scheduled, JobOK
    <2>4. QuietMeansDone'
      BY <2>1 DEF Inv, QuietMeansDone, Quiet, AwaitsPush, Pending, Added, Consumed, Covers, Tip
    <2>5. QED
      BY <2>2, <2>3, <2>4 DEF Inv
  <1>5. QED
    BY <1>1, <1>2, <1>3, <1>4 DEF Next

LEMMA ReleaseInvariant == Spec => []Inv
  <1>1. Init => Inv
    BY InvInit
  <1>2. Inv /\ [Next]_vars => Inv'
    BY InvStep
  <1>3. QED
    BY <1>1, <1>2, PTL DEF Spec

(***************************************************************************)
(* The properties the runs check.                                          *)
(***************************************************************************)

\* Only what a consumed changeset covers is published, and that is on main.
LEMMA PublishedOnMain ==
    ASSUME Inv
    PROVE  published \subseteq 1..Tip
  <1>1. ASSUME NEW i \in published  PROVE i \in 1..Tip
    <2>1. PICK c \in Consumed(Tip) : i \in Covers(c)
      BY DEF Inv, Released
    <2>2. Tip \in 0..Tip
      BY MainFacts DEF Inv, History
    <2>3. c \in Added(Tip)
      BY <2>2, ConsumedFacts DEF Inv
    <2>4. QED
      BY <2>1, <2>3, CoversOne DEF Inv
  <1>2. QED
    BY <1>1

LEMMA InvImpliesTypeOK ==
    ASSUME Inv
    PROVE  TypeOK
  <1>1. Tip \in Nat /\ \A i \in 1..Tip : main[i] \in Entries
    BY MainFacts DEF Inv, History
  <1>2. ASSUME NEW i \in 1..Tip
        PROVE  \/ main[i] \in Pushed
               \/ main[i] \in [kind : {"changeset"}, covers : SUBSET Feats]
               \/ main[i] \in [kind : {"version"}, consumes : SUBSET Added(Tip)]
    <2>1. CASE main[i] \in Pushed
      BY <2>1
    <2>2. CASE main[i] \in [kind : {"changeset"}, covers : SUBSET Nat]
      <3>1. i > 1 /\ main[i].covers = {i - 1} /\ main[i - 1].kind = "feat"
        BY <2>2 DEF Inv, History
      <3>2. i - 1 \in Feats
        BY <1>1, <3>1 DEF Feats
      <3>3. main[i].covers \in SUBSET Feats
        BY <3>1, <3>2
      <3>4. QED
        BY <2>2, <3>3
    <2>3. CASE main[i] \in [kind : {"version"}, consumes : SUBSET Nat]
      <3>1. main[i].consumes \subseteq Added(i - 1)
        BY <2>3 DEF Inv, History
      <3>2. Added(i - 1) \subseteq Added(Tip)
        BY <1>1, AddedFacts
      <3>3. main[i].consumes \in SUBSET Added(Tip)
        BY <3>1, <3>2
      <3>4. QED
        BY <2>3, <3>3
    <2>4. QED
      BY <1>1, <2>1, <2>2, <2>3 DEF Entries
  <1>3. QED
    BY <1>2, PublishedOnMain DEF TypeOK, Inv, Scheduled, JobOK, Released

LEMMA InvImpliesCoveredOnce ==
    ASSUME Inv
    PROVE  CoveredOnce
  BY OneCover DEF CoveredOnce, Covering, Inv

\* Type correctness: a changeset covers feats of main, a merge consumes
\* changesets of main, no job is ahead of main, nothing else is published.
THEOREM ReleaseTypeCorrect == Spec => []TypeOK
  BY ReleaseInvariant, InvImpliesTypeOK, PTL

\* A commit is in one changeset at most, however many jobs look at it: a job
\* looks at one pushed commit, generates a changeset only where that commit
\* brought none, and commits it only right behind it.
THEOREM CoveredInOne == Spec => []CoveredOnce
  BY ReleaseInvariant, InvImpliesCoveredOnce, PTL

\* When no job is left, the pull request offers what is pending, or what was
\* merged is published, although jobs are replaced, rejected and stale; or the
\* last job generated a changeset, which alone is pending, and nothing offers it.
\* The last job to end has the tip in its checkout.
THEOREM QuietJobsDone == Spec => []QuietMeansDone
  <1>1. Inv => QuietMeansDone
    BY DEF Inv
  <1>2. QED
    BY <1>1, ReleaseInvariant, PTL

(***************************************************************************)
(* The workflow implements Releasing, step by step.                        *)
(***************************************************************************)

\* What is published of a changeset was merged with it.
LEMMA PublishedIsConsumed ==
    ASSUME History, NEW P, P \subseteq UNION {Covers(c) : c \in Consumed(Tip)},
           NEW c \in Added(Tip), Covers(c) \subseteq P
    PROVE  c \in Consumed(Tip)
  <1>1. Consumed(Tip) \subseteq Added(Tip)
    BY MainFacts, ConsumedFacts DEF History
  <1>2. PICK i : i \in Covers(c)
    BY CoversOne
  <1>3. PICK d \in Consumed(Tip) : i \in Covers(d)
    BY <1>2
  <1>4. d = c
    BY <1>1, <1>2, <1>3, OneCover
  <1>5. QED
    BY <1>3, <1>4

\* A commit that carries a changeset, and whatever carries none.
LEMMA ArriveRefines ==
    ASSUME Inv, NEW e \in Entries, main' = Append(main, e), UNCHANGED <<versionPr, published>>,
           NEW n \in Nat, n = Tip + 1,
           Added(Tip)' = Added(Tip) \cup {n}, Consumed(Tip)' = Consumed(Tip),
           ~(Covers(n)' \subseteq published)
    PROVE  Abstract!Arrive
  <1>1. /\ Tip \in Nat
        /\ Added(Tip) \subseteq 1..Tip
        /\ Consumed(Tip) \subseteq Added(Tip)
    BY MainFacts, AddedFacts, ConsumedFacts DEF Inv, History
  <1>2. n \notin Added(Tip) /\ n \notin Consumed(Tip) /\ n \notin versionPr
    BY <1>1 DEF Inv, Released, NoPr
  <1>3. Pending(Tip)' = Pending(Tip) \cup {n} /\ n \notin Pending(Tip)
    BY <1>2 DEF Pending
  <1>4. (versionPr \cap Pending(Tip))' = versionPr \cap Pending(Tip)
    BY <1>2, <1>3
  <1>5. \A c \in Added(Tip) : Covers(c)' = Covers(c)
    BY <1>1, MainGrows DEF Inv
  <1>6. {c \in Added(Tip) : Covers(c) \subseteq published}'
        = {c \in Added(Tip) : Covers(c) \subseteq published}
    BY <1>2, <1>5
  <1>7. \E c \in Pending(Tip)' \ (Pending(Tip) \cup Consumed(Tip)) :
           Pending(Tip)' = Pending(Tip) \cup {c}
    BY <1>2, <1>3
  <1>8. QED
    BY <1>4, <1>6, <1>7 DEF Abstract!Arrive

LEMMA NoArrivalStutters ==
    ASSUME Inv, \/ /\ main' = main
                   /\ UNCHANGED <<versionPr, published>>
                \/ /\ \E e \in Entries : main' = Append(main, e)
                   /\ Added(Tip)' = Added(Tip) /\ Consumed(Tip)' = Consumed(Tip)
                   /\ UNCHANGED <<versionPr, published>>
    PROVE  UNCHANGED Abstract!vars
  <1>1. Tip \in Nat /\ Added(Tip) \subseteq 1..Tip
    BY MainFacts, AddedFacts DEF Inv, History
  <1>2. Added(Tip)' = Added(Tip) /\ Consumed(Tip)' = Consumed(Tip)
    BY SameMain DEF Added, Consumed, Tip
  <1>3. \A c \in Added(Tip) : Covers(c)' = Covers(c)
    BY <1>1, MainGrows, SameMain DEF Inv
  <1>4. Pending(Tip)' = Pending(Tip)
    BY <1>2 DEF Pending
  <1>5. {c \in Added(Tip) : Covers(c) \subseteq published}'
        = {c \in Added(Tip) : Covers(c) \subseteq published}
    BY <1>2, <1>3
  <1>6. QED
    BY <1>2, <1>4, <1>5 DEF Abstract!vars

LEMMA PushRefines ==
    ASSUME Inv, NEW commit \in Pushed, Push(commit)
    PROVE  Abstract!Arrive \/ UNCHANGED Abstract!vars
  <1>1. commit \in Entries /\ commit.kind \in {"feat", "chore"}
    BY DEF Entries, Pushed
  <1>2. main' = Append(main, commit) /\ UNCHANGED <<versionPr, published>>
    BY DEF Push
  <1>3. CASE ~commit.brings
    <2>1. Added(Tip)' = Added(Tip) /\ Consumed(Tip)' = Consumed(Tip)
      BY <1>1, <1>2, <1>3, NewTip DEF Inv
    <2>2. QED
      BY <1>1, <1>2, <2>1, NoArrivalStutters
  <1>4. CASE commit.brings
    <2> Tip \in Nat
      BY MainFacts DEF Inv, History
    <2>1. PICK n \in Nat : n = Tip + 1
      OBVIOUS
    <2>2. Added(Tip)' = Added(Tip) \cup {n} /\ Consumed(Tip)' = Consumed(Tip)
      BY <1>1, <1>2, <1>4, <2>1, NewTip DEF Inv
    <2>3. main'[n] = commit
      BY <1>1, <1>2, <2>1, MainGrows DEF Inv
    <2>4. Covers(n)' = {n}
      BY <1>1, <2>3 DEF Covers
    <2>5. n \notin published
      BY <2>1, PublishedOnMain
    <2>6. ~(Covers(n)' \subseteq published)
      BY <2>4, <2>5
    <2>7. QED
      BY <1>1, <1>2, <2>1, <2>2, <2>6, ArriveRefines
  <1>5. QED
    BY <1>3, <1>4

LEMMA CommitRefines ==
    ASSUME Inv, CommitChangeset
    PROVE  Abstract!Arrive \/ UNCHANGED Abstract!vars
  <1>1. UNCHANGED <<versionPr, published>> /\ job.at = "commit"
    BY DEF CommitChangeset
  <1>2. CASE Tip = job.sha
    <2> DEFINE e == Changeset(Releasable(job.before, job.sha))
    <2>1. e \in Entries /\ e.kind = "changeset" /\ e.covers = {Tip}
      BY <1>1, <1>2, CommitsBehindFeat
    <2>2. Tip \in Nat /\ main[Tip].kind = "feat" /\ ~main[Tip].brings
      BY <1>1, <1>2, CommitsBehindFeat
    <2>3. main' = Append(main, e)
      BY <1>2 DEF CommitChangeset, Tip
    <2> HIDE DEF e
    <2>4. PICK n \in Nat : n = Tip + 1
      BY <2>2
    <2>5. Added(Tip)' = Added(Tip) \cup {n} /\ Consumed(Tip)' = Consumed(Tip)
      BY <2>1, <2>3, <2>4, NewTip DEF Inv
    <2>6. main'[n] = e
      BY <2>1, <2>3, <2>4, MainGrows DEF Inv
    <2>7. Covers(n)' = {Tip}
      BY <2>1, <2>6 DEF Covers
    <2>8. Tip \notin published
      <3>1. ASSUME NEW d \in Consumed(Tip), Tip \in Covers(d)  PROVE FALSE
        <4>1. d \in Added(Tip)
          BY <2>2, ConsumedFacts DEF Inv
        <4>2. d \in 1..Tip /\ (d = Tip => main[d].kind = "feat" /\ ~main[d].brings)
          BY <2>2, <4>1, CoversOne DEF Inv
        <4>3. QED
          BY <2>2, <3>1, <4>1, <4>2, CoversOne DEF Inv
      <3>2. QED
        BY <3>1 DEF Inv, Released
    <2>9. ~(Covers(n)' \subseteq published)
      BY <2>7, <2>8
    <2>10. QED
      BY <1>1, <2>1, <2>3, <2>4, <2>5, <2>9, ArriveRefines
  <1>3. CASE Tip # job.sha
    BY <1>1, <1>3, NoArrivalStutters DEF CommitChangeset, Tip
  <1>4. QED
    BY <1>2, <1>3

LEMMA MergeRefines ==
    ASSUME Inv, MergeVersionPr
    PROVE  Abstract!Merge
  <1> DEFINE e == VersionPackages(versionPr \cap Pending(Tip))
  <1>1. e \in Entries /\ e.kind = "version" /\ e.consumes = versionPr \cap Pending(Tip)
    BY VersionEntry
  <1>2. main' = Append(main, e) /\ versionPr' = NoPr /\ published' = published
    BY DEF MergeVersionPr, Tip
  <1> HIDE DEF e
  <1>3. /\ Added(Tip)' = Added(Tip)
        /\ Consumed(Tip)' = Consumed(Tip) \cup (versionPr \cap Pending(Tip))
    BY <1>1, <1>2, NewTip DEF Inv
  <1>4. Tip \in Nat /\ Added(Tip) \subseteq 1..Tip
    BY MainFacts, AddedFacts DEF Inv, History
  <1>5. Pending(Tip)' = Pending(Tip) \ (versionPr \cap Pending(Tip))
    BY <1>3 DEF Pending
  <1>6. (versionPr \cap Pending(Tip))' = {}
    BY <1>2, <1>4, <1>5 DEF NoPr, Pending
  <1>7. \A c \in Added(Tip) : Covers(c)' = Covers(c)
    BY <1>1, <1>2, <1>4, MainGrows DEF Inv
  <1>8. {c \in Added(Tip) : Covers(c) \subseteq published}'
        = {c \in Added(Tip) : Covers(c) \subseteq published}
    BY <1>2, <1>3, <1>7
  <1>9. QED
    BY <1>3, <1>5, <1>6, <1>8 DEF Abstract!Merge

LEMMA ActionRefines ==
    ASSUME Inv, CreatePrOrPublish
    PROVE  Abstract!Next
  <1>1. Tip \in Nat /\ job.sha \in 0..Tip /\ job.head \in 0..Tip
    BY MainFacts DEF Inv, History, Scheduled, JobOK, CreatePrOrPublish, Jobs
  <1>2. main' = main
    BY DEF CreatePrOrPublish
  <1>3. /\ Added(Tip)' = Added(Tip) /\ Consumed(Tip)' = Consumed(Tip)
        /\ Pending(Tip)' = Pending(Tip) /\ \A c : Covers(c)' = Covers(c)
    BY <1>2 DEF Tip, Added, Consumed, Pending, Covers
  <1>4. ASSUME NEW offer, versionPr' = offer, published' = published
        PROVE  Abstract!Next
    <2>1. (versionPr \cap Pending(Tip))' = offer \cap Pending(Tip)
      BY <1>3, <1>4
    <2>2. {c \in Added(Tip) : Covers(c) \subseteq published}'
          = {c \in Added(Tip) : Covers(c) \subseteq published}
      BY <1>3, <1>4
    <2>3. Abstract!Offer(offer \cap Pending(Tip))
      BY <1>3, <2>1, <2>2 DEF Abstract!Offer
    <2>4. QED
      BY <2>3 DEF Abstract!Next
  <1>5. CASE /\ published' = published \cup UNION {Covers(c) : c \in Consumed(job.head)}
             /\ UNCHANGED versionPr
    <2> DEFINE Now == {c \in Added(Tip) : Covers(c) \subseteq published'}
    <2>1. published' \subseteq UNION {Covers(c) : c \in Consumed(Tip)}
      BY <1>1, <1>5, AddedFacts DEF Inv, Released
    <2>2. Now \in SUBSET Consumed(Tip)
      BY <2>1, PublishedIsConsumed DEF Inv
    <2>3. {c \in Added(Tip) : Covers(c) \subseteq published}' = Now
      BY <1>3
    <2>4. Now = {c \in Added(Tip) : Covers(c) \subseteq published} \cup Now
      BY <1>5
    <2>5. (versionPr \cap Pending(Tip))' = versionPr \cap Pending(Tip)
      BY <1>3, <1>5
    <2> HIDE DEF Now
    <2>6. Abstract!Publish(Now)
      BY <1>3, <2>3, <2>4, <2>5 DEF Abstract!Publish
    <2>7. QED
      BY <2>2, <2>6 DEF Abstract!Next
  <1>6. QED
    BY <1>4, <1>5 DEF CreatePrOrPublish

LEMMA StepRefines == Inv /\ [Next]_vars => [Abstract!Next]_(Abstract!vars)
  <1> SUFFICES ASSUME Inv, [Next]_vars  PROVE Abstract!Next \/ UNCHANGED Abstract!vars
    OBVIOUS
  <1>1. ASSUME NEW commit \in Pushed, Push(commit)
        PROVE  Abstract!Next \/ UNCHANGED Abstract!vars
    BY <1>1, PushRefines DEF Abstract!Next
  <1>2. CASE MergeVersionPr
    BY <1>2, MergeRefines DEF Abstract!Next
  <1>3. CASE CountAndGenerate \/ UNCHANGED vars
    BY <1>3, NoArrivalStutters DEF CountAndGenerate, vars
  <1>4. CASE CommitChangeset
    BY <1>4, CommitRefines DEF Abstract!Next
  <1>5. CASE CreatePrOrPublish
    BY <1>5, ActionRefines
  <1>6. QED
    BY <1>1, <1>2, <1>3, <1>4, <1>5 DEF Next, Job

\* Refinement: a changeset that reaches main waits until a merge consumes it,
\* is consumed once, by a merge of the pull request that offered it, and is
\* published after that and for good, whatever the order of pushes, jobs and
\* merges.
THEOREM ReleaseImplementsReleasing == Spec => ImplementsReleasing
  <1>1. Init => Abstract!Init
    BY DEF Init, Abstract!Init, Tip, Added, Consumed, Pending
  <1>2. QED
    BY <1>1, InvInit, InvStep, StepRefines, PTL
       DEF Spec, ImplementsReleasing, Abstract!Spec

=============================================================================
