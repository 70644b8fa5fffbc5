----------------------------- MODULE ReadsProofs -----------------------------
(* What the facts of one read are worth, for any history, runs, lists, trees  *)
(* and pages, and any number of changes between two requests.                 *)
EXTENDS Reads, SequenceTheorems, FiniteSetTheorems, WellFoundedInduction, TLAPS

ListNames == {"caches", "artifacts"}
Items(l) == ToSet(StartLists[l])
Pairs == Nat \X Nat

HubRecords ==
    [head : Commits \cup {0}, gone : SUBSET Commits, runs : Seq(RunRecords), clock : Nat,
     lists : [ListNames -> Seq([id : Nat, expired : BOOLEAN])], moves : [ListNames -> Nat],
     fault : Faults, events : Nat, ended : SUBSET Pairs]

\* GitHub reorders its lists and nothing more; its clock is past every job's end,
\* and every end is remembered.
HubInv ==
    /\ hub \in HubRecords
    /\ \A l \in ListNames : ToSet(hub.lists[l]) = Items(l) /\ IsInjective(hub.lists[l])
    /\ \A i \in DOMAIN hub.runs : \A end \in EndsOf(hub.runs[i].jobs) :
         end <= hub.clock /\ (end # 0 => <<i, end>> \in hub.ended)
    /\ \A x \in hub.ended : x[2] <= hub.clock

-----------------------------------------------------------------------------
(* The order of the requests. *)

Before == {"facts", "history", "runs", "jobs"}
BeforeClaude == Before \cup {"caches", "artifacts", "tree", "claude"}
AfterClaude == {"files", "getflake", "getflake_read", "gopath", "gopath_read", "shell", "shell_read", "done"}
AfterLists == {"tree", "claude", "manifest", "declared"} \cup AfterClaude
AfterJobs == {"caches", "artifacts"} \cup AfterLists
AfterHistory == {"runs", "jobs"} \cup AfterJobs
Asking == {"manifest", "declared", "getflake_read", "gopath_read", "shell_read"}
AfterScan(scan) ==
    CASE scan = "getflake" -> {"gopath", "gopath_read", "shell", "shell_read", "done"}
      [] scan = "gopath" -> {"shell", "shell_read", "done"}
      [] scan = "shell" -> {"done"}

\* A read that goes on has a commit, and what HEAD was at since is remembered.
SinceInv ==
    /\ DOMAIN got = DOMAIN Fact
    /\ got.since \subseteq Commits /\ got.oid \in Commits \cup {0}
    /\ pc \in {"facts"} \cup AfterHistory \cup {"history", "aborted"}
    /\ pc = "facts" => got = [Fact EXCEPT !.since = got.since]
    /\ pc \in AfterHistory \cup {"history"} => got.oid # 0 \/ pc = "done"
    /\ got.oid # 0 => got.oid \in got.since /\ hub.head \in got.since
    /\ got.want # {} => pc \in Asking

-----------------------------------------------------------------------------
(* The history walk. *)

Whence(oid, n) == {Author[Line[oid][i]] : i \in 1..n}
Upto(oid, at) == Min({at + HistoryPage, Len(Line[oid])})

WalkInv ==
    got.oid # 0 =>
      /\ pc = "history" =>
           /\ hub.fault = "alternate" => got.walk.more
           /\ hub.fault # "alternate" =>
                /\ got.walk.asked \in 0..Len(Line[got.oid])
                /\ got.walk.seen = Whence(got.oid, Upto(got.oid, got.walk.asked))
                /\ got.walk.more <=> Upto(got.oid, got.walk.asked) < Len(Line[got.oid])
                /\ got.walk.cursor \in {0, got.walk.asked, Upto(got.oid, got.walk.asked)}
      /\ pc \in AfterHistory => got.walk.seen = Whence(got.oid, Len(Line[got.oid]))

-----------------------------------------------------------------------------
(* Caches and artifacts. *)

\* The first n entries, counted once each.
CountedTo(l, n) ==
    got.lists[l] = [e \in Items(l) |->
                      IF Holds(l, e) /\ \E i \in DOMAIN hub.lists[l] : i <= n /\ hub.lists[l][i] = e THEN 1 ELSE 0]

ListInv ==
    /\ \A l \in ListNames :
         /\ pc \in Before \cup {l} \/ (l = "artifacts" /\ pc = "caches") => l \notin got.steady
         /\ (pc = l /\ got.turn.pages = 0) \/ pc \in Before \/ (l = "artifacts" /\ pc = "caches") =>
              got.lists[l] = [e \in Items(l) |-> 0]
         /\ pc = l /\ got.turn.pages # 0 =>
              /\ got.turn.from <= hub.moves[l]
              /\ hub.fault # "loop" /\ got.turn.from = hub.moves[l] => CountedTo(l, got.turn.next)
         /\ l \in got.steady => CountedTo(l, Len(hub.lists[l]))
    /\ got.turn \in [next : Nat, pages : Nat, from : Nat] /\ got.steady \subseteq ListNames
    /\ DOMAIN got.lists = ListNames
    /\ got.turn.pages = 0 => got.turn.next = 0
    /\ pc \in Before => got.turn = Fact.turn

-----------------------------------------------------------------------------
(* CI timing. *)

\* Jobs of run i that are those it was listed with, or of a later attempt.
Same(i, jobs) == jobs = got.full[i].jobs
Again(i, jobs) ==
    /\ jobs # <<>>
    /\ \A e \in EndsOf(jobs) : e = 0 \/ \A end \in EndsOf(got.full[i].jobs) : end <= e

FullInv ==
    pc \in {"jobs"} \cup AfterJobs /\ got.oid # 0 =>
      /\ got.full \in Seq(RunRecords) /\ DOMAIN got.full \subseteq DOMAIN hub.runs
      /\ DOMAIN got.listed \subseteq DOMAIN got.full
      /\ \A i \in DOMAIN got.listed : got.listed[i] = got.full[i]
      /\ \A i \in DOMAIN got.full :
           /\ \A end \in EndsOf(got.full[i].jobs) : end <= hub.clock
           /\ got.full[i].status = "completed" =>
                \/ hub.runs[i].status = "completed" /\ Same(i, hub.runs[i].jobs)
                \/ Again(i, hub.runs[i].jobs)

JobsRead(i) ==
    /\ got.jobs[i] \in [total : Nat, shown : Seq(JobRecords)]
    /\ \A end \in EndsOf(got.jobs[i].shown) : end # 0 => <<i, end>> \in hub.ended
    /\ got.full[i].status = "completed" /\ got.jobs[i].total <= Len(got.jobs[i].shown) =>
         Same(i, got.jobs[i].shown) \/ Again(i, got.jobs[i].shown)

JobsInv ==
    /\ pc \in {"facts", "history", "runs"} => got.jobs = <<>>
    /\ pc = "jobs" =>
        /\ got.todo \subseteq DOMAIN got.listed
        /\ \A s \in got.sample : CountedIn(s, got.listed) \subseteq got.todo \cup DOMAIN got.jobs
        /\ DOMAIN got.jobs \subseteq DOMAIN got.full
        /\ \A i \in DOMAIN got.jobs : JobsRead(i)

\* What CompleteWait says of one sample.
WaitOK(s) ==
    LET runs == CountedIn(s, got.full)
    IN \/ runs # CountedIn(s, got.listed)
       \/ /\ \A i \in runs : got.full[i].status = "completed"
          /\ \A i, k \in runs : \A end \in EndsOf(got.full[i].jobs) : got.timing[s].wait >= end - got.full[k].created
          /\ \E x \in hub.ended : \E k \in runs : x[1] \in runs /\ got.timing[s].wait = WholeSeconds(x[2] - got.full[k].created)

TimingInv ==
    pc \in AfterJobs /\ got.oid # 0 => \A s \in got.sample : got.timing[s].complete => WaitOK(s)

-----------------------------------------------------------------------------
(* The files. *)

\* A text is what some commit since the tree's has at its path.
BlobsInv ==
    got.oid # 0 =>
      /\ \A p \in DOMAIN got.blobs : \E c \in got.since : got.blobs[p] = Blob(c, p)
      /\ \A p \in DOMAIN got.files : Says(p, got.files[p])

\* What NothingPassedOver says of the Claude files.
ClaudeOK ==
    /\ ~got.claude.unreadable =>
         /\ {p \in Files(got.oid) : IsProjectSkill(p) \/ IsSettings(p)} \subseteq DOMAIN got.claude.files
         /\ DeclaredBy(got.manifest) \subseteq DOMAIN got.claude.files \cup Dirs(Files(got.oid)) \cup {<<>>}
    /\ \A p \in DOMAIN got.claude.files :
         Says(p, got.claude.files[p]) \/ (p \notin Files(got.oid) /\ got.claude.files[p] = Unreadable)

ClaudeInv ==
    got.oid # 0 =>
      /\ pc \in BeforeClaude \cup {"manifest"} => got.manifest = NoManifest
      /\ pc \in BeforeClaude => got.claude = Fact.claude
      /\ pc \in {"manifest", "declared"} => ToRead(Layout) \subseteq got.want \cup DOMAIN got.blobs
      /\ pc = "declared" => got.manifest.present /\ Layout.missing = {}
      /\ pc \in AfterClaude => ClaudeOK

\* And of one scan.
ScanOK(scan) ==
    ~got.scans[scan].tooMany =>
      \A p \in Candidates(scan) :
        IF p \in DOMAIN got.scans[scan].files THEN Says(p, got.scans[scan].files[p]) ELSE Silent(scan, p)

ScanInv ==
    /\ DOMAIN got.scans = DOMAIN NextScan
    /\ got.oid # 0 =>
         \A scan \in DOMAIN NextScan :
           /\ pc = Following[scan] => Wanted(scan) \subseteq got.want \cup DOMAIN got.blobs
           /\ pc \in AfterScan(scan) => ScanOK(scan)

-----------------------------------------------------------------------------
(* What a change of GitHub's is to a read. *)

\* A run goes on, or is run again: its jobs' ends are new ones, or those it had
\* when it was not over.
GoesOn(old, new) ==
    \/ new.status = old.status /\ new.jobs = old.jobs
    \/ /\ \A end \in EndsOf(new.jobs) : \/ end = 0 \/ end = hub.clock
                                        \/ old.status = "in_progress" /\ end \in EndsOf(old.jobs)
       /\ old.status = "completed" \/ old.jobs # <<>> => new.jobs # <<>>

RunsGoOn ==
    /\ DOMAIN hub.runs \subseteq DOMAIN hub'.runs
    /\ \A i \in DOMAIN hub.runs : GoesOn(hub.runs[i], hub'.runs[i])
    /\ hub.clock <= hub'.clock /\ hub.ended \subseteq hub'.ended

ListsMove ==
    /\ hub'.fault = hub.fault
    /\ \A l \in ListNames : /\ hub.moves[l] <= hub'.moves[l]
                            /\ hub'.moves[l] = hub.moves[l] => hub'.lists[l] = hub.lists[l]
                            /\ DOMAIN hub'.lists[l] = DOMAIN hub.lists[l]
                            /\ ToSet(hub'.lists[l]) = ToSet(hub.lists[l])

SameWalk == got'.oid = got.oid /\ got'.walk = got.walk
SameLists == got'.lists = got.lists /\ got'.turn = got.turn /\ got'.steady = got.steady
SameCI ==
    /\ got'.oid = got.oid /\ got'.sample = got.sample /\ got'.listed = got.listed /\ got'.full = got.full
    /\ got'.todo = got.todo /\ got'.jobs = got.jobs /\ got'.timing = got.timing
SameFiles ==
    /\ got'.oid = got.oid /\ got'.want = got.want /\ got'.blobs = got.blobs /\ got'.manifest = got.manifest
    /\ got'.claude = got.claude /\ got'.files = got.files /\ got'.scans = got.scans

SinceGrows ==
    /\ pc' = pc /\ SameWalk /\ SameLists /\ SameCI /\ SameFiles /\ DOMAIN got' = DOMAIN got
    /\ pc = "facts" => got' = [Fact EXCEPT !.since = got'.since]
    /\ got.since \subseteq got'.since /\ got'.since \subseteq Commits
    /\ hub'.head = hub.head \/ hub'.head \in got'.since

Moved == RunsGoOn /\ ListsMove /\ SinceGrows

Fields == {"oid", "since", "sample", "walk", "listed", "full", "todo", "jobs", "timing", "last", "lists", "turn",
           "steady", "want", "blobs", "manifest", "claude", "files", "scans"}

LEMMA FactFields == DOMAIN Fact = Fields
BY DEF Fact, Fields

HubFields == {"head", "gone", "runs", "clock", "lists", "moves", "fault", "events", "ended"}

LEMMA HubDomain == ASSUME HubInv PROVE DOMAIN hub = HubFields
BY DEF HubInv, HubRecords, HubFields

\* The values of hub, one by one.
LEMMA HubTypes ==
    ASSUME HubInv
    PROVE  /\ hub.head \in Commits \cup {0} /\ hub.gone \subseteq Commits /\ hub.runs \in Seq(RunRecords)
           /\ hub.clock \in Nat /\ hub.lists \in [ListNames -> Seq([id : Nat, expired : BOOLEAN])]
           /\ hub.moves \in [ListNames -> Nat] /\ hub.events \in Nat /\ hub.ended \subseteq Pairs
           /\ Len(hub.runs) \in Nat /\ DOMAIN hub.runs = 1 .. Len(hub.runs)
           /\ \A i \in DOMAIN hub.runs : hub.runs[i] \in RunRecords
<1>1. hub \in HubRecords
    BY DEF HubInv
<1>2. /\ hub.head \in Commits \cup {0} /\ hub.gone \subseteq Commits /\ hub.runs \in Seq(RunRecords)
      /\ hub.clock \in Nat /\ hub.lists \in [ListNames -> Seq([id : Nat, expired : BOOLEAN])]
      /\ hub.moves \in [ListNames -> Nat] /\ hub.events \in Nat /\ hub.ended \subseteq Pairs
    BY <1>1 DEF HubRecords
<1> QED
    BY <1>2, LenProperties, ElementOfSeq

LEMMA EndsType == ASSUME NEW jobs \in Seq(JobRecords) PROVE EndsOf(jobs) \subseteq Nat
<1>1. DOMAIN jobs = 1 .. Len(jobs) /\ \A i \in 1 .. Len(jobs) : jobs[i] \in JobRecords
    BY ElementOfSeq, LenProperties
<1> QED
    BY <1>1 DEF EndsOf, ToSet, JobRecords

LEMMA RunEnds ==
    ASSUME NEW r \in RunRecords
    PROVE  r.jobs \in Seq(JobRecords) /\ EndsOf(r.jobs) \subseteq Nat
<1>1. r.jobs \in Seq(JobRecords)
    BY DEF RunRecords
<1> QED
    BY <1>1, EndsType

\* The time of the runs does not matter to what HubInv says of them.
LEMMA RunsStay ==
    ASSUME HubInv, hub'.runs = hub.runs, hub'.ended = hub.ended, hub'.clock = hub.clock + 1
    PROVE  /\ \A i \in DOMAIN hub'.runs : \A end \in EndsOf(hub'.runs[i].jobs) :
                end <= hub'.clock /\ (end # 0 => <<i, end>> \in hub'.ended)
           /\ \A x \in hub'.ended : x[2] <= hub'.clock
           /\ RunsGoOn
<1>1. \A i \in DOMAIN hub.runs : EndsOf(hub.runs[i].jobs) \subseteq Nat
    BY HubTypes, RunEnds
<1>2. hub.clock \in Nat /\ \A x \in hub.ended : x[2] \in Nat
    BY HubTypes DEF Pairs
<1>3. ASSUME NEW i \in DOMAIN hub.runs, NEW end \in EndsOf(hub.runs[i].jobs)
      PROVE  end <= hub'.clock /\ (end # 0 => <<i, end>> \in hub'.ended)
    <2>1. end \in Nat
        BY <1>1
    <2>2. end <= hub.clock /\ (end # 0 => <<i, end>> \in hub.ended)
        BY DEF HubInv
    <2> QED
        BY <1>2, <2>1, <2>2
<1>4. \A x \in hub'.ended : x[2] <= hub'.clock
    BY <1>2 DEF HubInv
<1>5. RunsGoOn
    BY <1>2 DEF RunsGoOn, GoesOn
<1> QED
    BY <1>3, <1>4, <1>5

\* Nor that of the lists, when they stay.
LEMMA ListsStay ==
    ASSUME HubInv, hub'.lists = hub.lists, hub'.moves = hub.moves, hub'.fault = hub.fault
    PROVE  ListsMove /\ \A l \in ListNames : ToSet(hub'.lists[l]) = Items(l) /\ IsInjective(hub'.lists[l])
<1>1. \A l \in ListNames : hub.moves[l] \in Nat
    BY HubTypes
<1> QED
    BY <1>1 DEF ListsMove, HubInv

\* Nothing was read.
LEMMA NothingRead ==
    ASSUME SinceInv, pc' = pc, got' = got, hub'.head = hub.head
    PROVE  SinceGrows
BY DEF SinceGrows, SinceInv, SameWalk, SameLists, SameCI, SameFiles

LEMMA VanishMoves ==
    ASSUME HubInv, SinceInv, Vanish
    PROVE  HubInv' /\ Moved
<1> DEFINE gone == ToSet(Line[got.oid]) \ ToSet(Line[hub.head])
<1>1. /\ hub' = [hub EXCEPT !.gone = gone, !.events = hub.events + 1, !.clock = hub.clock + 1]
      /\ pc' = pc /\ got' = got /\ got.oid # 0
    BY HubDomain DEF Vanish, Happens, HubFields
<1>2. gone \subseteq Commits
    <2>1. Line[got.oid] \in Seq(Commits)
        BY <1>1, ReadsAssumption DEF SinceInv, ReadsAssumption
    <2> QED
        BY <2>1, ElementOfSeq, LenProperties DEF ToSet
<1> HIDE DEF gone
<1>3. /\ hub'.clock = hub.clock + 1 /\ hub'.head = hub.head /\ hub'.runs = hub.runs /\ hub'.lists = hub.lists
      /\ hub'.moves = hub.moves /\ hub'.fault = hub.fault /\ hub'.ended = hub.ended
    BY <1>1, HubDomain DEF HubFields
<1>4. hub' \in HubRecords
    <2>1. hub \in HubRecords /\ hub.events + 1 \in Nat /\ hub.clock + 1 \in Nat
        BY HubTypes DEF HubInv
    <2> QED
        BY <1>1, <1>2, <2>1 DEF HubRecords
<1> QED
    BY <1>1, <1>3, <1>4, RunsStay, ListsStay, NothingRead DEF HubInv, Moved

\* What HubInv says of the runs.
RunsOK ==
    /\ hub.runs \in Seq(RunRecords) /\ hub.ended \subseteq Pairs
    /\ \A i \in DOMAIN hub.runs : \A end \in EndsOf(hub.runs[i].jobs) :
         end <= hub.clock /\ (end # 0 => <<i, end>> \in hub.ended)
    /\ \A x \in hub.ended : x[2] <= hub.clock

LEMMA NewRuns ==
    ASSUME HubInv, NEW c \in Commits, NEW e \in {"push", "schedule"}
    PROVE  NewRun(c, e) \in RunRecords /\ EndsOf(NewRun(c, e).jobs) = {0} /\ NewJob \in JobRecords
<1>1. NewJob \in JobRecords /\ NewJob.end = 0
    BY HubTypes DEF NewJob, JobRecords
<1>2. <<NewJob>> \in Seq(JobRecords) /\ EndsOf(<<NewJob>>) = {0}
    BY <1>1 DEF EndsOf, ToSet
<1>3. NewRun(c, e).jobs = <<NewJob>>
    BY DEF NewRun
<1>4. NewRun(c, e) \in RunRecords
    <2>1. hub.clock \in Nat /\ <<NewJob>> \in Seq(JobRecords)
        BY <1>2, HubTypes
    <2> QED
        BY <2>1 DEF NewRun, RunRecords
<1> QED
    BY <1>1, <1>2, <1>3, <1>4

\* One more run, created now.
LEMMA RunStarts ==
    ASSUME HubInv, NEW c \in Commits, NEW e \in {"push", "schedule"}, hub'.runs = Append(hub.runs, NewRun(c, e)),
           hub'.ended = hub.ended, hub'.clock = hub.clock + 1
    PROVE  RunsOK' /\ RunsGoOn
<1> DEFINE r == NewRun(c, e)
<1>1. r \in RunRecords /\ EndsOf(r.jobs) = {0}
    BY NewRuns
<1> HIDE DEF r
<1>2. hub.runs \in Seq(RunRecords) /\ Len(hub.runs) \in Nat /\ DOMAIN hub.runs = 1 .. Len(hub.runs)
    BY HubTypes
<1>3. hub'.runs = Append(hub.runs, r)
    BY DEF r
<1>4. /\ hub'.runs \in Seq(RunRecords) /\ Len(hub'.runs) = Len(hub.runs) + 1
      /\ hub'.runs[Len(hub.runs) + 1] = r /\ \A i \in 1 .. Len(hub.runs) : hub'.runs[i] = hub.runs[i]
    BY <1>1, <1>2, <1>3, AppendProperties
<1>5. DOMAIN hub'.runs = DOMAIN hub.runs \cup {Len(hub.runs) + 1}
    BY <1>2, <1>4, LenProperties
<1>6. hub.clock \in Nat /\ \A x \in hub.ended : x[2] \in Nat /\ x[2] <= hub.clock
    BY HubTypes DEF HubInv, Pairs
<1>7. ASSUME NEW i \in DOMAIN hub'.runs, NEW end \in EndsOf(hub'.runs[i].jobs)
      PROVE  end <= hub'.clock /\ (end # 0 => <<i, end>> \in hub'.ended)
    <2>1. CASE i \in DOMAIN hub.runs
        <3>1. end \in EndsOf(hub.runs[i].jobs) /\ end \in Nat
            BY <1>2, <1>4, <2>1, HubTypes, RunEnds
        <3>2. end <= hub.clock /\ (end # 0 => <<i, end>> \in hub.ended)
            BY <2>1, <3>1 DEF HubInv
        <3> QED
            BY <1>6, <3>1, <3>2
    <2>2. CASE i = Len(hub.runs) + 1
        BY <1>1, <1>4, <1>6, <2>2
    <2> QED
        BY <1>5, <2>1, <2>2
<1>8. \A x \in hub'.ended : x[2] <= hub'.clock
    BY <1>6
<1>9. RunsOK'
    BY <1>4, <1>7, <1>8, HubTypes DEF RunsOK
<1>10. RunsGoOn
    BY <1>2, <1>4, <1>5, <1>6 DEF RunsGoOn, GoesOn
<1> QED
    BY <1>9, <1>10

\* One run goes on.
LEMMA RunChanges ==
    ASSUME HubInv, NEW i \in DOMAIN hub.runs, NEW r \in RunRecords, hub'.runs = [hub.runs EXCEPT ![i] = r],
           hub'.clock = hub.clock + 1, hub.ended \subseteq hub'.ended,
           \A x \in hub'.ended : x \in hub.ended \/ x = <<i, hub.clock>>,
           GoesOn(hub.runs[i], r),
           \A end \in EndsOf(r.jobs) : \/ end = 0 \/ end \in EndsOf(hub.runs[i].jobs)
                                       \/ end = hub.clock /\ <<i, end>> \in hub'.ended
    PROVE  RunsOK' /\ RunsGoOn
<1>1. hub.runs \in Seq(RunRecords) /\ hub.clock \in Nat /\ hub.ended \subseteq Pairs /\ i \in Nat
    BY HubTypes
<1>2. hub'.runs \in Seq(RunRecords) /\ DOMAIN hub'.runs = DOMAIN hub.runs
    BY <1>1, ExceptSeq
<1>3. \A k \in DOMAIN hub.runs : hub'.runs[k] = IF k = i THEN r ELSE hub.runs[k]
    BY <1>1
<1>4. ASSUME NEW k \in DOMAIN hub.runs, NEW end \in EndsOf(hub.runs[k].jobs)
      PROVE  end \in Nat /\ end <= hub'.clock /\ (end # 0 => <<k, end>> \in hub'.ended)
    <2>1. end \in Nat
        BY HubTypes, RunEnds
    <2>2. end <= hub.clock /\ (end # 0 => <<k, end>> \in hub.ended)
        BY DEF HubInv
    <2> QED
        BY <1>1, <2>1, <2>2
<1>5. ASSUME NEW k \in DOMAIN hub'.runs, NEW end \in EndsOf(hub'.runs[k].jobs)
      PROVE  end <= hub'.clock /\ (end # 0 => <<k, end>> \in hub'.ended)
    <2>1. CASE k # i
        BY <1>2, <1>3, <1>4, <2>1
    <2>2. CASE k = i
        <3>1. end \in EndsOf(r.jobs)
            BY <1>2, <1>3, <2>2
        <3>2. CASE end = 0
            BY <1>1, <3>2
        <3>3. CASE end \in EndsOf(hub.runs[i].jobs)
            BY <1>4, <2>2, <3>3
        <3>4. CASE end = hub.clock /\ <<i, end>> \in hub'.ended
            BY <1>1, <2>2, <3>4
        <3> QED
            BY <3>1, <3>2, <3>3, <3>4
    <2> QED
        BY <2>1, <2>2
<1>6. ASSUME NEW x \in hub'.ended
      PROVE  x \in Pairs /\ x[2] <= hub'.clock
    <2>1. CASE x \in hub.ended
        <3>1. x \in Pairs /\ x[2] <= hub.clock
            BY <1>1, <2>1 DEF HubInv
        <3> QED
            BY <1>1, <3>1 DEF Pairs
    <2>2. CASE x = <<i, hub.clock>>
        BY <1>1, <2>2 DEF Pairs
    <2> QED
        BY <2>1, <2>2
<1>7. RunsOK'
    BY <1>2, <1>5, <1>6 DEF RunsOK
<1>8. RunsGoOn
    BY <1>1, <1>2, <1>3 DEF RunsGoOn, GoesOn
<1> QED
    BY <1>7, <1>8

LEMMA PushMoves ==
    ASSUME HubInv, SinceInv, Push
    PROVE  HubInv' /\ Moved
<1>1. PICK c \in Newer[hub.head] :
         /\ Happens([hub EXCEPT !.head = c, !.runs = Append(@, NewRun(c, "push"))])
         /\ got' = [got EXCEPT !.since = @ \cup {c}]
    BY DEF Push
<1>2. c \in Commits
    BY HubTypes, ReadsAssumption DEF Push, ReadsAssumption
<1>3. hub' = [hub EXCEPT !.head = c, !.runs = Append(hub.runs, NewRun(c, "push")),
                         !.events = hub.events + 1, !.clock = hub.clock + 1]
    BY <1>1, HubDomain DEF Happens, HubFields
<1>4. /\ hub'.head = c /\ hub'.runs = Append(hub.runs, NewRun(c, "push")) /\ hub'.clock = hub.clock + 1
      /\ hub'.lists = hub.lists /\ hub'.moves = hub.moves /\ hub'.fault = hub.fault /\ hub'.ended = hub.ended
    BY <1>3, HubDomain DEF HubFields
<1>5. RunsOK' /\ RunsGoOn
    BY <1>2, <1>4, RunStarts
<1>6. hub' \in HubRecords
    <2>1. /\ hub \in HubRecords /\ hub.events + 1 \in Nat /\ hub.clock + 1 \in Nat
          /\ Append(hub.runs, NewRun(c, "push")) \in Seq(RunRecords)
        BY <1>4, <1>5, HubTypes DEF HubInv, RunsOK
    <2> QED
        BY <1>2, <1>3, <2>1 DEF HubRecords
<1>7. SinceGrows
    <2>1. DOMAIN got = Fields /\ got.since \subseteq Commits
        BY FactFields DEF SinceInv
    <2>2. /\ SameWalk /\ SameLists /\ SameCI /\ SameFiles /\ DOMAIN got' = DOMAIN got
          /\ got'.since = got.since \cup {c}
        BY <1>1, <2>1 DEF SameWalk, SameLists, SameCI, SameFiles, Fields
    <2>3. pc = "facts" => got' = [Fact EXCEPT !.since = got'.since]
        BY <1>1, <2>2 DEF SinceInv
    <2> QED
        BY <1>1, <1>2, <1>4, <2>1, <2>2, <2>3 DEF SinceGrows, Happens
<1> QED
    BY <1>4, <1>5, <1>6, <1>7, ListsStay DEF HubInv, Moved, RunsOK

LEMMA TriggerMoves ==
    ASSUME HubInv, SinceInv, Trigger
    PROVE  HubInv' /\ Moved
<1>1. PICK e \in {"push", "schedule"} : Happens([hub EXCEPT !.runs = Append(@, NewRun(hub.head, e))])
    BY DEF Trigger
<1>2. hub.head \in Commits /\ e \in {"push", "schedule"}
    BY <1>1, HubTypes DEF Trigger
<1>3. hub' = [hub EXCEPT !.runs = Append(hub.runs, NewRun(hub.head, e)),
                         !.events = hub.events + 1, !.clock = hub.clock + 1]
    BY <1>1, HubDomain DEF Happens, HubFields
<1>4. /\ hub'.head = hub.head /\ hub'.runs = Append(hub.runs, NewRun(hub.head, e)) /\ hub'.clock = hub.clock + 1
      /\ hub'.lists = hub.lists /\ hub'.moves = hub.moves /\ hub'.fault = hub.fault /\ hub'.ended = hub.ended
    BY <1>3, HubDomain DEF HubFields
<1>5. RunsOK' /\ RunsGoOn
    BY <1>2, <1>4, RunStarts
<1>6. hub' \in HubRecords
    <2>1. /\ hub \in HubRecords /\ hub.events + 1 \in Nat /\ hub.clock + 1 \in Nat
          /\ Append(hub.runs, NewRun(hub.head, e)) \in Seq(RunRecords)
        BY <1>4, <1>5, HubTypes DEF HubInv, RunsOK
    <2> QED
        BY <1>3, <2>1 DEF HubRecords
<1>7. SinceGrows
    BY <1>1, <1>4, NothingRead DEF Trigger, Happens
<1> QED
    BY <1>4, <1>5, <1>6, <1>7, ListsStay DEF HubInv, Moved, RunsOK

LEMMA RerunMoves ==
    ASSUME HubInv, SinceInv, Rerun
    PROVE  HubInv' /\ Moved
<1>1. PICK i \in DOMAIN hub.runs :
         /\ hub.runs[i].status = "completed"
         /\ Happens([hub EXCEPT !.runs[i].status = "in_progress", !.runs[i].jobs = <<NewJob>>])
    BY DEF Rerun
<1> DEFINE r == [hub.runs[i] EXCEPT !.status = "in_progress", !.jobs = <<NewJob>>]
<1>2. hub.runs[i] \in RunRecords /\ i \in DOMAIN hub.runs
    BY HubTypes
<1>3. NewJob \in JobRecords /\ NewJob.end = 0
    BY HubTypes DEF NewJob, JobRecords
<1>4. <<NewJob>> \in Seq(JobRecords) /\ EndsOf(<<NewJob>>) = {0} /\ <<NewJob>> # <<>>
    BY <1>3 DEF EndsOf, ToSet
<1>5. r \in RunRecords /\ r.jobs = <<NewJob>>
    BY <1>2, <1>4 DEF RunRecords
<1>6. hub' = [hub EXCEPT !.runs = [hub.runs EXCEPT ![i] = r], !.events = hub.events + 1, !.clock = hub.clock + 1]
    BY <1>1, <1>2, HubDomain DEF Happens, HubFields
<1>7. GoesOn(hub.runs[i], r)
    BY <1>4, <1>5 DEF GoesOn
<1> HIDE DEF r
<1>8. /\ hub'.head = hub.head /\ hub'.runs = [hub.runs EXCEPT ![i] = r] /\ hub'.clock = hub.clock + 1
      /\ hub'.lists = hub.lists /\ hub'.moves = hub.moves /\ hub'.fault = hub.fault /\ hub'.ended = hub.ended
    BY <1>6, HubDomain DEF HubFields
<1>9. RunsOK' /\ RunsGoOn
    BY <1>2, <1>4, <1>5, <1>7, <1>8, RunChanges
<1>10. hub' \in HubRecords
    <2>1. /\ hub \in HubRecords /\ hub.events + 1 \in Nat /\ hub.clock + 1 \in Nat
          /\ [hub.runs EXCEPT ![i] = r] \in Seq(RunRecords)
        BY <1>8, <1>9, HubTypes DEF HubInv, RunsOK
    <2> QED
        BY <1>6, <2>1 DEF HubRecords
<1>11. SinceGrows
    BY <1>1, <1>8, NothingRead DEF Rerun, Happens
<1> QED
    BY <1>8, <1>9, <1>10, <1>11, ListsStay DEF HubInv, Moved, RunsOK

\* A run that goes on, whichever of its jobs, or itself, that is.
LEMMA RunMoves ==
    ASSUME HubInv, SinceInv, NEW i \in DOMAIN hub.runs, NEW r \in RunRecords,
           NEW ended, ended = hub.ended \/ ended = hub.ended \cup {<<i, hub.clock>>},
           Happens([hub EXCEPT !.runs = [hub.runs EXCEPT ![i] = r], !.ended = ended]), got' = got,
           GoesOn(hub.runs[i], r),
           \A end \in EndsOf(r.jobs) : \/ end = 0 \/ end \in EndsOf(hub.runs[i].jobs)
                                       \/ end = hub.clock /\ <<i, end>> \in ended
    PROVE  HubInv' /\ Moved
<1>1. hub' = [hub EXCEPT !.runs = [hub.runs EXCEPT ![i] = r], !.ended = ended, !.events = hub.events + 1, !.clock = hub.clock + 1]
    BY HubDomain DEF Happens, HubFields
<1>2. /\ hub'.head = hub.head /\ hub'.runs = [hub.runs EXCEPT ![i] = r] /\ hub'.clock = hub.clock + 1
      /\ hub'.lists = hub.lists /\ hub'.moves = hub.moves /\ hub'.fault = hub.fault /\ hub'.ended = ended
    BY <1>1, HubDomain DEF HubFields
<1>3. RunsOK' /\ RunsGoOn
    BY <1>2, RunChanges
<1>4. hub' \in HubRecords
    <2>1. /\ hub \in HubRecords /\ hub.events + 1 \in Nat /\ hub.clock + 1 \in Nat
          /\ [hub.runs EXCEPT ![i] = r] \in Seq(RunRecords) /\ ended \subseteq Pairs
        BY <1>2, <1>3, HubTypes DEF HubInv, RunsOK
    <2> QED
        BY <1>1, <2>1 DEF HubRecords
<1>5. SinceGrows
    BY <1>2, NothingRead DEF Happens
<1> QED
    BY <1>2, <1>3, <1>4, <1>5, ListsStay DEF HubInv, Moved, RunsOK

LEMMA ProgressMoves ==
    ASSUME HubInv, SinceInv, Progress
    PROVE  HubInv' /\ Moved
<1>1. PICK i \in DOMAIN hub.runs :
         /\ hub.runs[i].status = "in_progress"
         /\ \/ \E j \in Unfinished(hub.runs[i]) :
                 Happens([hub EXCEPT !.runs[i].jobs[j].end = hub.clock, !.ended = @ \cup {<<i, hub.clock>>}])
            \/ Happens([hub EXCEPT !.runs[i].jobs = Append(@, NewJob)])
            \/ Happens([hub EXCEPT !.runs[i].status = "completed"])
    BY DEF Progress
<1> DEFINE old == hub.runs[i]
<1>2. /\ got' = got /\ old \in RunRecords /\ old.jobs \in Seq(JobRecords) /\ hub.clock \in Nat
      /\ Len(old.jobs) \in Nat /\ DOMAIN old.jobs = 1 .. Len(old.jobs)
      /\ \A j \in DOMAIN old.jobs : old.jobs[j] \in JobRecords
    <2>1. got' = got /\ old \in RunRecords /\ old.jobs \in Seq(JobRecords) /\ hub.clock \in Nat
        BY HubTypes, RunEnds DEF Progress
    <2> QED
        BY <2>1, LenProperties, ElementOfSeq
<1>3. ASSUME NEW j \in Unfinished(old),
             Happens([hub EXCEPT !.runs[i].jobs[j].end = hub.clock, !.ended = @ \cup {<<i, hub.clock>>}])
      PROVE  HubInv' /\ Moved
    <2> DEFINE job == [old.jobs[j] EXCEPT !.end = hub.clock]
               jobs == [old.jobs EXCEPT ![j] = job]
               r == [old EXCEPT !.jobs = jobs]
    <2>1. j \in DOMAIN old.jobs
        BY <1>3 DEF Unfinished
    <2>2. job \in JobRecords /\ job.end = hub.clock
        BY <1>2, <2>1 DEF JobRecords
    <2>3. jobs \in Seq(JobRecords) /\ DOMAIN jobs = DOMAIN old.jobs
        BY <1>2, <2>1, <2>2, ExceptSeq
    <2>4. \A k \in DOMAIN jobs : jobs[k] = IF k = j THEN job ELSE old.jobs[k]
        BY <2>1, <2>3
    <2>5. r \in RunRecords /\ r.jobs = jobs
        BY <1>2, <2>3 DEF RunRecords
    <2>6. Happens([hub EXCEPT !.runs = [hub.runs EXCEPT ![i] = r], !.ended = hub.ended \cup {<<i, hub.clock>>}])
        <3>1. [hub EXCEPT !.runs[i].jobs[j].end = hub.clock, !.ended = @ \cup {<<i, hub.clock>>}]
                = [hub EXCEPT !.runs = [hub.runs EXCEPT ![i] = r], !.ended = hub.ended \cup {<<i, hub.clock>>}]
            BY HubDomain DEF HubFields
        <3> QED
            BY <1>3, <3>1
    <2> HIDE DEF job
    <2>7. \A end \in EndsOf(jobs) : end = hub.clock \/ end \in EndsOf(old.jobs)
        BY <2>2, <2>3, <2>4 DEF EndsOf, ToSet
    <2>8. jobs # <<>>
        BY <2>1, <2>3
    <2> HIDE DEF jobs
    <2>9. GoesOn(old, r)
        BY <1>1, <2>5, <2>7, <2>8 DEF GoesOn
    <2> HIDE DEF r
    <2>10. \A end \in EndsOf(r.jobs) : \/ end = 0 \/ end \in EndsOf(old.jobs)
                                       \/ end = hub.clock /\ <<i, end>> \in hub.ended \cup {<<i, hub.clock>>}
        BY <2>5, <2>7
    <2> QED
        BY <1>2, <2>5, <2>6, <2>9, <2>10, RunMoves
<1>4. ASSUME Happens([hub EXCEPT !.runs[i].jobs = Append(@, NewJob)])
      PROVE  HubInv' /\ Moved
    <2> DEFINE jobs == Append(old.jobs, NewJob)
               r == [old EXCEPT !.jobs = jobs]
    <2>1. NewJob \in JobRecords /\ NewJob.end = 0
        BY <1>2 DEF NewJob, JobRecords
    <2>2. /\ jobs \in Seq(JobRecords) /\ Len(jobs) = Len(old.jobs) + 1 /\ jobs[Len(old.jobs) + 1] = NewJob
          /\ \A k \in 1 .. Len(old.jobs) : jobs[k] = old.jobs[k]
        BY <1>2, <2>1, AppendProperties
    <2>3. r \in RunRecords /\ r.jobs = jobs
        BY <1>2, <2>2 DEF RunRecords
    <2>4. Happens([hub EXCEPT !.runs = [hub.runs EXCEPT ![i] = r], !.ended = hub.ended])
        <3>1. [hub EXCEPT !.runs[i].jobs = Append(@, NewJob)]
                = [hub EXCEPT !.runs = [hub.runs EXCEPT ![i] = r], !.ended = hub.ended]
            BY HubDomain, <1>2 DEF HubFields, HubInv, HubRecords
        <3> QED
            BY <1>4, <3>1
    <2>5. DOMAIN jobs = 1 .. Len(old.jobs) + 1
        BY <2>2, LenProperties
    <2>6. \A end \in EndsOf(jobs) : end = 0 \/ end \in EndsOf(old.jobs)
        BY <1>2, <2>1, <2>2, <2>5 DEF EndsOf, ToSet
    <2>7. jobs # <<>>
        BY <1>2, <2>2
    <2> HIDE DEF jobs
    <2>8. GoesOn(old, r)
        BY <1>1, <2>3, <2>6, <2>7 DEF GoesOn
    <2> HIDE DEF r
    <2> QED
        BY <1>2, <2>3, <2>4, <2>6, <2>8, RunMoves
<1>5. ASSUME Happens([hub EXCEPT !.runs[i].status = "completed"])
      PROVE  HubInv' /\ Moved
    <2> DEFINE r == [old EXCEPT !.status = "completed"]
    <2>1. r \in RunRecords /\ r.jobs = old.jobs
        BY <1>2 DEF RunRecords
    <2>2. Happens([hub EXCEPT !.runs = [hub.runs EXCEPT ![i] = r], !.ended = hub.ended])
        <3>1. [hub EXCEPT !.runs[i].status = "completed"]
                = [hub EXCEPT !.runs = [hub.runs EXCEPT ![i] = r], !.ended = hub.ended]
            BY HubDomain, <1>2 DEF HubFields, HubInv, HubRecords
        <3> QED
            BY <1>5, <3>1
    <2>3. GoesOn(old, r)
        BY <1>1, <2>1 DEF GoesOn
    <2> HIDE DEF r
    <2> QED
        BY <1>2, <2>1, <2>2, <2>3, RunMoves
<1> QED
    BY <1>1, <1>3, <1>4, <1>5

LEMMA FrontFirst ==
    ASSUME NEW S, NEW list \in Seq(S), NEW i \in DOMAIN list, IsInjective(list)
    PROVE  /\ ToFront(list, i) \in Seq(S) /\ DOMAIN ToFront(list, i) = DOMAIN list
           /\ ToSet(ToFront(list, i)) = ToSet(list) /\ IsInjective(ToFront(list, i))
<1> DEFINE f == ToFront(list, i)
           g(k) == IF k = 1 THEN i ELSE IF k <= i THEN k - 1 ELSE k
<1>1. Len(list) \in Nat /\ DOMAIN list = 1 .. Len(list) /\ \A k \in 1 .. Len(list) : list[k] \in S
    BY LenProperties, ElementOfSeq
<1>2. DOMAIN f = 1 .. Len(list) /\ i \in 1 .. Len(list)
    BY <1>1 DEF ToFront
<1>3. \A k \in 1 .. Len(list) : g(k) \in 1 .. Len(list) /\ f[k] = list[g(k)]
    BY <1>1, <1>2 DEF ToFront
<1>4. f \in [1 .. Len(list) -> S]
    <2>1. f = [k \in 1 .. Len(list) |-> f[k]]
        BY <1>1 DEF ToFront
    <2> QED
        BY <1>1, <1>3, <2>1
<1>5. f \in Seq(S)
    BY <1>1, <1>4, SeqDef
<1>6. \A k, m \in 1 .. Len(list) : g(k) = g(m) => k = m
    BY <1>1, <1>2
<1>7. \A m \in 1 .. Len(list) : \E k \in 1 .. Len(list) : g(k) = m
    <2> TAKE m \in 1 .. Len(list)
    <2>1. CASE m = i
        BY <1>1, <1>2, <2>1
    <2>2. CASE m < i
        <3>1. m + 1 \in 1 .. Len(list) /\ g(m + 1) = m
            BY <1>1, <1>2, <2>2
        <3> QED
            BY <3>1
    <2>3. CASE m > i
        <3>1. g(m) = m
            BY <1>1, <1>2, <2>3
        <3> QED
            BY <3>1
    <2> QED
        BY <1>2, <2>1, <2>2, <2>3
<1> HIDE DEF f, g
<1>8. IsInjective(f)
    <2> SUFFICES ASSUME NEW k \in 1 .. Len(list), NEW m \in 1 .. Len(list), f[k] = f[m]
                 PROVE  k = m
        BY <1>2 DEF IsInjective
    <2>1. list[g(k)] = list[g(m)] /\ g(k) \in DOMAIN list /\ g(m) \in DOMAIN list
        BY <1>1, <1>3
    <2>2. g(k) = g(m)
        BY <2>1 DEF IsInjective
    <2> QED
        BY <1>6, <2>2
<1>9. ToSet(f) = ToSet(list)
    <2>1. ASSUME NEW x \in ToSet(f) PROVE x \in ToSet(list)
        BY <1>1, <1>2, <1>3, <2>1 DEF ToSet
    <2>2. ASSUME NEW x \in ToSet(list) PROVE x \in ToSet(f)
        <3>1. PICK m \in 1 .. Len(list) : x = list[m]
            BY <1>1 DEF ToSet
        <3>2. PICK k \in 1 .. Len(list) : g(k) = m
            BY <1>7
        <3>3. f[k] = x
            BY <1>3, <3>1, <3>2
        <3> QED
            BY <1>2, <3>3 DEF ToSet
    <2> QED
        BY <2>1, <2>2
<1> QED
    BY <1>1, <1>2, <1>5, <1>8, <1>9 DEF f

LEMMA UseMoves ==
    ASSUME HubInv, SinceInv, Use
    PROVE  HubInv' /\ Moved
<1>0. PICK l \in DOMAIN hub.lists :
         \E i \in DOMAIN hub.lists[l] : Happens([hub EXCEPT !.lists[l] = ToFront(@, i), !.moves[l] = @ + 1])
    BY DEF Use
<1>1. PICK i \in DOMAIN hub.lists[l] : Happens([hub EXCEPT !.lists[l] = ToFront(@, i), !.moves[l] = @ + 1])
    BY <1>0
<1>2. l \in ListNames /\ hub.lists[l] \in Seq([id : Nat, expired : BOOLEAN]) /\ hub.moves[l] \in Nat
    BY HubTypes
<1> DEFINE list == ToFront(hub.lists[l], i)
<1>3. /\ list \in Seq([id : Nat, expired : BOOLEAN]) /\ DOMAIN list = DOMAIN hub.lists[l]
      /\ ToSet(list) = ToSet(hub.lists[l]) /\ IsInjective(list)
    <2>1. IsInjective(hub.lists[l])
        BY <1>2 DEF HubInv
    <2> QED
        BY <1>2, <2>1, FrontFirst
<1> HIDE DEF list
<1>4. hub' = [hub EXCEPT !.lists = [hub.lists EXCEPT ![l] = list], !.moves = [hub.moves EXCEPT ![l] = hub.moves[l] + 1],
                         !.events = hub.events + 1, !.clock = hub.clock + 1]
    BY <1>1, HubDomain DEF Happens, HubFields, list
<1>5. /\ hub'.lists = [hub.lists EXCEPT ![l] = list] /\ hub'.moves = [hub.moves EXCEPT ![l] = hub.moves[l] + 1]
      /\ hub'.clock = hub.clock + 1 /\ hub'.head = hub.head /\ hub'.runs = hub.runs
      /\ hub'.fault = hub.fault /\ hub'.ended = hub.ended
    BY <1>4, HubDomain DEF HubFields
<1>6. hub.lists \in [ListNames -> Seq([id : Nat, expired : BOOLEAN])] /\ hub.moves \in [ListNames -> Nat]
    BY HubTypes
<1>7. \A m \in ListNames : /\ hub'.lists[m] = IF m = l THEN list ELSE hub.lists[m]
                           /\ hub'.moves[m] = IF m = l THEN hub.moves[m] + 1 ELSE hub.moves[m]
    BY <1>5, <1>6
<1>8. hub' \in HubRecords
    <2>1. /\ hub \in HubRecords /\ hub.events + 1 \in Nat /\ hub.clock + 1 \in Nat
          /\ [hub.lists EXCEPT ![l] = list] \in [ListNames -> Seq([id : Nat, expired : BOOLEAN])]
          /\ [hub.moves EXCEPT ![l] = hub.moves[l] + 1] \in [ListNames -> Nat]
        <3>1. hub \in HubRecords /\ hub.events + 1 \in Nat /\ hub.clock + 1 \in Nat
            BY HubTypes DEF HubInv
        <3>2. [hub.lists EXCEPT ![l] = list] \in [ListNames -> Seq([id : Nat, expired : BOOLEAN])]
            BY <1>2, <1>3, <1>6
        <3>3. [hub.moves EXCEPT ![l] = hub.moves[l] + 1] \in [ListNames -> Nat]
            BY <1>2, <1>6
        <3> QED
            BY <3>1, <3>2, <3>3
    <2> QED
        BY <1>4, <2>1 DEF HubRecords
<1>9. ListsMove
    BY <1>3, <1>5, <1>6, <1>7 DEF ListsMove
<1>10. \A m \in ListNames : ToSet(hub'.lists[m]) = Items(m) /\ IsInjective(hub'.lists[m])
    BY <1>2, <1>3, <1>7 DEF HubInv
<1>11. SinceGrows
    BY <1>1, <1>5, NothingRead DEF Use, Happens
<1> QED
    BY <1>5, <1>8, <1>9, <1>10, <1>11, RunsStay DEF HubInv, Moved

\* A change of GitHub's, whichever it is.
LEMMA ChangeMoves ==
    ASSUME HubInv, SinceInv, Change
    PROVE  HubInv' /\ Moved
BY PushMoves, TriggerMoves, VanishMoves, ProgressMoves, RerunMoves, UseMoves DEF Change

-----------------------------------------------------------------------------
(* What each request touches. *)

Aside == /\ hub' = hub /\ got'.oid = got.oid /\ got'.since = got.since /\ DOMAIN got' = DOMAIN got

Walks == pc = "history" /\ pc' \in {"history", "runs", "aborted"} /\ SameLists /\ SameCI /\ SameFiles
Times ==
    /\ <<pc, pc'>> \in {<<"runs", "jobs">>, <<"jobs", "jobs">>, <<"jobs", "caches">>}
    /\ SameWalk /\ SameLists /\ SameFiles /\ got'.sample = got.sample
Pages ==
    /\ pc \in ListNames /\ pc' \in {pc, After[pc], "aborted"} /\ SameWalk /\ SameCI /\ SameFiles
Texts ==
    /\ pc \in AfterLists \ {"done"} /\ pc' \in AfterLists \cup {"aborted"} /\ SameWalk /\ SameLists /\ SameCI

LEMMA WalkKinds ==
    ASSUME SinceInv, History \/ HistoryBroken \/ HistoryRead
    PROVE  Aside /\ Walks
<1>1. DOMAIN got = Fields
    BY FactFields DEF SinceInv
<1>2. CASE History
    BY <1>1, <1>2 DEF History, Aside, Walks, SameLists, SameCI, SameFiles, Fields
<1>3. CASE HistoryBroken \/ HistoryRead
    BY <1>3 DEF HistoryBroken, HistoryRead, Abort, Go, Aside, Walks, SameLists, SameCI, SameFiles
<1> QED
    BY <1>2, <1>3

LEMMA TimeKinds ==
    ASSUME SinceInv, Runs \/ Jobs \/ Timed
    PROVE  Aside /\ Times
<1>1. DOMAIN got = Fields
    BY FactFields DEF SinceInv
<1>2. CASE Runs
    BY <1>1, <1>2 DEF Runs, Go, Aside, Times, SameWalk, SameLists, SameFiles, Fields
<1>3. CASE Jobs
    <2>1. \E x, y : got' = [got EXCEPT !.todo = x, !.jobs = y] /\ pc = "jobs" /\ pc' = pc /\ hub' = hub
        BY <1>3 DEF Jobs
    <2> QED
        BY <1>1, <2>1 DEF Aside, Times, SameWalk, SameLists, SameFiles, Fields
<1>4. CASE Timed
    BY <1>1, <1>4 DEF Timed, Go, Aside, Times, SameWalk, SameLists, SameFiles, Fields
<1> QED
    BY <1>2, <1>3, <1>4

LEMMA PageKinds ==
    ASSUME SinceInv, Lists
    PROVE  Aside /\ Pages
<1>1. DOMAIN got = Fields
    BY FactFields DEF SinceInv
<1>2. PICK l \in ListNames : ListRead(l) \/ TooManyPages(l)
    BY DEF Lists, After, ListNames
<1>3. CASE ListRead(l)
    <2>1. /\ \E x, y, z : got' = [got EXCEPT !.lists[l] = x, !.turn = y, !.steady = z]
          /\ pc = l /\ pc' \in {l, After[l]} /\ hub' = hub
        BY <1>3 DEF ListRead, Go
    <2> QED
        BY <1>1, <1>2, <2>1 DEF Aside, Pages, SameWalk, SameCI, SameFiles, Fields
<1>4. CASE TooManyPages(l)
    BY <1>2, <1>4 DEF TooManyPages, Abort, Go, Aside, Pages, SameWalk, SameCI, SameFiles
<1> QED
    BY <1>2, <1>3, <1>4

LEMMA ClaudeKinds ==
    ASSUME SinceInv, ClaudeFacts
    PROVE  Aside /\ Texts
<1>1. DOMAIN got = Fields
    BY FactFields DEF SinceInv
<1>2. /\ hub' = hub /\ pc \in {"claude", "manifest", "declared"} /\ pc' \in {"manifest", "declared", "files"}
      /\ \/ got' = got
         \/ \E x : got' = [got EXCEPT !.want = x]
         \/ \E x, y : got' = [got EXCEPT !.claude = x, !.blobs = y]
         \/ \E x, y : got' = [got EXCEPT !.manifest = x, !.want = y]
         \/ \E x, y, z : got' = [got EXCEPT !.manifest = x, !.claude = y, !.blobs = z]
    BY DEF ClaudeFacts, NoClaude, TooManyClaude, FirstRound, NotAPlugin, BadManifest, BadLayout,
           SecondRound, AsDeclared, Claude, Go, At
<1> QED
    BY <1>1, <1>2 DEF Aside, Texts, SameWalk, SameLists, SameCI, Fields, AfterLists, AfterClaude

LEMMA TextKinds ==
    ASSUME SinceInv, TreeRead \/ NoTree \/ ReadBlobs \/ FilesRead \/ Scans
    PROVE  Aside /\ Texts
<1>1. DOMAIN got = Fields
    BY FactFields DEF SinceInv
<1>2. CASE TreeRead \/ NoTree
    BY <1>2 DEF TreeRead, NoTree, Abort, Go, Aside, Texts, SameWalk, SameLists, SameCI, AfterLists
<1>3. CASE ReadBlobs
    <2>1. /\ hub' = hub /\ pc' = pc /\ pc \in Asking
          /\ \E x, y : got' = [got EXCEPT !.want = x, !.blobs = y]
        BY <1>3 DEF ReadBlobs, SinceInv
    <2> QED
        BY <1>1, <2>1 DEF Aside, Texts, SameWalk, SameLists, SameCI, Fields, Asking, AfterLists, AfterClaude
<1>4. CASE FilesRead
    BY <1>1, <1>4 DEF FilesRead, At, Go, Aside, Texts, SameWalk, SameLists, SameCI, Fields, AfterLists, AfterClaude
<1>5. CASE Scans
    <2>1. PICK scan \in {"getflake", "gopath", "shell"} : Scan(scan) \/ Scanned(scan)
        BY <1>5 DEF Scans, NextScan
    <2>2. CASE Scan(scan)
        BY <1>1, <2>1, <2>2 DEF Scan, At, Go, Following, Aside, Texts, SameWalk, SameLists, SameCI, Fields, AfterLists, AfterClaude
    <2>3. CASE Scanned(scan)
        <3>1. /\ \E x, y : got' = [got EXCEPT !.scans[scan] = x, !.blobs = y]
              /\ pc = Following[scan] /\ pc' = NextScan[scan] /\ hub' = hub
            BY <2>3 DEF Scanned, At, Go
        <3> QED
            BY <1>1, <2>1, <3>1 DEF Following, NextScan, Aside, Texts, SameWalk, SameLists, SameCI, Fields, AfterLists, AfterClaude
    <2> QED
        BY <2>1, <2>2, <2>3
<1> QED
    BY <1>2, <1>3, <1>4, <1>5

LEMMA ClientKinds ==
    ASSUME SinceInv, Client
    PROVE  \/ Facts \/ Empty
           \/ Aside /\ (Walks \/ Times \/ Pages \/ Texts)
BY WalkKinds, TimeKinds, PageKinds, ClaudeKinds, TextKinds DEF Client

\* The first answer: the first page of the history, and nothing else yet.
LEMMA FactsFields ==
    ASSUME SinceInv, Facts
    PROVE  /\ hub' = hub /\ hub.head # 0 /\ pc = "facts" /\ pc' = "history"
           /\ got'.oid = hub.head /\ got'.since = {hub.head} /\ got'.walk = Turn(hub.head, 0, Fact.walk)
           /\ got'.sample = Sampled(hub.head) /\ DOMAIN got' = Fields
           /\ SameLists /\ got'.listed = Fact.listed /\ got'.full = Fact.full /\ got'.todo = Fact.todo
           /\ got'.jobs = Fact.jobs /\ got'.want = {} /\ got'.blobs = <<>> /\ got'.files = <<>>
           /\ got'.manifest = NoManifest /\ got'.claude = Fact.claude
<1>1. got = [Fact EXCEPT !.since = got.since] /\ DOMAIN Fact = Fields /\ DOMAIN got = Fields
    BY FactFields DEF SinceInv, Facts
<1>2. /\ got.walk = Fact.walk /\ got.listed = Fact.listed /\ got.full = Fact.full /\ got.todo = Fact.todo
      /\ got.jobs = Fact.jobs /\ got.want = Fact.want /\ got.blobs = Fact.blobs /\ got.files = Fact.files
      /\ got.manifest = Fact.manifest /\ got.claude = Fact.claude
    BY <1>1 DEF Fields
<1>3. Fact.want = {} /\ Fact.blobs = <<>> /\ Fact.files = <<>> /\ Fact.manifest = NoManifest
    BY DEF Fact
<1>4. /\ got' = [got EXCEPT !.oid = hub.head, !.since = {hub.head}, !.sample = Sampled(hub.head),
                            !.walk = Turn(hub.head, 0, Fact.walk)]
      /\ hub' = hub /\ hub.head # 0 /\ pc = "facts" /\ pc' = "history"
    BY <1>2 DEF Facts, Go
<1> QED
    BY <1>1, <1>2, <1>3, <1>4 DEF Fields, SameLists

LEMMA ReadIsSame == Empty => pc = "facts" /\ pc' = "done" /\ got' = got /\ hub' = hub /\ hub.head = 0
BY DEF Empty, Go

\* Nothing is asked for, but where texts are read.
LEMMA WantStep ==
    ASSUME SinceInv, Client
    PROVE  got'.want # {} => pc' \in Asking
<1>1. DOMAIN got = Fields
    BY FactFields DEF SinceInv
<1>2. CASE Facts
    BY <1>2, FactsFields
<1>3. CASE Empty
    BY <1>3, ReadIsSame DEF SinceInv, Asking
<1>4. CASE History \/ HistoryBroken \/ HistoryRead
    <2>1. pc = "history" /\ got'.want = got.want
        BY <1>4, WalkKinds DEF Walks, SameFiles
    <2> QED
        BY <2>1 DEF SinceInv, Asking
<1>5. CASE Runs \/ Jobs \/ Timed
    <2>1. pc \in {"runs", "jobs"} /\ got'.want = got.want
        BY <1>5, TimeKinds DEF Times, SameFiles
    <2> QED
        BY <2>1 DEF SinceInv, Asking
<1>6. CASE Lists
    <2>1. pc \in {"caches", "artifacts"} /\ got'.want = got.want
        BY <1>6, PageKinds DEF Pages, SameFiles, ListNames
    <2> QED
        BY <2>1 DEF SinceInv, Asking
<1>7. CASE TreeRead \/ NoTree \/ ReadBlobs
    BY <1>7 DEF TreeRead, NoTree, ReadBlobs, SinceInv, Asking, Abort, Go
<1>8. CASE ClaudeFacts
    <2>1. CASE FirstRound \/ SecondRound
        BY <2>1 DEF FirstRound, SecondRound, Go, Asking
    <2>2. CASE NoClaude \/ TooManyClaude \/ NotAPlugin \/ BadManifest \/ BadLayout \/ AsDeclared
        <3>1. got.want = {}
            BY <2>2 DEF NoClaude, TooManyClaude, NotAPlugin, BadManifest, BadLayout, AsDeclared, At
        <3>2. \/ got' = got \/ \E x, y : got' = [got EXCEPT !.claude = x, !.blobs = y]
              \/ \E x, y, z : got' = [got EXCEPT !.manifest = x, !.claude = y, !.blobs = z]
            BY <2>2 DEF NoClaude, TooManyClaude, NotAPlugin, BadManifest, BadLayout, AsDeclared, Claude
        <3> QED
            BY <1>1, <3>1, <3>2 DEF Fields
    <2> QED
        BY <1>8, <2>1, <2>2 DEF ClaudeFacts
<1>9. CASE FilesRead
    BY <1>1, <1>9 DEF FilesRead, At, Fields
<1>10. CASE Scans
    <2>1. PICK scan \in {"getflake", "gopath", "shell"} : Scan(scan) \/ Scanned(scan)
        BY <1>10 DEF Scans, NextScan
    <2>2. CASE Scan(scan)
        BY <2>1, <2>2 DEF Scan, Go, Following, Asking
    <2>3. CASE Scanned(scan)
        <3>1. got.want = {} /\ \E x, y : got' = [got EXCEPT !.scans[scan] = x, !.blobs = y]
            BY <2>3 DEF Scanned, At
        <3> QED
            BY <1>1, <3>1 DEF Fields
    <2> QED
        BY <2>1, <2>2, <2>3
<1> QED
    BY <1>2, <1>3, <1>4, <1>5, <1>6, <1>7, <1>8, <1>9, <1>10 DEF Client

LEMMA SinceStep ==
    ASSUME HubInv, SinceInv, Client \/ Moved
    PROVE  SinceInv'
<1>1. DOMAIN Fact = Fields /\ DOMAIN got = Fields
    BY FactFields DEF SinceInv
<1>2. ASSUME Moved PROVE SinceInv'
    BY <1>2 DEF Moved, SinceGrows, SinceInv, SameCI, SameFiles
<1>3. ASSUME Facts PROVE SinceInv'
    <2>1. hub.head \in Commits
        BY <1>3, FactsFields, HubTypes
    <2> QED
        BY <1>1, <1>3, <2>1, FactsFields DEF SinceInv
<1>4. ASSUME Empty PROVE SinceInv'
    <2>1. got.want = {}
        BY <1>4, ReadIsSame DEF SinceInv, Asking
    <2> QED
        BY <1>4, <2>1, ReadIsSame DEF SinceInv, AfterHistory, AfterJobs, AfterLists, AfterClaude
<1>5. ASSUME Client, Aside, Walks \/ Times \/ Pages \/ Texts PROVE SinceInv'
    <2>1. pc \in {"history"} \cup AfterHistory /\ pc # "done" /\ pc' \in {"history", "aborted"} \cup AfterHistory
        BY <1>5 DEF Walks, Times, Pages, Texts, ListNames, After, AfterHistory, AfterJobs, AfterLists, AfterClaude
    <2>2. pc' # "facts"
        BY <2>1 DEF AfterHistory, AfterJobs, AfterLists, AfterClaude
    <2> QED
        BY <1>5, <2>1, <2>2, WantStep DEF SinceInv, Aside
<1> QED
    BY <1>2, <1>3, <1>4, <1>5, ClientKinds

-----------------------------------------------------------------------------
(* The walk sees every commit of the history, and each once. *)

LEMMA MinOfTwo ==
    ASSUME NEW a \in Nat, NEW b \in Nat
    PROVE  Min({a, b}) = IF a <= b THEN a ELSE b
<1> DEFINE m == IF a <= b THEN a ELSE b
<1>1. m \in {a, b} /\ \A x \in {a, b} : m <= x
    OBVIOUS
<1>2. \A y \in {a, b} : (\A x \in {a, b} : y <= x) => y = m
    OBVIOUS
<1>3. Min({a, b}) \in {a, b} /\ \A x \in {a, b} : Min({a, b}) <= x
    BY <1>1 DEF Min
<1> QED
    BY <1>2, <1>3

LEMMA LineTypes ==
    ASSUME NEW oid \in Commits
    PROVE  /\ Len(Line[oid]) \in Nat /\ DOMAIN Line[oid] = 1 .. Len(Line[oid])
           /\ HistoryPage \in Nat
           /\ \A at \in 0 .. Len(Line[oid]) :
                Upto(oid, at) \in Nat /\ at <= Upto(oid, at) /\ Upto(oid, at) <= Len(Line[oid])
<1>1. Len(Line[oid]) \in Nat /\ DOMAIN Line[oid] = 1 .. Len(Line[oid]) /\ HistoryPage \in Nat
    BY ReadsAssumption, LenProperties DEF ReadsAssumption
<1>2. ASSUME NEW at \in 0 .. Len(Line[oid])
      PROVE  Upto(oid, at) \in Nat /\ at <= Upto(oid, at) /\ Upto(oid, at) <= Len(Line[oid])
    <2>1. at \in Nat /\ at + HistoryPage \in Nat
        BY <1>1
    <2>2. Upto(oid, at) = IF at + HistoryPage <= Len(Line[oid]) THEN at + HistoryPage ELSE Len(Line[oid])
        BY <1>1, <2>1, MinOfTwo DEF Upto
    <2> QED
        BY <1>1, <2>1, <2>2
<1> QED
    BY <1>1, <1>2

LEMMA TurnFacts ==
    ASSUME NEW oid, NEW at, NEW walk
    PROVE  LET t == Turn(oid, at, walk) IN
           /\ hub.fault = "alternate" => t.more
           /\ hub.fault # "alternate" =>
                /\ t.asked = at /\ (t.more <=> Upto(oid, at) < Len(Line[oid]))
                /\ t.seen = walk.seen \cup {Author[Line[oid][i]] : i \in (at + 1) .. Upto(oid, at)}
                /\ t.cursor \in {0, at, Upto(oid, at)}
<1> DEFINE upto == Upto(oid, at)
           cursor == CASE hub.fault = "null" -> 0
                       [] hub.fault = "stuck" /\ at # 0 -> at
                       [] hub.fault = "alternate" -> IF at = HistoryPage THEN 2 * HistoryPage ELSE HistoryPage
                       [] OTHER -> upto
<1>1. Turn(oid, at, walk) =
        [seen |-> walk.seen \cup {Author[Line[oid][i]] : i \in (at + 1) .. upto},
         asked |-> at, more |-> hub.fault = "alternate" \/ upto < Len(Line[oid]), cursor |-> cursor]
    BY DEF Turn, Upto
<1> HIDE DEF upto
<1>2. hub.fault # "alternate" => cursor \in {0, at, upto}
    <2>1. CASE hub.fault = "null"
        BY <2>1
    <2>2. CASE hub.fault # "null" /\ hub.fault = "stuck" /\ at # 0
        BY <2>2
    <2>3. CASE hub.fault # "null" /\ hub.fault # "alternate" /\ ~(hub.fault = "stuck" /\ at # 0)
        BY <2>3
    <2> QED
        BY <2>1, <2>2, <2>3
<1> DEFINE more == hub.fault = "alternate" \/ upto < Len(Line[oid])
           seen == walk.seen \cup {Author[Line[oid][i]] : i \in (at + 1) .. upto}
<1>3. upto = Upto(oid, at)
    BY DEF upto
<1>4. (hub.fault = "alternate" => more) /\ (hub.fault # "alternate" => (more <=> upto < Len(Line[oid])))
    BY Zenon
<1>5. Turn(oid, at, walk) = [seen |-> seen, asked |-> at, more |-> more, cursor |-> cursor]
    BY <1>1
<1>6. seen = walk.seen \cup {Author[Line[oid][i]] : i \in (at + 1) .. upto}
    OBVIOUS
<1> HIDE DEF cursor, more, seen
<1>7. LET t == Turn(oid, at, walk) IN t.asked = at /\ t.more = more /\ t.cursor = cursor /\ t.seen = seen
    BY <1>5
<1> QED
    BY <1>2, <1>3, <1>4, <1>6, <1>7, Zenon

\* More of a history that is seen to at is seen to n.
LEMMA SeesOn ==
    ASSUME NEW oid \in Commits, NEW at \in Nat, NEW n \in Nat, at <= n
    PROVE  Whence(oid, at) \cup {Author[Line[oid][i]] : i \in (at + 1) .. n} = Whence(oid, n)
<1>1. \A i \in 1 .. n : i \in 1 .. at \/ i \in (at + 1) .. n
    OBVIOUS
<1>2. \A i \in 1 .. at : i \in 1 .. n
    OBVIOUS
<1>3. \A i \in (at + 1) .. n : i \in 1 .. n
    OBVIOUS
<1> QED
    BY <1>1, <1>2, <1>3 DEF Whence

LEMMA WalkStep ==
    ASSUME HubInv, SinceInv, WalkInv, Client \/ Moved
    PROVE  WalkInv'
<1> DEFINE Right(oid, w) ==
        /\ w.asked \in 0 .. Len(Line[oid]) /\ w.seen = Whence(oid, Upto(oid, w.asked))
        /\ w.more <=> Upto(oid, w.asked) < Len(Line[oid])
        /\ w.cursor \in {0, w.asked, Upto(oid, w.asked)}
<1>1. ASSUME Moved PROVE WalkInv'
    <2>1. hub'.fault = hub.fault /\ pc' = pc /\ got'.oid = got.oid /\ got'.walk = got.walk
        BY <1>1 DEF Moved, ListsMove, SinceGrows, SameWalk
    <2> QED
        BY <2>1 DEF WalkInv
<1>2. ASSUME Facts PROVE WalkInv'
    <2>1. hub.head \in Commits /\ got'.oid = hub.head /\ pc' = "history" /\ got'.walk = Turn(hub.head, 0, Fact.walk)
        BY <1>2, FactsFields, HubTypes
    <2>2. Fact.walk.seen = {}
        BY DEF Fact
    <2>3. 0 \in 0 .. Len(Line[hub.head]) /\ 0 + 1 = 1
        BY <2>1, LineTypes
    <2>6. hub' = hub /\ (hub.fault = "alternate" => got'.walk.more)
        BY <1>2, <2>1, TurnFacts DEF Facts, Go
    <2>4. hub.fault # "alternate" => Right(hub.head, got'.walk)
      <3>. SUFFICES ASSUME hub.fault # "alternate" PROVE Right(hub.head, got'.walk)
        OBVIOUS
        <3>1. /\ got'.walk.asked = 0 /\ (got'.walk.more <=> Upto(hub.head, 0) < Len(Line[hub.head]))
              /\ got'.walk.seen = Fact.walk.seen \cup {Author[Line[hub.head][i]] : i \in (0 + 1) .. Upto(hub.head, 0)}
              /\ got'.walk.cursor \in {0, Upto(hub.head, 0)}
            BY <2>1, TurnFacts
        <3>2. got'.walk.seen = Whence(hub.head, Upto(hub.head, 0))
            BY <2>2, <2>3, <3>1 DEF Whence
        <3> QED
            BY <2>3, <3>1, <3>2
    <2> HIDE DEF Right
    <2>5. "history" \notin AfterHistory
        BY DEF AfterHistory, AfterJobs, AfterLists, AfterClaude
    <2> QED
        BY <2>1, <2>4, <2>5, <2>6 DEF WalkInv, Right
<1>3. ASSUME Empty PROVE WalkInv'
    BY <1>3, ReadIsSame, FactFields DEF SinceInv, WalkInv, Fact, Fields
<1>4. ASSUME Aside, Times \/ Pages \/ Texts PROVE WalkInv'
    <2>1. SameWalk /\ pc \in AfterHistory /\ pc' # "history"
        BY <1>4 DEF Times, Pages, Texts, ListNames, After, AfterHistory, AfterJobs, AfterLists, AfterClaude
    <2> QED
        BY <2>1 DEF SameWalk, WalkInv
<1>5. ASSUME History PROVE WalkInv'
    <2>1. DOMAIN got = Fields /\ pc = "history" /\ pc' = "history" /\ got.oid \in Commits /\ got.oid # 0
        BY <1>5, FactFields DEF SinceInv, History
    <2>2. hub.fault # "alternate" => Right(got.oid, got.walk)
        BY <2>1 DEF WalkInv
    <2>3. got' = [got EXCEPT !.walk = Turn(got.oid, got.walk.cursor, got.walk)] /\ got.walk.cursor \notin {0, got.walk.asked}
        BY <1>5, <2>1 DEF History, Anchor, Advances, Fields
    <2>4. got'.oid = got.oid /\ got'.walk = Turn(got.oid, got.walk.cursor, got.walk)
        BY <2>1, <2>3 DEF Fields
    <2>9. hub' = hub /\ (hub.fault = "alternate" => got'.walk.more)
        BY <1>5, <2>4, TurnFacts DEF History
    <2>10. CASE hub.fault = "alternate"
        BY <2>1, <2>4, <2>9, <2>10 DEF WalkInv, AfterHistory, AfterJobs, AfterLists, AfterClaude
    <2>11. CASE hub.fault # "alternate"
        <3> DEFINE at == Upto(got.oid, got.walk.asked)
        <3>5. got.walk.cursor = at /\ at \in 0 .. Len(Line[got.oid])
            <4>1. at \in Nat /\ at <= Len(Line[got.oid]) /\ Len(Line[got.oid]) \in Nat
                BY <2>1, <2>2, <2>11, LineTypes
            <4> QED
                BY <2>2, <2>3, <2>11, <4>1
        <3>6. at \in Nat /\ Upto(got.oid, at) \in Nat /\ at <= Upto(got.oid, at)
            BY <2>1, <3>5, LineTypes
        <3>7. Right(got.oid, got'.walk)
            <4>1. got'.walk.seen = Whence(got.oid, at) \cup {Author[Line[got.oid][i]] : i \in (at + 1) .. Upto(got.oid, at)}
                BY <2>2, <2>4, <2>11, <3>5, TurnFacts
            <4>2. got'.walk.seen = Whence(got.oid, Upto(got.oid, at))
                BY <2>1, <3>6, <4>1, SeesOn
            <4> HIDE DEF at
            <4> QED
                <5>1. /\ got'.walk.asked = at /\ (got'.walk.more <=> Upto(got.oid, at) < Len(Line[got.oid]))
                      /\ got'.walk.cursor \in {0, at, Upto(got.oid, at)}
                    BY <2>4, <2>11, <3>5, TurnFacts
                <5> QED
                    BY <3>5, <4>2, <5>1
        <3> HIDE DEF Right
        <3>8. "history" \notin AfterHistory
            BY DEF AfterHistory, AfterJobs, AfterLists, AfterClaude
        <3> QED
            BY <2>1, <2>4, <2>9, <2>11, <3>7, <3>8 DEF WalkInv, Right
    <2> QED
        BY <2>10, <2>11
<1>6. ASSUME HistoryBroken PROVE WalkInv'
    <2>1. "aborted" \notin AfterHistory /\ pc' = "aborted"
        BY <1>6 DEF HistoryBroken, Abort, Go, AfterHistory, AfterJobs, AfterLists, AfterClaude
    <2> QED
        BY <2>1 DEF WalkInv
<1>7. ASSUME HistoryRead PROVE WalkInv'
    <2>1. got' = got /\ pc = "history" /\ pc' = "runs" /\ ~got.walk.more /\ got.oid \in Commits
        BY <1>7 DEF HistoryRead, Go, SinceInv
    <2>2. got.oid # 0 /\ hub.fault # "alternate" /\ Right(got.oid, got.walk)
        BY <2>1, ReadsAssumption DEF WalkInv, SinceInv, ReadsAssumption
    <2>3. Upto(got.oid, got.walk.asked) = Len(Line[got.oid])
        <3>1. /\ Upto(got.oid, got.walk.asked) \in Nat /\ Len(Line[got.oid]) \in Nat
              /\ Upto(got.oid, got.walk.asked) <= Len(Line[got.oid])
            BY <2>1, <2>2, LineTypes
        <3> QED
            BY <2>1, <2>2, <3>1
    <2>4. got'.walk.seen = Whence(got'.oid, Len(Line[got'.oid]))
        BY <2>1, <2>2, <2>3
    <2> QED
        BY <2>1, <2>4 DEF WalkInv
<1> QED
    BY <1>1, <1>2, <1>3, <1>4, <1>5, <1>6, <1>7, ClientKinds, TimeKinds, PageKinds, ClaudeKinds, TextKinds DEF Client

-----------------------------------------------------------------------------
(* A page counts each of its entries once. *)

Entry == [id : Nat, expired : BOOLEAN]

\* Where the page after from has the entry e.
OnPage(l, list, from, e) ==
    {i \in (from + 1) .. Min({from + ListPage, Len(list)}) : list[i] = e /\ Holds(l, e)}

LEMMA PageCounts ==
    ASSUME NEW l, NEW list \in Seq(Entry), IsInjective(list), NEW from \in Nat, NEW e \in Entry
    PROVE  Cardinality(OnPage(l, list, from, e))
             = IF Holds(l, e) /\ \E i \in DOMAIN list : from < i /\ i <= from + ListPage /\ list[i] = e THEN 1 ELSE 0
<1> DEFINE there == OnPage(l, list, from, e)
<1>1. Len(list) \in Nat /\ DOMAIN list = 1 .. Len(list) /\ ListPage \in Nat
    BY LenProperties, ReadsAssumption DEF ReadsAssumption
<1>2. Min({from + ListPage, Len(list)}) = IF from + ListPage <= Len(list) THEN from + ListPage ELSE Len(list)
    BY <1>1, MinOfTwo
<1>3. \A i : i \in (from + 1) .. Min({from + ListPage, Len(list)}) <=> i \in DOMAIN list /\ from < i /\ i <= from + ListPage
    BY <1>1, <1>2
<1>4. \A i : i \in there <=> i \in DOMAIN list /\ from < i /\ i <= from + ListPage /\ list[i] = e /\ Holds(l, e)
    BY <1>3 DEF OnPage
<1> HIDE DEF there
<1>5. CASE Holds(l, e) /\ \E i \in DOMAIN list : from < i /\ i <= from + ListPage /\ list[i] = e
    <2>1. PICK i \in DOMAIN list : i \in there /\ list[i] = e
        BY <1>4, <1>5
    <2>2. \A k \in there : k = i
        BY <1>4, <2>1 DEF IsInjective
    <2>3. there = {i}
        BY <2>1, <2>2
    <2> QED
        BY <1>5, <2>3, FS_Singleton DEF there
<1>6. CASE ~(Holds(l, e) /\ \E i \in DOMAIN list : from < i /\ i <= from + ListPage /\ list[i] = e)
    <2>1. there = {}
        BY <1>4, <1>6
    <2> QED
        BY <1>6, <2>1, FS_EmptySet DEF there
<1> QED
    BY <1>5, <1>6

\* The entries counted to from, and a page more.
LEMMA CountsOn ==
    ASSUME NEW l, NEW list \in Seq(Entry), IsInjective(list), NEW from \in Nat, NEW e \in Entry, NEW n,
           n = IF Holds(l, e) /\ \E i \in DOMAIN list : i <= from /\ list[i] = e THEN 1 ELSE 0
    PROVE  n + Cardinality(OnPage(l, list, from, e))
             = IF Holds(l, e) /\ \E i \in DOMAIN list : i <= from + ListPage /\ list[i] = e THEN 1 ELSE 0
<1> DEFINE More1 == Cardinality(OnPage(l, list, from, e))
<1>1. Len(list) \in Nat /\ DOMAIN list = 1 .. Len(list) /\ ListPage \in Nat
    BY LenProperties, ReadsAssumption DEF ReadsAssumption
<1>2. More1 = IF Holds(l, e) /\ \E i \in DOMAIN list : from < i /\ i <= from + ListPage /\ list[i] = e THEN 1 ELSE 0
    BY PageCounts
<1>. SUFFICES n + More1 = IF Holds(l, e) /\ \E i \in DOMAIN list : i <= from + ListPage /\ list[i] = e THEN 1 ELSE 0
    OBVIOUS
<1> HIDE DEF More1
<1>3. CASE ~Holds(l, e)
    <2>1. n = 0 /\ More1 = 0
        BY <1>2, <1>3
    <2> QED
        BY <1>3, <2>1
<1>4. CASE Holds(l, e) /\ \E i \in DOMAIN list : i <= from /\ list[i] = e
    <2>1. PICK i \in DOMAIN list : i <= from /\ list[i] = e
        BY <1>4
    <2>2. \A k \in DOMAIN list : list[k] = e => k = i
        BY <2>1 DEF IsInjective
    <2>3. More1 = 0 /\ n = 1
        BY <1>1, <1>2, <1>4, <2>1, <2>2
    <2>4. i <= from + ListPage
        BY <1>1, <2>1
    <2> QED
        BY <1>4, <2>1, <2>3, <2>4
<1>5. CASE Holds(l, e) /\ ~\E i \in DOMAIN list : i <= from /\ list[i] = e
    <2>1. n = 0
        BY <1>5
    <2>2. (\E i \in DOMAIN list : i <= from + ListPage /\ list[i] = e)
             <=> (\E i \in DOMAIN list : from < i /\ i <= from + ListPage /\ list[i] = e)
        BY <1>1, <1>5
    <2> QED
        BY <1>2, <1>5, <2>1, <2>2
<1> QED
    BY <1>3, <1>4, <1>5

\* What a page is to the list it is of.
LEMMA PageRead ==
    ASSUME HubInv, SinceInv, ListInv, NEW l \in ListNames, ListRead(l)
    PROVE  LET began == IF got.turn.pages = 0 THEN hub.moves[l] ELSE got.turn.from
               next == got.turn.next + ListPage
               last == hub.fault # "loop" /\ next >= Len(hub.lists[l])
           IN /\ hub' = hub /\ pc = l /\ DOMAIN got'.lists = ListNames
              /\ \A m \in ListNames : m # l => got'.lists[m] = got.lists[m]
              /\ hub.fault # "loop" /\ began = hub.moves[l] => \A n : n = next => CountedTo(l, n)'
              /\ last => /\ pc' = After[l] /\ got'.turn = Fact.turn
                         /\ got'.steady = IF began = hub.moves[l] THEN got.steady \cup {l} ELSE got.steady
              /\ ~last => /\ pc' = l /\ got'.steady = got.steady
                          /\ got'.turn \in [next : Nat, pages : Nat, from : Nat]
                          /\ got'.turn.pages # 0 /\ got'.turn.from = began
                          /\ hub.fault # "loop" => got'.turn.next = next
<1> DEFINE began == IF got.turn.pages = 0 THEN hub.moves[l] ELSE got.turn.from
           from == got.turn.next
           list == hub.lists[l]
           last == hub.fault # "loop" /\ from + ListPage >= Len(list)
           next == IF hub.fault = "loop" THEN from ELSE from + ListPage
           counts == [e \in DOMAIN got.lists[l] |-> got.lists[l][e]
                         + Cardinality(OnPage(l, list, from, e))]
<1>1. DOMAIN got = Fields /\ DOMAIN got.lists = ListNames /\ got.turn \in [next : Nat, pages : Nat, from : Nat]
    BY FactFields DEF SinceInv, ListInv
<1>2. /\ list \in Seq(Entry) /\ IsInjective(list) /\ Items(l) = ToSet(list) /\ hub.moves[l] \in Nat
      /\ Len(list) \in Nat /\ DOMAIN list = 1 .. Len(list) /\ ListPage \in Nat
    <2>1. list \in Seq(Entry) /\ IsInjective(list) /\ Items(l) = ToSet(list) /\ hub.moves[l] \in Nat /\ ListPage \in Nat
        BY HubTypes, ReadsAssumption DEF HubInv, Entry, ReadsAssumption
    <2> QED
        BY <2>1, LenProperties
<1>3. /\ got' = [got EXCEPT !.lists = [got.lists EXCEPT ![l] = counts],
                  !.turn = IF last THEN Fact.turn ELSE [next |-> next, pages |-> got.turn.pages + 1, from |-> began],
                  !.steady = IF last /\ began = hub.moves[l] THEN got.steady \cup {l} ELSE got.steady]
      /\ hub' = hub /\ pc = l /\ pc' = IF last THEN After[l] ELSE l
    <2>1. (hub.fault # "loop" /\ next >= Len(list)) = last
        OBVIOUS
    <2> QED
        BY <1>1, <2>1 DEF ListRead, Go, Fields, OnPage
<1> HIDE DEF counts
<1>4. /\ got'.lists = [got.lists EXCEPT ![l] = counts]
      /\ got'.turn = IF last THEN Fact.turn ELSE [next |-> next, pages |-> got.turn.pages + 1, from |-> began]
      /\ got'.steady = IF last /\ began = hub.moves[l] THEN got.steady \cup {l} ELSE got.steady
    BY <1>1, <1>3 DEF Fields
<1>5. got'.lists[l] = counts /\ \A m \in ListNames : m # l => got'.lists[m] = got.lists[m]
    BY <1>1, <1>4
<1>6. ASSUME hub.fault # "loop", began = hub.moves[l]
      PROVE  \A n : n = from + ListPage => CountedTo(l, n)'
    <2>1. CountedTo(l, from)
        <3>1. CASE got.turn.pages # 0
            BY <1>3, <1>6, <3>1 DEF ListInv
        <3>2. CASE got.turn.pages = 0
            <4>1. got.lists[l] = [e \in Items(l) |-> 0] /\ from = 0
                BY <1>3, <3>2 DEF ListInv
            <4>2. \A i \in DOMAIN list : ~(i <= from)
                BY <1>2, <4>1
            <4> QED
                BY <4>1, <4>2 DEF CountedTo
        <3> QED
            BY <3>1, <3>2
    <2>2. \A e \in Items(l) : e \in Entry
        BY <1>2, ElementOfSeq DEF ToSet
    <2>3. DOMAIN got.lists[l] = Items(l)
        BY <2>1 DEF CountedTo
    <2>4. ASSUME NEW e \in Items(l)
          PROVE  counts[e] = IF Holds(l, e) /\ \E i \in DOMAIN list : i <= from + ListPage /\ list[i] = e THEN 1 ELSE 0
        <3>1. got.lists[l][e] = IF Holds(l, e) /\ \E i \in DOMAIN list : i <= from /\ list[i] = e THEN 1 ELSE 0
            BY <2>1 DEF CountedTo
        <3>2. from \in Nat /\ e \in Entry
            BY <1>1, <2>2
        <3>3. counts[e] = got.lists[l][e]
                 + Cardinality(OnPage(l, list, from, e))
            BY <2>3 DEF counts
        <3>4. list \in Seq(Entry) /\ IsInjective(list)
            BY <1>2
        <3> HIDE DEF from, list
        <3>5. got.lists[l][e] + Cardinality(OnPage(l, list, from, e))
                = IF Holds(l, e) /\ \E i \in DOMAIN list : i <= from + ListPage /\ list[i] = e THEN 1 ELSE 0
            BY <3>1, <3>2, <3>4, CountsOn
        <3> QED
            BY <3>3, <3>5
    <2>5. counts = [e \in Items(l) |-> IF Holds(l, e) /\ \E i \in DOMAIN list : i <= from + ListPage /\ list[i] = e THEN 1 ELSE 0]
        <3>1. counts = [e \in Items(l) |-> counts[e]]
            BY <2>3 DEF counts
        <3> QED
            BY <2>4, <3>1
    <2>6. hub'.lists[l] = list /\ got'.lists[l] = counts
        BY <1>3, <1>5
    <2> HIDE DEF from, list
    <2>7. got'.lists[l] = [e \in Items(l) |-> IF Holds(l, e) /\ \E i \in DOMAIN hub'.lists[l] : i <= from + ListPage /\ hub'.lists[l][i] = e THEN 1 ELSE 0]
        BY <2>5, <2>6
    <2> QED
        BY <2>7 DEF CountedTo, from
<1>7. ~last => /\ got'.turn \in [next : Nat, pages : Nat, from : Nat] /\ got'.turn.pages # 0
               /\ got'.turn.from = began
               /\ hub.fault # "loop" => got'.turn.next = from + ListPage
    <2>1. next \in Nat /\ got.turn.pages + 1 \in Nat /\ got.turn.pages + 1 # 0 /\ began \in Nat
        BY <1>1, <1>2
    <2> HIDE DEF began, last
    <2> QED
        BY <1>4, <2>1
<1> QED
    BY <1>1, <1>3, <1>4, <1>5, <1>6, <1>7

\* The lists are as they were, and what is read of them.
LEMMA ListsFrame ==
    ASSUME ListInv, hub' = hub, SameLists, pc' \in Before => pc \in Before,
           pc' \in ListNames => pc' = pc \/ (pc \in Before /\ pc' = "caches")
    PROVE  ListInv'
<1>1. /\ got'.turn \in [next : Nat, pages : Nat, from : Nat] /\ got'.steady \subseteq ListNames
      /\ DOMAIN got'.lists = ListNames /\ (got'.turn.pages = 0 => got'.turn.next = 0)
      /\ (pc' \in Before => got'.turn = Fact.turn)
    BY DEF ListInv, SameLists
<1>2. Fact.turn.pages = 0
    BY DEF Fact
<1>3. \A l, n : CountedTo(l, n) => CountedTo(l, n)'
    BY DEF CountedTo, SameLists
<1>4. ASSUME NEW l \in ListNames
      PROVE  /\ pc' \in Before \cup {l} \/ (l = "artifacts" /\ pc' = "caches") => l \notin got'.steady
             /\ (pc' = l /\ got'.turn.pages = 0) \/ pc' \in Before \/ (l = "artifacts" /\ pc' = "caches") =>
                  got'.lists[l] = [e \in Items(l) |-> 0]
             /\ pc' = l /\ got'.turn.pages # 0 =>
                  /\ got'.turn.from <= hub'.moves[l]
                  /\ hub'.fault # "loop" /\ got'.turn.from = hub'.moves[l] => \A n : n = got'.turn.next => CountedTo(l, n)'
             /\ l \in got'.steady => \A n : n = Len(hub'.lists[l]) => CountedTo(l, n)'
    <2>1. CASE pc \in Before
        BY <1>2, <1>3, <1>4, <2>1 DEF ListInv, SameLists, ListNames, Before
    <2>2. CASE pc \notin Before
        BY <1>3, <1>4, <2>2 DEF ListInv, SameLists, ListNames, Before
    <2> QED
        BY <2>1, <2>2
<1>5. \A l, n : n = got'.turn.next /\ CountedTo(l, n)' => CountedTo(l, got.turn.next)'
    BY DEF CountedTo
<1>6. \A l, n : n = Len(hub'.lists[l]) /\ CountedTo(l, n)' => CountedTo(l, Len(hub.lists[l]))'
    BY DEF CountedTo
<1> QED
    BY <1>1, <1>4, <1>5, <1>6 DEF ListInv

\* An entry comes to the front of its list: a list being read is read wrong from
\* there on, one that was read is still what it was.
LEMMA ListsMoved ==
    ASSUME HubInv, HubInv', ListInv, Moved
    PROVE  ListInv'
<1>1. pc' = pc /\ SameLists /\ ListsMove
    BY DEF Moved, SinceGrows
<1>2. /\ got'.turn \in [next : Nat, pages : Nat, from : Nat] /\ got'.steady \subseteq ListNames
      /\ DOMAIN got'.lists = ListNames /\ (got'.turn.pages = 0 => got'.turn.next = 0)
      /\ (pc' \in Before => got'.turn = Fact.turn)
    BY <1>1 DEF ListInv, SameLists
<1>3. ASSUME NEW l \in ListNames
      PROVE  /\ Len(hub.lists[l]) \in Nat /\ Len(hub'.lists[l]) = Len(hub.lists[l])
             /\ DOMAIN hub.lists[l] = 1 .. Len(hub.lists[l]) /\ DOMAIN hub'.lists[l] = DOMAIN hub.lists[l]
             /\ ToSet(hub.lists[l]) = Items(l) /\ ToSet(hub'.lists[l]) = Items(l)
             /\ hub.moves[l] \in Nat /\ hub'.moves[l] \in Nat
    <2>1. /\ hub.lists[l] \in Seq(Entry) /\ hub'.lists[l] \in Seq(Entry)
          /\ hub.moves[l] \in Nat /\ hub'.moves[l] \in Nat
          /\ ToSet(hub.lists[l]) = Items(l) /\ ToSet(hub'.lists[l]) = Items(l)
        BY DEF HubInv, HubRecords, Entry
    <2>2. DOMAIN hub'.lists[l] = DOMAIN hub.lists[l]
        BY <1>1 DEF ListsMove
    <2>3. /\ Len(hub.lists[l]) \in Nat /\ Len(hub'.lists[l]) \in Nat
          /\ DOMAIN hub.lists[l] = 1 .. Len(hub.lists[l]) /\ DOMAIN hub'.lists[l] = 1 .. Len(hub'.lists[l])
        BY <2>1, LenProperties
    <2>4. \A k \in Nat : k \in 1 .. Len(hub.lists[l]) <=> k \in 1 .. Len(hub'.lists[l])
        BY <2>2, <2>3
    <2>5. ~(Len(hub.lists[l]) < Len(hub'.lists[l])) /\ ~(Len(hub'.lists[l]) < Len(hub.lists[l]))
        BY <2>3, <2>4
    <2> QED
        BY <2>1, <2>2, <2>3, <2>5
<1>4. ASSUME NEW l \in ListNames, pc' = l, got'.turn.pages # 0
      PROVE  /\ got'.turn.from <= hub'.moves[l]
             /\ hub'.fault # "loop" /\ got'.turn.from = hub'.moves[l] => CountedTo(l, got.turn.next)'
    <2>1. /\ got.turn.from <= hub.moves[l] /\ got.turn.from \in Nat
          /\ hub.fault # "loop" /\ got.turn.from = hub.moves[l] => CountedTo(l, got.turn.next)
        BY <1>1, <1>4 DEF ListInv, SameLists
    <2>2. hub.moves[l] <= hub'.moves[l] /\ (hub'.moves[l] = hub.moves[l] => hub'.lists[l] = hub.lists[l]) /\ hub'.fault = hub.fault
        BY <1>1 DEF ListsMove
    <2>3. got'.turn.from <= hub'.moves[l]
        BY <1>1, <1>3, <2>1, <2>2 DEF SameLists
    <2>4. got'.turn.from = hub'.moves[l] => got.turn.from = hub.moves[l] /\ hub'.moves[l] = hub.moves[l]
        BY <1>1, <1>3, <2>1, <2>2 DEF SameLists
    <2> QED
        BY <1>1, <2>1, <2>2, <2>3, <2>4 DEF SameLists, CountedTo
<1>5. ASSUME NEW l \in ListNames, l \in got'.steady
      PROVE  CountedTo(l, Len(hub.lists[l]))'
    <2>1. CountedTo(l, Len(hub.lists[l]))
        BY <1>1, <1>5 DEF ListInv, SameLists
    <2>2. \A e \in Items(l) : (\E i \in DOMAIN hub.lists[l] : i <= Len(hub.lists[l]) /\ hub.lists[l][i] = e)
        BY <1>3 DEF ToSet
    <2>3. \A e \in Items(l) : (\E i \in DOMAIN hub'.lists[l] : i <= Len(hub'.lists[l]) /\ hub'.lists[l][i] = e)
        BY <1>3 DEF ToSet
    <2>4. got.lists[l] = [e \in Items(l) |-> IF Holds(l, e) THEN 1 ELSE 0]
        BY <2>1, <2>2 DEF CountedTo
    <2>5. got'.lists[l] = [e \in Items(l) |-> IF Holds(l, e) /\ \E i \in DOMAIN hub'.lists[l] : i <= Len(hub'.lists[l]) /\ hub'.lists[l][i] = e THEN 1 ELSE 0]
        BY <1>1, <2>3, <2>4 DEF SameLists
    <2> QED
        BY <2>5 DEF CountedTo
<1>6. ASSUME NEW l \in ListNames
      PROVE  /\ pc' \in Before \cup {l} \/ (l = "artifacts" /\ pc' = "caches") => l \notin got'.steady
             /\ (pc' = l /\ got'.turn.pages = 0) \/ pc' \in Before \/ (l = "artifacts" /\ pc' = "caches") =>
                  got'.lists[l] = [e \in Items(l) |-> 0]
    BY <1>1 DEF ListInv, SameLists
<1> QED
    BY <1>2, <1>4, <1>5, <1>6 DEF ListInv

LEMMA ListStep ==
    ASSUME HubInv, HubInv', SinceInv, ListInv, Client \/ Moved
    PROVE  ListInv'
<1>1. ASSUME Moved PROVE ListInv'
    BY <1>1, ListsMoved
<1>2. ASSUME Facts \/ Empty PROVE ListInv'
    <2>1. hub' = hub /\ SameLists /\ pc \in Before /\ pc' \notin ListNames
        BY <1>2, FactsFields, ReadIsSame DEF Before, ListNames, SameLists
    <2> QED
        BY <2>1, ListsFrame
<1>3. ASSUME Aside, Walks \/ Times \/ Texts PROVE ListInv'
    <2>1. hub' = hub /\ SameLists /\ (pc' \in Before => pc \in Before)
          /\ (pc' \in ListNames => pc' = pc \/ (pc \in Before /\ pc' = "caches"))
        BY <1>3 DEF Aside, Walks, Times, Texts, Before, ListNames, AfterLists, AfterClaude
    <2> QED
        BY <2>1, ListsFrame
<1>4. ASSUME NEW l \in ListNames, TooManyPages(l) PROVE ListInv'
    <2>1. hub' = hub /\ SameLists /\ pc' = "aborted"
        BY <1>4 DEF TooManyPages, Abort, Go, SameLists
    <2> QED
        BY <2>1, ListsFrame DEF Before, ListNames
<1>5. ASSUME NEW l \in ListNames, ListRead(l) PROVE ListInv'
    <2> DEFINE began == IF got.turn.pages = 0 THEN hub.moves[l] ELSE got.turn.from
               next == got.turn.next + ListPage
               last == hub.fault # "loop" /\ next >= Len(hub.lists[l])
    <2>1. /\ hub' = hub /\ pc = l /\ DOMAIN got'.lists = ListNames
          /\ \A m \in ListNames : m # l => got'.lists[m] = got.lists[m]
          /\ hub.fault # "loop" /\ began = hub.moves[l] => \A n : n = next => CountedTo(l, n)'
        BY <1>5, PageRead
    <2>2. last => /\ pc' = After[l] /\ got'.turn = Fact.turn
                  /\ got'.steady = IF began = hub.moves[l] THEN got.steady \cup {l} ELSE got.steady
        BY <1>5, PageRead
    <2>3. ~last => /\ pc' = l /\ got'.steady = got.steady
                   /\ got'.turn \in [next : Nat, pages : Nat, from : Nat]
                   /\ got'.turn.pages # 0 /\ got'.turn.from = began
                   /\ hub.fault # "loop" => got'.turn.next = next
        BY <1>5, PageRead
    <2>4. /\ got.turn \in [next : Nat, pages : Nat, from : Nat] /\ hub.moves[l] \in Nat /\ ListPage \in Nat
          /\ Len(hub.lists[l]) \in Nat /\ DOMAIN hub.lists[l] = 1 .. Len(hub.lists[l])
        BY HubTypes, LenProperties, ReadsAssumption DEF ListInv, ReadsAssumption
    <2>5. began \in Nat /\ began <= hub.moves[l] /\ next \in Nat
        <3>1. next \in Nat
            BY <2>4
        <3>2. CASE got.turn.pages = 0
            BY <2>4, <3>1, <3>2
        <3>3. CASE got.turn.pages # 0
            <4>1. got.turn.from <= hub.moves[l]
                BY <2>1, <3>3 DEF ListInv
            <4>2. got.turn.from \in Nat
                BY <2>4
            <4> QED
                BY <3>1, <3>3, <4>1, <4>2
        <3> QED
            BY <3>2, <3>3
    <2>6. Fact.turn = [next |-> 0, pages |-> 0, from |-> 0]
        BY DEF Fact
    <2>7. ASSUME NEW m \in ListNames, m \in got.steady
          PROVE  m # l /\ \A n : n = Len(hub.lists[m]) => CountedTo(m, n)'
        <3>1. m # l /\ CountedTo(m, Len(hub.lists[m]))
            BY <2>1, <2>7 DEF ListInv
        <3> QED
            BY <2>1, <3>1 DEF CountedTo
    <2> HIDE DEF began, next
    <2>8. CASE last
        <3>1. /\ pc' = After[l] /\ got'.turn = Fact.turn
              /\ got'.steady = IF began = hub.moves[l] THEN got.steady \cup {l} ELSE got.steady
            BY <2>2, <2>8
        <3>2. ASSUME began = hub.moves[l]
              PROVE  \A n : n = Len(hub.lists[l]) => CountedTo(l, n)'
            <4>1. \A n : n = next => CountedTo(l, n)'
                BY <2>1, <2>8, <3>2
            <4>2. \A i \in DOMAIN hub.lists[l] : i <= next <=> i <= Len(hub.lists[l])
                BY <2>4, <2>5, <2>8
            <4>3. got'.lists[l] = [e \in Items(l) |-> IF Holds(l, e) /\ \E i \in DOMAIN hub.lists[l] : i <= next /\ hub.lists[l][i] = e THEN 1 ELSE 0]
                BY <2>1, <4>1 DEF CountedTo
            <4>4. got'.lists[l] = [e \in Items(l) |-> IF Holds(l, e) /\ \E i \in DOMAIN hub.lists[l] : i <= Len(hub.lists[l]) /\ hub.lists[l][i] = e THEN 1 ELSE 0]
                BY <4>2, <4>3
            <4> QED
                BY <2>1, <4>4 DEF CountedTo
        <3>3. got'.steady \subseteq ListNames /\ got'.turn.pages = 0 /\ got'.turn.next = 0
              /\ got'.turn \in [next : Nat, pages : Nat, from : Nat]
            BY <2>6, <3>1 DEF ListInv
        <3>4. pc' \notin Before /\ (pc' \in ListNames => pc' = "artifacts" /\ l = "caches")
            BY <3>1 DEF After, Before, ListNames
        <3>5. pc' = "artifacts" /\ l = "caches" =>
                 "artifacts" \notin got'.steady /\ got'.lists["artifacts"] = [e \in Items("artifacts") |-> 0]
            <4>1. "artifacts" \in ListNames
                BY DEF ListNames
            <4>2. l = "caches" => "artifacts" \notin got.steady /\ got.lists["artifacts"] = [e \in Items("artifacts") |-> 0]
                BY <2>1, <4>1 DEF ListInv
            <4> QED
                BY <2>1, <3>1, <4>1, <4>2
        <3>6. ASSUME NEW m \in ListNames, m \in got'.steady
              PROVE  \A n : n = Len(hub'.lists[m]) => CountedTo(m, n)'
            BY <2>1, <2>7, <3>1, <3>2, <3>6
        <3>7. \A m, n : n = Len(hub'.lists[m]) /\ CountedTo(m, n)' => CountedTo(m, Len(hub.lists[m]))'
            BY DEF CountedTo
        <3>8. \A m \in ListNames : m \in got'.steady => CountedTo(m, Len(hub.lists[m]))'
            BY <3>6, <3>7
        <3> HIDE DEF last
        <3> QED
            BY <2>1, <3>3, <3>4, <3>5, <3>8 DEF ListInv, ListNames
    <2>9. CASE ~last
        <3>1. /\ pc' = l /\ got'.steady = got.steady
              /\ got'.turn \in [next : Nat, pages : Nat, from : Nat]
              /\ got'.turn.pages # 0 /\ got'.turn.from = began
              /\ hub.fault # "loop" => got'.turn.next = next
            BY <2>3, <2>9
        <3> HIDE DEF last
        <3>2. ASSUME hub'.fault # "loop", got'.turn.from = hub'.moves[l]
              PROVE  CountedTo(l, got.turn.next)'
            <4>1. \A n : n = next => CountedTo(l, n)'
                BY <2>1, <3>1, <3>2
            <4>2. got'.turn.next = next
                BY <2>1, <3>1, <3>2
            <4> QED
                BY <4>1, <4>2 DEF CountedTo
        <3>3. \A m, n : n = Len(hub'.lists[m]) /\ CountedTo(m, n)' => CountedTo(m, Len(hub.lists[m]))'
            BY DEF CountedTo
        <3>4. \A m \in ListNames : m \in got'.steady => CountedTo(m, Len(hub.lists[m]))'
            BY <2>1, <2>7, <3>1, <3>3
        <3>5. l \notin got'.steady /\ got'.steady \subseteq ListNames
            BY <2>1, <3>1 DEF ListInv
        <3>6. l = "caches" => "artifacts" \notin got'.steady /\ got'.lists["artifacts"] = [e \in Items("artifacts") |-> 0]
            <4>1. "artifacts" \in ListNames
                BY DEF ListNames
            <4> QED
                BY <2>1, <3>1, <4>1 DEF ListInv
        <3>7. l \notin Before /\ got'.turn.from <= hub'.moves[l]
            BY <2>1, <2>5, <3>1 DEF Before, ListNames
        <3> QED
            BY <2>1, <3>1, <3>2, <3>4, <3>5, <3>6, <3>7 DEF ListInv, ListNames
    <2> QED
        BY <2>8, <2>9
<1>6. ASSUME Lists PROVE ListInv'
    <2>1. PICK l \in ListNames : ListRead(l) \/ TooManyPages(l)
        BY <1>6 DEF Lists, After, ListNames
    <2> QED
        BY <1>4, <1>5, <2>1
<1> QED
    BY <1>1, <1>2, <1>3, <1>6, WalkKinds, TimeKinds, ClaudeKinds, TextKinds DEF Client

-----------------------------------------------------------------------------
(* What the runs and jobs that are read have to do with those there are. *)

\* Who goes on to the pages after the runs: those three requests apart, nothing
\* of the runs is touched.
LEMMA CIStep ==
    ASSUME SinceInv, Client
    PROVE  \/ Facts \/ pc' \notin {"jobs"} \cup AfterJobs \/ got'.oid = 0
           \/ Runs \/ Jobs \/ Timed
           \/ hub' = hub /\ SameCI /\ pc \in AfterJobs /\ pc' \in AfterJobs
<1>1. CASE Empty
    <2>1. got'.oid = 0
        BY <1>1, ReadIsSame, FactFields DEF SinceInv, Fact, Fields
    <2> QED
        BY <2>1
<1>2. CASE History \/ HistoryBroken \/ HistoryRead
    <2>1. pc' \in {"history", "runs", "aborted"}
        BY <1>2, WalkKinds DEF Walks
    <2> QED
        BY <2>1 DEF AfterJobs, AfterLists, AfterClaude
<1>3. CASE Lists
    <2>1. hub' = hub /\ SameCI /\ pc \in ListNames /\ pc' \in {pc, After[pc], "aborted"}
        BY <1>3, PageKinds DEF Aside, Pages
    <2> QED
        BY <2>1 DEF ListNames, After, AfterJobs, AfterLists, AfterClaude
<1>4. CASE TreeRead \/ NoTree \/ ReadBlobs \/ FilesRead \/ Scans \/ ClaudeFacts
    <2>1. hub' = hub /\ SameCI /\ pc \in AfterLists /\ pc' \in AfterLists \cup {"aborted"}
        BY <1>4, TextKinds, ClaudeKinds DEF Aside, Texts
    <2> QED
        BY <2>1 DEF AfterJobs, AfterLists, AfterClaude
<1> QED
    BY <1>1, <1>2, <1>3, <1>4 DEF Client

\* A run over when it was listed is as it was, or was run again since.
LEMMA StillOver ==
    ASSUME HubInv, NEW old \in RunRecords, NEW new \in RunRecords, GoesOn(old, new), NEW jobs,
           \A end \in EndsOf(jobs) : end <= hub.clock,
           \/ old.status = "completed" /\ old.jobs = jobs
           \/ old.jobs # <<>> /\ \A e \in EndsOf(old.jobs) : e = 0 \/ \A end \in EndsOf(jobs) : end <= e
    PROVE  \/ new.status = "completed" /\ new.jobs = jobs
           \/ new.jobs # <<>> /\ \A e \in EndsOf(new.jobs) : e = 0 \/ \A end \in EndsOf(jobs) : end <= e
<1>1. CASE new.status = old.status /\ new.jobs = old.jobs
    BY <1>1
<1>2. CASE /\ \A end \in EndsOf(new.jobs) : \/ end = 0 \/ end = hub.clock
                                            \/ old.status = "in_progress" /\ end \in EndsOf(old.jobs)
           /\ old.status = "completed" \/ old.jobs # <<>> => new.jobs # <<>>
    <2>1. new.jobs # <<>>
        BY <1>2
    <2>2. ASSUME NEW e \in EndsOf(new.jobs), e # 0
          PROVE  \A end \in EndsOf(jobs) : end <= e
        <3>1. CASE e = hub.clock
            BY <3>1
        <3>2. CASE old.status = "in_progress" /\ e \in EndsOf(old.jobs)
            BY <2>2, <3>2
        <3> QED
            BY <1>2, <2>2, <3>1, <3>2
    <2> QED
        BY <2>1, <2>2
<1> QED
    BY <1>1, <1>2 DEF GoesOn

LEMMA FullMoved ==
    ASSUME HubInv, HubInv', FullInv, Moved
    PROVE  FullInv'
<1> SUFFICES ASSUME pc' \in {"jobs"} \cup AfterJobs, got'.oid # 0
             PROVE  FullInv'
    BY DEF FullInv
<1>1. pc' = pc /\ SameCI /\ RunsGoOn
    BY DEF Moved, SinceGrows
<1>2. pc \in {"jobs"} \cup AfterJobs /\ got.oid # 0
    BY <1>1 DEF SameCI
<1>3. /\ got.full \in Seq(RunRecords) /\ DOMAIN got.full \subseteq DOMAIN hub.runs
      /\ DOMAIN got.listed \subseteq DOMAIN got.full
      /\ \A i \in DOMAIN got.listed : got.listed[i] = got.full[i]
    BY <1>2 DEF FullInv
<1>4. ASSUME NEW i \in DOMAIN got.full
      PROVE  /\ \A end \in EndsOf(got.full[i].jobs) : end <= hub'.clock
             /\ got.full[i].status = "completed" =>
                  \/ hub'.runs[i].status = "completed" /\ Same(i, hub'.runs[i].jobs)
                  \/ Again(i, hub'.runs[i].jobs)
    <2>1. /\ \A end \in EndsOf(got.full[i].jobs) : end <= hub.clock
          /\ got.full[i].status = "completed" =>
               \/ hub.runs[i].status = "completed" /\ Same(i, hub.runs[i].jobs)
               \/ Again(i, hub.runs[i].jobs)
        BY <1>2 DEF FullInv
    <2>2. got.full[i] \in RunRecords
        BY <1>3, ElementOfSeq, LenProperties
    <2>3. EndsOf(got.full[i].jobs) \subseteq Nat
        BY <2>2, RunEnds
    <2>4. hub.clock \in Nat /\ hub'.clock \in Nat /\ hub.clock <= hub'.clock
        BY <1>1 DEF HubInv, HubRecords, RunsGoOn
    <2>5. \A end \in EndsOf(got.full[i].jobs) : end <= hub'.clock
        BY <2>1, <2>3, <2>4
    <2>6. i \in DOMAIN hub.runs /\ hub.runs[i] \in RunRecords
        BY <1>3, HubTypes
    <2>7. hub'.runs[i] \in RunRecords
        <3>1. hub'.runs \in Seq(RunRecords) /\ i \in DOMAIN hub'.runs
            BY <1>1, <2>6 DEF HubInv, HubRecords, RunsGoOn
        <3> QED
            BY <3>1, ElementOfSeq, LenProperties
    <2>8. GoesOn(hub.runs[i], hub'.runs[i])
        BY <1>1, <2>6 DEF RunsGoOn
    <2>9. got.full[i].status = "completed" =>
             \/ hub'.runs[i].status = "completed" /\ Same(i, hub'.runs[i].jobs)
             \/ Again(i, hub'.runs[i].jobs)
        BY <2>1, <2>6, <2>7, <2>8, StillOver DEF Same, Again
    <2> QED
        BY <2>5, <2>9
<1>5. got'.full = got.full /\ got'.listed = got.listed
    BY <1>1 DEF SameCI
<1>6. DOMAIN got.full \subseteq DOMAIN hub'.runs
    BY <1>1, <1>3 DEF RunsGoOn
<1> QED
    BY <1>3, <1>4, <1>5, <1>6 DEF FullInv, Same, Again

LEMMA RunsAreRead ==
    ASSUME HubInv, SinceInv, JobsInv, Runs
    PROVE  FullInv' /\ JobsInv'
<1> DEFINE page == [i \in Newest(DOMAIN hub.runs) |-> hub.runs[i]]
<1>1. /\ got' = [got EXCEPT !.full = hub.runs, !.listed = page, !.todo = UNION {CountedIn(s, page) : s \in got.sample}]
      /\ pc = "runs" /\ pc' = "jobs" /\ hub' = hub
    BY DEF Runs, Go
<1>2. DOMAIN page \subseteq DOMAIN hub.runs /\ \A i \in DOMAIN page : page[i] = hub.runs[i]
    BY DEF Newest
<1> HIDE DEF page
<1>3. /\ got'.full = hub.runs /\ got'.listed = page /\ got'.todo = UNION {CountedIn(s, page) : s \in got.sample}
      /\ got'.sample = got.sample /\ got'.jobs = got.jobs
    BY <1>1, FactFields DEF SinceInv, Fields
<1>4. got'.jobs = <<>>
    BY <1>1, <1>3 DEF JobsInv
<1>5. DOMAIN <<>> = {}
    OBVIOUS
<1>6. FullInv'
    <2>1. \A i \in DOMAIN hub.runs : \A end \in EndsOf(hub.runs[i].jobs) : end <= hub.clock
        BY DEF HubInv
    <2>2. hub.runs \in Seq(RunRecords)
        BY HubTypes
    <2> QED
        BY <1>1, <1>2, <1>3, <2>1, <2>2 DEF FullInv, Same
<1>7. JobsInv'
    <2>1. \A s : CountedIn(s, page) \subseteq DOMAIN page
        BY DEF CountedIn
    <2>2. got'.todo \subseteq DOMAIN got'.listed
        BY <1>3, <2>1
    <2>3. \A s \in got'.sample : CountedIn(s, got'.listed) \subseteq got'.todo
        BY <1>3
    <2>4. DOMAIN got'.jobs = {}
        BY <1>4, <1>5
    <2> QED
        BY <1>1, <2>2, <2>3, <2>4 DEF JobsInv
<1> QED
    BY <1>6, <1>7

\* The first m of a sequence.
LEMMA FirstOnes ==
    ASSUME NEW S, NEW seq \in Seq(S), NEW m \in 0 .. Len(seq)
    PROVE  /\ SubSeq(seq, 1, m) \in Seq(S) /\ Len(SubSeq(seq, 1, m)) = m
           /\ \A i \in 1 .. m : SubSeq(seq, 1, m)[i] = seq[i]
<1>1. Len(seq) \in Nat /\ \A i \in 1 .. Len(seq) : seq[i] \in S
    BY LenProperties, ElementOfSeq
<1>2. \A i \in 1 .. m : seq[i] \in S
    BY <1>1
<1> QED
    BY <1>1, <1>2, SubSeqProperties

\* A page that shows as many jobs as there are shows them all.
LEMMA PageOfJobs ==
    ASSUME NEW jobs \in Seq(JobRecords), NEW shown, shown = SubSeq(jobs, 1, Min({JobsPage, Len(jobs)}))
    PROVE  /\ shown \in Seq(JobRecords) /\ EndsOf(shown) \subseteq EndsOf(jobs)
           /\ Len(jobs) <= Len(shown) => shown = jobs
<1>1. Len(jobs) \in Nat /\ JobsPage \in Nat
    BY LenProperties, ReadsAssumption DEF ReadsAssumption
<1>2. PICK m \in 0 .. Len(jobs) : m = Min({JobsPage, Len(jobs)}) /\ m \in Nat /\ m <= Len(jobs)
    BY <1>1, MinOfTwo
<1>3. /\ shown = SubSeq(jobs, 1, m) /\ shown \in Seq(JobRecords) /\ Len(shown) = m
      /\ \A i \in 1 .. m : shown[i] = jobs[i]
    BY <1>2, FirstOnes
<1>4. EndsOf(shown) \subseteq EndsOf(jobs)
    <2>1. DOMAIN shown = 1 .. m /\ DOMAIN jobs = 1 .. Len(jobs)
        BY <1>3, LenProperties
    <2>2. \A i \in 1 .. m : i \in 1 .. Len(jobs)
        BY <1>1, <1>2
    <2> QED
        BY <1>3, <2>1, <2>2 DEF EndsOf, ToSet
<1>5. Len(jobs) <= Len(shown) => shown = jobs
    <2>1. Len(jobs) <= m => m = Len(jobs)
        BY <1>1, <1>2
    <2>2. SubSeq(jobs, 1, Len(jobs)) = jobs
        BY SubSeqFull
    <2> QED
        BY <1>3, <2>1, <2>2
<1> QED
    BY <1>3, <1>4, <1>5

LEMMA JobsAreRead ==
    ASSUME HubInv, SinceInv, FullInv, JobsInv, Jobs
    PROVE  FullInv' /\ JobsInv'
<1>1. PICK i \in got.todo :
        LET jobs == hub.runs[i].jobs
            page == [total |-> Len(jobs), shown |-> SubSeq(jobs, 1, Min({JobsPage, Len(jobs)}))]
        IN got' = [got EXCEPT !.todo = @ \ {i}, !.jobs = [k \in DOMAIN @ \cup {i} |-> IF k = i THEN page ELSE @[k]]]
    BY DEF Jobs
<1> DEFINE jobs == hub.runs[i].jobs
           shown == SubSeq(jobs, 1, Min({JobsPage, Len(jobs)}))
           page == [total |-> Len(jobs), shown |-> shown]
           read == [k \in DOMAIN got.jobs \cup {i} |-> IF k = i THEN page ELSE got.jobs[k]]
<1>2. pc = "jobs" /\ pc' = "jobs" /\ hub' = hub /\ got' = [got EXCEPT !.todo = got.todo \ {i}, !.jobs = read]
    BY <1>1, FactFields DEF Jobs, SinceInv, Fields
<1>3. DOMAIN read = DOMAIN got.jobs \cup {i} /\ \A k \in DOMAIN read : read[k] = IF k = i THEN page ELSE got.jobs[k]
    OBVIOUS
<1> HIDE DEF read
<1>4. /\ got'.todo = got.todo \ {i} /\ got'.jobs = read /\ got'.full = got.full /\ got'.listed = got.listed
      /\ got'.sample = got.sample /\ got'.oid = got.oid
    BY <1>2, FactFields DEF SinceInv, Fields
<1>5. got.oid # 0
    BY <1>2 DEF SinceInv, AfterHistory
<1>6. /\ got.full \in Seq(RunRecords) /\ DOMAIN got.full \subseteq DOMAIN hub.runs /\ i \in DOMAIN got.full
      /\ DOMAIN got.listed \subseteq DOMAIN got.full
      /\ got.full[i].status = "completed" => \/ hub.runs[i].status = "completed" /\ Same(i, hub.runs[i].jobs)
                                             \/ Again(i, hub.runs[i].jobs)
    BY <1>2, <1>5 DEF FullInv, JobsInv
<1>7. jobs \in Seq(JobRecords) /\ i \in DOMAIN hub.runs
    BY <1>6, HubTypes, RunEnds
<1>8. /\ shown \in Seq(JobRecords) /\ EndsOf(shown) \subseteq EndsOf(jobs)
      /\ Len(jobs) <= Len(shown) => shown = jobs
    BY <1>7, PageOfJobs
<1> HIDE DEF shown
<1>9. page.total = Len(jobs) /\ page.shown = shown /\ page \in [total : Nat, shown : Seq(JobRecords)]
    <2>1. Len(jobs) \in Nat
        BY <1>7, LenProperties
    <2> QED
        BY <1>8, <2>1
<1> HIDE DEF page
<1>10. \A end \in EndsOf(jobs) : end # 0 => <<i, end>> \in hub.ended
    BY <1>7 DEF HubInv
<1>11. got.full[i].status = "completed" /\ page.total <= Len(page.shown) => Same(i, page.shown) \/ Again(i, page.shown)
    BY <1>6, <1>8, <1>9
<1> DEFINE Right(k, p) ==
         /\ p \in [total : Nat, shown : Seq(JobRecords)]
         /\ \A end \in EndsOf(p.shown) : end # 0 => <<k, end>> \in hub.ended
         /\ got.full[k].status = "completed" /\ p.total <= Len(p.shown) => Same(k, p.shown) \/ Again(k, p.shown)
<1>12. Right(i, page)
    BY <1>8, <1>9, <1>10, <1>11
<1>13. \A k \in DOMAIN got.jobs : Right(k, got.jobs[k])
    BY <1>2 DEF JobsInv, JobsRead
<1> HIDE DEF Right
<1>14. \A k \in DOMAIN read : Right(k, read[k])
    BY <1>3, <1>12, <1>13
<1>15. FullInv'
    <2>1. DOMAIN got'.full \subseteq DOMAIN hub'.runs
        BY <1>2, <1>4, <1>6
    <2> QED
        BY <1>2, <1>4, <1>5 DEF FullInv, Same, Again
<1>16. \A k \in DOMAIN got'.jobs : JobsRead(k)'
    BY <1>2, <1>4, <1>14 DEF Right, JobsRead, Same, Again
<1>17. /\ got'.todo \subseteq DOMAIN got'.listed /\ DOMAIN got'.jobs \subseteq DOMAIN got'.full
       /\ \A s \in got'.sample : CountedIn(s, got'.listed) \subseteq got'.todo \cup DOMAIN got'.jobs
    BY <1>2, <1>3, <1>4, <1>6 DEF JobsInv
<1> QED
    BY <1>2, <1>15, <1>16, <1>17 DEF JobsInv

LEMMA SmallestIsThere ==
    ASSUME NEW S, S \subseteq Nat, S # {}
    PROVE  Min(S) \in S /\ \A y \in S : Min(S) <= y
<1> DEFINE Less == OpToRel(<, Nat)
<1>1. \A x, y \in Nat : y < x => <<y, x>> \in Less
    <2> TAKE x, y \in Nat
    <2>1. <<y, x>> \in Nat \X Nat /\ <<y, x>>[1] = y /\ <<y, x>>[2] = x
        OBVIOUS
    <2> QED
        BY <2>1 DEF OpToRel
<1>2. \E x \in S : \A y \in S : ~(<<y, x>> \in Less)
    BY NatLessThanWellFounded, WFMin
<1> HIDE DEF Less
<1>3. PICK x \in S : \A y \in S : ~(<<y, x>> \in Less)
    BY <1>2
<1>4. \A y \in S : x <= y
    <2> TAKE y \in S
    <2>1. ~(y < x)
        BY <1>1, <1>3
    <2> QED
        BY <2>1
<1> QED
    BY <1>4 DEF Min

LEMMA LargestIsThere ==
    ASSUME NEW S, S \subseteq Nat, S # {}, NEW b \in Nat, \A x \in S : x <= b
    PROVE  Max(S) \in S /\ \A y \in S : y <= Max(S)
<1> DEFINE T == {b - x : x \in S}
<1>1. T \subseteq Nat /\ T # {}
    <2>1. \A x \in S : b - x \in Nat
        OBVIOUS
    <2> QED
        BY <2>1
<1>2. Min(T) \in T /\ \A y \in T : Min(T) <= y
    BY <1>1, SmallestIsThere
<1>3. PICK x \in S : Min(T) = b - x
    BY <1>2
<1>4. ASSUME NEW y \in S PROVE x >= y
    <2>1. b - y \in T
        OBVIOUS
    <2>2. b - x <= b - y
        BY <1>2, <1>3, <2>1
    <2> HIDE DEF T
    <2>3. x \in Nat /\ y \in Nat
        BY <1>3
    <2> QED
        BY <2>2, <2>3
<1> HIDE DEF T
<1>5. Max(S) \in S /\ \A y \in S : Max(S) >= y
    BY <1>4 DEF Max
<1>6. \A y \in S : y \in Nat /\ Max(S) \in Nat
    BY <1>5
<1> QED
    BY <1>5, <1>6

\* Every end of the jobs shown of some runs.
EndsShown(runs) == UNION {EndsOf(got.jobs[i].shown) : i \in runs}

\* What the span of a commit's runs is, when all of them were over and every job
\* of them was shown.
LEMMA SpanIsTheWait ==
    ASSUME HubInv, FullInv, JobsInv, pc = "jobs", got.oid # 0, NEW runs, runs \subseteq DOMAIN got.listed,
           runs \subseteq DOMAIN got.jobs, NEW ends, ends = EndsShown(runs),
           ends # {}, 0 \notin ends,
           \A i \in runs : got.listed[i].status = "completed" /\ got.jobs[i].total <= Len(got.jobs[i].shown)
    PROVE  /\ \A i \in runs : got.full[i].status = "completed"
           /\ \A i, k \in runs : \A end \in EndsOf(got.full[i].jobs) : Span(runs, ends) >= end - got.full[k].created
           /\ \E x \in hub.ended : \E k \in runs : x[1] \in runs /\ Span(runs, ends) = WholeSeconds(x[2] - got.full[k].created)
<1> DEFINE created == {got.listed[i].created : i \in runs}
<1>1. /\ got.full \in Seq(RunRecords) /\ \A i \in runs : i \in DOMAIN got.full /\ got.listed[i] = got.full[i]
      /\ \A i \in runs : JobsRead(i)
    BY DEF FullInv, JobsInv
<1>2. \A i \in runs : got.full[i] \in RunRecords
    BY <1>1, ElementOfSeq, LenProperties
<1>3. \A i \in runs : got.full[i].created \in Nat /\ got.full[i].jobs \in Seq(JobRecords)
    BY <1>2 DEF RunRecords
<1>4. \A i \in runs : got.full[i].status = "completed"
    BY <1>1
<1>5. \A i \in runs : Same(i, got.jobs[i].shown) \/ Again(i, got.jobs[i].shown)
    BY <1>1, <1>4 DEF JobsRead
<1>6. ASSUME NEW end \in ends
      PROVE  end \in Nat /\ end <= hub.clock /\ \E i \in runs : <<i, end>> \in hub.ended
    <2>1. PICK i \in runs : end \in EndsOf(got.jobs[i].shown)
        BY DEF EndsShown
    <2>2. <<i, end>> \in hub.ended
        BY <1>1, <2>1 DEF JobsRead
    <2>3. <<i, end>> \in Pairs /\ <<i, end>>[2] <= hub.clock
        BY <2>2, HubTypes DEF HubInv
    <2> QED
        BY <2>2, <2>3 DEF Pairs
<1>7. hub.clock \in Nat
    BY HubTypes
<1>8. Max(ends) \in ends /\ \A y \in ends : y <= Max(ends)
    <2>1. ends \subseteq Nat /\ \A y \in ends : y <= hub.clock
        BY <1>6
    <2> QED
        BY <1>7, <2>1, LargestIsThere
<1>9. created # {} /\ created \subseteq Nat
    <2>1. runs # {}
        BY DEF EndsShown
    <2>2. \A i \in runs : got.listed[i].created \in Nat
        BY <1>1, <1>3
    <2> QED
        BY <2>1, <2>2
<1>10. Min(created) \in created /\ \A y \in created : Min(created) <= y
    BY <1>9, SmallestIsThere
<1>11. Span(runs, ends) = WholeSeconds(Max(ends) - Min(created))
    BY DEF Span
<1>12. PICK first \in runs : Min(created) = got.full[first].created
    BY <1>1, <1>10
<1>13. \A k \in runs : Min(created) <= got.full[k].created
    BY <1>1, <1>10
<1> HIDE DEF created
<1>14. ASSUME NEW i \in runs, NEW end \in EndsOf(got.full[i].jobs)
       PROVE  end \in Nat /\ end <= Max(ends)
    <2>1. end \in Nat
        BY <1>2, RunEnds
    <2>2. \A e \in EndsOf(got.jobs[i].shown) : e \in ends
        BY DEF EndsShown
    <2>3. CASE Same(i, got.jobs[i].shown)
        BY <1>8, <2>1, <2>2, <2>3 DEF Same
    <2>4. CASE Again(i, got.jobs[i].shown)
        <3>1. PICK e \in EndsOf(got.jobs[i].shown) : TRUE
            <4>1. got.jobs[i].shown # <<>> /\ got.jobs[i].shown \in Seq(JobRecords)
                BY <1>1, <2>4 DEF Again, JobsRead
            <4>2. 1 \in DOMAIN got.jobs[i].shown
                BY <4>1, EmptySeq, LenProperties
            <4>3. got.jobs[i].shown[1].end \in EndsOf(got.jobs[i].shown)
                BY <4>2 DEF EndsOf, ToSet
            <4> QED
                BY <4>3
        <3>2. e \in ends /\ e # 0 /\ e \in Nat
            BY <1>6, <2>2
        <3>3. end <= e /\ e <= Max(ends)
            BY <1>8, <2>4, <3>2 DEF Again
        <3>4. Max(ends) \in Nat
            BY <1>6, <1>8
        <3> QED
            BY <2>1, <3>2, <3>3, <3>4
    <2> QED
        BY <1>5, <2>3, <2>4
<1>15. Max(ends) \in Nat /\ Min(created) \in Nat
    BY <1>3, <1>6, <1>8, <1>12
<1>16. ASSUME NEW i \in runs, NEW k \in runs, NEW end \in EndsOf(got.full[i].jobs)
       PROVE  Span(runs, ends) >= end - got.full[k].created
    <2>1. end \in Nat /\ end <= Max(ends) /\ got.full[k].created \in Nat /\ Min(created) <= got.full[k].created
        BY <1>3, <1>13, <1>14
    <2> QED
        BY <1>11, <1>15, <2>1 DEF WholeSeconds
<1>17. \E x \in hub.ended : \E k \in runs : x[1] \in runs /\ Span(runs, ends) = WholeSeconds(x[2] - got.full[k].created)
    <2>1. PICK i \in runs : <<i, Max(ends)>> \in hub.ended
        BY <1>6, <1>8
    <2>2. <<i, Max(ends)>>[1] \in runs /\ Span(runs, ends) = WholeSeconds(<<i, Max(ends)>>[2] - got.full[first].created)
        BY <1>11, <1>12
    <2> QED
        BY <2>1, <2>2
<1> QED
    BY <1>4, <1>16, <1>17

LEMMA JobsAreTimed ==
    ASSUME HubInv, SinceInv, FullInv, JobsInv, Timed
    PROVE  FullInv' /\ TimingInv'
<1>1. /\ pc = "jobs" /\ pc' = "caches" /\ hub' = hub /\ got.todo = {} /\ got.oid # 0
      /\ got' = [got EXCEPT !.timing = [s \in got.sample |-> TimeCommit(CountedIn(s, got.listed))], !.last = LastRun(hub.runs)]
    BY DEF Timed, Go, SinceInv, AfterHistory
<1>2. /\ got'.timing = [s \in got.sample |-> TimeCommit(CountedIn(s, got.listed))] /\ got'.full = got.full
      /\ got'.listed = got.listed /\ got'.sample = got.sample /\ got'.oid = got.oid
    BY <1>1, FactFields DEF SinceInv, Fields
<1>3. FullInv'
    BY <1>1, <1>2 DEF FullInv, Same, Again
<1>4. ASSUME NEW s \in got.sample, got'.timing[s].complete
      PROVE  WaitOK(s)'
    <2> DEFINE runs == CountedIn(s, got.listed)
               ends == UNION {EndsOf(got.jobs[i].shown) : i \in runs}
               over(i) == got.listed[i].status = "completed" /\ got.jobs[i].total <= Len(got.jobs[i].shown)
               all == ends # {} /\ 0 \notin ends /\ \A i \in runs : over(i)
    <2>1. TimeCommit(runs).complete = all /\ TimeCommit(runs).wait = (IF all THEN Span(runs, ends) ELSE 0)
        BY DEF TimeCommit
    <2>2. all /\ got'.timing[s].wait = Span(runs, ends)
        BY <1>2, <1>4, <2>1
    <2>3. runs \subseteq DOMAIN got.listed /\ runs \subseteq DOMAIN got.jobs
        BY <1>1 DEF CountedIn, JobsInv
    <2> HIDE DEF runs
    <2>4. /\ \A i \in runs : got.full[i].status = "completed"
          /\ \A i, k \in runs : \A end \in EndsOf(got.full[i].jobs) : Span(runs, ends) >= end - got.full[k].created
          /\ \E x \in hub.ended : \E k \in runs : x[1] \in runs /\ Span(runs, ends) = WholeSeconds(x[2] - got.full[k].created)
        <3>1. /\ ends # {} /\ 0 \notin ends
              /\ \A i \in runs : got.listed[i].status = "completed" /\ got.jobs[i].total <= Len(got.jobs[i].shown)
            BY <2>2
        <3>2. ends = EndsShown(runs)
            BY DEF EndsShown
        <3>3. pc = "jobs" /\ got.oid # 0
            BY <1>1
        <3> HIDE DEF ends, over, all
        <3> QED
            BY <2>3, <3>1, <3>2, <3>3, SpanIsTheWait
    <2>5. CountedIn(s, got'.listed) = runs
        BY <1>2 DEF runs
    <2> HIDE DEF ends, over, all
    <2>6. CASE CountedIn(s, got'.full) # CountedIn(s, got'.listed)
        BY <2>6 DEF WaitOK
    <2>7. CASE CountedIn(s, got'.full) = runs
        BY <1>1, <1>2, <2>2, <2>4, <2>7 DEF WaitOK
    <2> QED
        BY <2>5, <2>6, <2>7
<1>5. TimingInv'
    BY <1>2, <1>4 DEF TimingInv
<1> QED
    BY <1>3, <1>5

LEMMA CIInvariance ==
    ASSUME HubInv, HubInv', SinceInv, FullInv, JobsInv, TimingInv, Client \/ Moved
    PROVE  FullInv' /\ JobsInv' /\ TimingInv'
<1>1. ASSUME Moved PROVE FullInv' /\ JobsInv' /\ TimingInv'
    <2>1. FullInv'
        BY <1>1, FullMoved
    <2>2. pc' = pc /\ SameCI /\ hub.ended \subseteq hub'.ended
        BY <1>1 DEF Moved, SinceGrows, RunsGoOn
    <2>3. \A i : JobsRead(i) => JobsRead(i)'
        BY <2>2 DEF JobsRead, SameCI, Same, Again
    <2>4. \A s : WaitOK(s) => WaitOK(s)'
        BY <2>2 DEF WaitOK, SameCI
    <2>5. JobsInv'
        BY <2>2, <2>3 DEF JobsInv, SameCI
    <2>6. TimingInv'
        BY <2>2, <2>4 DEF TimingInv, SameCI
    <2> QED
        BY <2>1, <2>5, <2>6
<1>2. ASSUME Facts PROVE FullInv' /\ JobsInv' /\ TimingInv'
    <2>1. pc' = "history" /\ got'.jobs = <<>>
        BY <1>2, FactsFields DEF Fact
    <2> QED
        BY <2>1 DEF FullInv, JobsInv, TimingInv, AfterJobs, AfterLists, AfterClaude
<1>3. ASSUME Runs PROVE FullInv' /\ JobsInv' /\ TimingInv'
    <2>1. pc' = "jobs"
        BY <1>3 DEF Runs, Go
    <2>2. TimingInv'
        BY <2>1 DEF TimingInv, AfterJobs, AfterLists, AfterClaude
    <2> QED
        BY <1>3, <2>2, RunsAreRead
<1>4. ASSUME Jobs PROVE FullInv' /\ JobsInv' /\ TimingInv'
    <2>1. pc' = "jobs"
        BY <1>4 DEF Jobs
    <2>2. TimingInv'
        BY <2>1 DEF TimingInv, AfterJobs, AfterLists, AfterClaude
    <2> QED
        BY <1>4, <2>2, JobsAreRead
<1>5. ASSUME Timed PROVE FullInv' /\ JobsInv' /\ TimingInv'
    <2>1. pc' = "caches"
        BY <1>5 DEF Timed, Go
    <2>2. JobsInv'
        BY <2>1 DEF JobsInv
    <2> QED
        BY <1>5, <2>2, JobsAreTimed
<1>6. ASSUME hub' = hub, SameCI, pc \in AfterJobs, pc' \in AfterJobs
      PROVE  FullInv' /\ JobsInv' /\ TimingInv'
    <2>1. JobsInv'
        BY <1>6 DEF JobsInv, AfterJobs, AfterLists, AfterClaude
    <2>2. \A s : WaitOK(s) => WaitOK(s)'
        BY <1>6 DEF WaitOK, SameCI
    <2>3. TimingInv'
        BY <1>6, <2>2 DEF TimingInv, SameCI
    <2>4. FullInv'
        BY <1>6 DEF FullInv, SameCI, Same, Again
    <2> QED
        BY <2>1, <2>3, <2>4
<1>7. ASSUME Client, ~Facts, ~Runs, pc' \notin {"jobs"} \cup AfterJobs \/ got'.oid = 0
      PROVE  FullInv' /\ JobsInv' /\ TimingInv'
    <2>1. ASSUME pc' \in {"facts", "history", "runs"}
          PROVE  got'.jobs = <<>>
        <3>1. CASE History \/ HistoryBroken \/ HistoryRead
            <4>1. pc = "history" /\ got'.jobs = got.jobs
                BY <3>1, WalkKinds DEF Walks, SameCI
            <4> QED
                BY <4>1 DEF JobsInv
        <3>2. CASE Empty
            BY <2>1, <3>2, ReadIsSame
        <3>3. CASE Jobs \/ Timed
            BY <2>1, <3>3, TimeKinds DEF Times
        <3>4. CASE Lists
            <4>1. pc' \in {"caches", "artifacts", "tree", "aborted"}
                BY <3>4, PageKinds DEF Pages, ListNames, After
            <4> QED
                BY <2>1, <4>1
        <3>5. CASE TreeRead \/ NoTree \/ ReadBlobs \/ FilesRead \/ Scans \/ ClaudeFacts
            <4>1. pc' \in AfterLists \cup {"aborted"}
                BY <3>5, TextKinds, ClaudeKinds DEF Texts
            <4> QED
                BY <2>1, <4>1 DEF AfterLists, AfterClaude
        <3> QED
            BY <1>7, <3>1, <3>2, <3>3, <3>4, <3>5 DEF Client
    <2>2. pc' # "jobs"
        <3>1. CASE got'.oid = 0
            <4>1. pc' # "jobs" \/ FALSE
                BY <1>7, <3>1, SinceStep DEF SinceInv, AfterHistory
            <4> QED
                BY <4>1
        <3>2. CASE pc' \notin {"jobs"} \cup AfterJobs
            BY <3>2
        <3> QED
            BY <1>7, <3>1, <3>2
    <2> QED
        BY <1>7, <2>1, <2>2 DEF FullInv, JobsInv, TimingInv
<1> QED
    BY <1>1, <1>2, <1>3, <1>4, <1>5, <1>6, <1>7, CIStep

-----------------------------------------------------------------------------
(* The texts: what was read is what some commit since the tree's has. *)

LEMMA NoneIn == DOMAIN <<>> = {}
OBVIOUS

\* What the requests for the Claude files change.
LEMMA ClaudeFields ==
    ASSUME SinceInv, ClaudeFacts
    PROVE  /\ hub' = hub /\ got'.oid = got.oid /\ got'.since = got.since /\ got'.files = got.files /\ got'.scans = got.scans
           /\ pc \in {"claude", "manifest", "declared"} /\ pc' \in {"manifest", "declared", "files"}
           /\ got'.blobs = got.blobs \/ got'.blobs = <<>>
<1>1. DOMAIN got = Fields
    BY FactFields DEF SinceInv
<1>2. /\ hub' = hub /\ pc \in {"claude", "manifest", "declared"} /\ pc' \in {"manifest", "declared", "files"}
      /\ \/ got' = got
         \/ \E x : got' = [got EXCEPT !.want = x]
         \/ \E x : got' = [got EXCEPT !.claude = x, !.blobs = <<>>]
         \/ \E x, y : got' = [got EXCEPT !.manifest = x, !.want = y]
         \/ \E x, y : got' = [got EXCEPT !.manifest = x, !.claude = y, !.blobs = <<>>]
    BY DEF ClaudeFacts, NoClaude, TooManyClaude, FirstRound, NotAPlugin, BadManifest, BadLayout,
           SecondRound, AsDeclared, Claude, Go, At
<1> QED
    BY <1>1, <1>2 DEF Fields

\* What the requests of the scans change.
LEMMA ScanFields ==
    ASSUME SinceInv, NEW scan \in DOMAIN NextScan, Scan(scan) \/ Scanned(scan)
    PROVE  /\ hub' = hub /\ got'.oid = got.oid /\ got'.since = got.since /\ got'.files = got.files
           /\ got'.manifest = got.manifest /\ got'.claude = got.claude /\ got'.blobs = <<>>
           /\ Scan(scan) => got'.want = Wanted(scan) /\ got'.scans = got.scans
           /\ Scanned(scan) =>
                got'.scans = [got.scans EXCEPT ![scan] = [tooMany |-> TooMany(scan), files |-> Found(scan)]]
<1>1. DOMAIN got = Fields
    BY FactFields DEF SinceInv
<1>2. CASE Scan(scan)
    <2>1. hub' = hub /\ pc = scan /\ pc' # pc /\ got' = [got EXCEPT !.want = Wanted(scan), !.blobs = <<>>]
        BY <1>2 DEF Scan, At, Go, Following, NextScan
    <2>2. ~Scanned(scan)
        BY <2>1 DEF Scanned, At, Following, NextScan
    <2> QED
        BY <1>1, <2>1, <2>2 DEF Fields
<1>3. CASE Scanned(scan)
    <2> DEFINE s == [got.scans EXCEPT ![scan] = [tooMany |-> TooMany(scan), files |-> Found(scan)]]
    <2>1. hub' = hub /\ pc = Following[scan] /\ got' = [got EXCEPT !.scans = s, !.blobs = <<>>]
        BY <1>1, <1>3 DEF Scanned, At, Go, Fields
    <2>2. ~Scan(scan)
        BY <2>1 DEF Scan, At, Following, NextScan
    <2> HIDE DEF s
    <2>3. got'.scans = s
        BY <1>1, <2>1 DEF Fields
    <2> QED
        BY <1>1, <2>1, <2>2, <2>3 DEF Fields, s
<1> QED
    BY <1>2, <1>3

\* A query's texts.
LEMMA TextsRead ==
    ASSUME SinceInv, ReadBlobs
    PROVE  \E chunk :
             /\ hub' = hub /\ pc' = pc /\ DOMAIN got'.blobs = DOMAIN got.blobs \cup chunk
             /\ got'.want = got.want \ chunk
             /\ \A p \in DOMAIN got'.blobs : got'.blobs[p] = IF p \in chunk THEN Blob(hub.head, p) ELSE got.blobs[p]
             /\ got'.oid = got.oid /\ got'.since = got.since /\ got'.files = got.files
             /\ got'.manifest = got.manifest /\ got'.claude = got.claude /\ got'.scans = got.scans
<1>1. PICK chunk :
         got' = [got EXCEPT !.want = @ \ chunk,
                            !.blobs = [p \in DOMAIN @ \cup chunk |-> IF p \in chunk THEN Blob(hub.head, p) ELSE @[p]]]
    BY DEF ReadBlobs
<1> DEFINE blobs == [p \in DOMAIN got.blobs \cup chunk |-> IF p \in chunk THEN Blob(hub.head, p) ELSE got.blobs[p]]
<1>2. DOMAIN got = Fields
    BY FactFields DEF SinceInv
<1>3. got' = [got EXCEPT !.want = got.want \ chunk, !.blobs = blobs]
    BY <1>1, <1>2 DEF Fields
<1>4. DOMAIN blobs = DOMAIN got.blobs \cup chunk /\ \A p \in DOMAIN blobs : blobs[p] = IF p \in chunk THEN Blob(hub.head, p) ELSE got.blobs[p]
    OBVIOUS
<1> HIDE DEF blobs
<1>5. got'.blobs = blobs /\ got'.want = got.want \ chunk
    BY <1>2, <1>3 DEF Fields
<1>6. /\ got'.oid = got.oid /\ got'.since = got.since /\ got'.files = got.files
      /\ got'.manifest = got.manifest /\ got'.claude = got.claude /\ got'.scans = got.scans
    BY <1>2, <1>3 DEF Fields
<1>7. hub' = hub /\ pc' = pc
    BY DEF ReadBlobs
<1> QED
    BY <1>4, <1>5, <1>6, <1>7

LEMMA BlobsStep ==
    ASSUME SinceInv, BlobsInv, Client \/ Moved
    PROVE  BlobsInv'
<1>1. ASSUME got'.oid = got.oid, got.since \subseteq got'.since, got'.files = got.files,
             got'.blobs = got.blobs \/ got'.blobs = <<>>
      PROVE  BlobsInv'
    BY <1>1, NoneIn DEF BlobsInv, Says
<1>2. ASSUME Moved PROVE BlobsInv'
    BY <1>1, <1>2 DEF Moved, SinceGrows, SameFiles
<1>3. ASSUME Facts PROVE BlobsInv'
    BY <1>3, FactsFields, NoneIn DEF BlobsInv
<1>4. ASSUME Aside, Walks \/ Times \/ Pages PROVE BlobsInv'
    BY <1>1, <1>4 DEF Aside, Walks, Times, Pages, SameFiles
<1>5. ASSUME Empty \/ TreeRead \/ NoTree PROVE BlobsInv'
    BY <1>1, <1>5 DEF Empty, TreeRead, NoTree, Abort
<1>6. ASSUME ClaudeFacts PROVE BlobsInv'
    BY <1>1, <1>6, ClaudeFields
<1>7. ASSUME Scans PROVE BlobsInv'
    <2>1. PICK scan \in DOMAIN NextScan : Scan(scan) \/ Scanned(scan)
        BY <1>7 DEF Scans
    <2> QED
        BY <1>1, <2>1, ScanFields
<1>8. ASSUME ReadBlobs, got'.oid # 0 PROVE BlobsInv'
    <2>1. PICK chunk :
             /\ hub' = hub /\ pc' = pc /\ DOMAIN got'.blobs = DOMAIN got.blobs \cup chunk
             /\ \A p \in DOMAIN got'.blobs : got'.blobs[p] = IF p \in chunk THEN Blob(hub.head, p) ELSE got.blobs[p]
             /\ got'.oid = got.oid /\ got'.since = got.since /\ got'.files = got.files
        BY <1>8, TextsRead
    <2>2. hub.head \in got.since
        BY <1>8, <2>1 DEF SinceInv
    <2> QED
        BY <1>8, <2>1, <2>2 DEF BlobsInv, Says
<1>9. ASSUME FilesRead, got'.oid # 0 PROVE BlobsInv'
    <2> DEFINE files == [p \in Queried(hub.head) |-> Text(Blob(hub.head, p))]
    <2>1. got' = [got EXCEPT !.files = files] /\ DOMAIN got = Fields
        BY <1>9, FactFields DEF FilesRead, SinceInv
    <2>2. \A p \in DOMAIN files : files[p] = Text(Blob(hub.head, p))
        OBVIOUS
    <2> HIDE DEF files
    <2>3. got'.files = files /\ got'.blobs = got.blobs /\ got'.oid = got.oid /\ got'.since = got.since
        BY <2>1 DEF Fields
    <2>4. hub.head \in got.since
        BY <1>9, <2>3 DEF SinceInv
    <2> QED
        BY <1>9, <2>2, <2>3, <2>4 DEF BlobsInv, Says
<1>10. got'.oid = 0 => BlobsInv'
    BY DEF BlobsInv
<1> QED
    BY <1>2, <1>3, <1>4, <1>5, <1>6, <1>7, <1>8, <1>9, <1>10, WalkKinds, TimeKinds, PageKinds DEF Client

-----------------------------------------------------------------------------
(* The Claude files. *)

\* Whatever a manifest says, the project's own files are read.
LEMMA OwnAreRead ==
    ASSUME NEW files, NEW m
    PROVE  {p \in files : IsProjectSkill(p) \/ IsSettings(p)} \subseteq Discover(files, m).paths
BY DEF Discover

LEMMA NothingDeclared == DeclaredBy(NoManifest) = {}
BY DEF DeclaredBy, NoManifest

\* What a manifest declares is read, or a directory, or missing.
LEMMA DeclaredAreRead ==
    ASSUME NEW files, NEW m, m.present, Discover(files, m).missing = {}
    PROVE  DeclaredBy(m) \subseteq Discover(files, m).paths \cup Dirs(files) \cup {<<>>}
<1>1. Missing(files, m) = {}
    BY DEF Discover
<1>2. PluginCommands(files, m) \cup Sources(m) \cup Hooks(files, m) \subseteq Discover(files, m).paths
    BY DEF Discover
<1>3. \A d \in m.skillDirs : d \in Dirs(files) \cup {<<>>}
    BY <1>1 DEF Missing
<1>4. \A c \in m.commandPaths : c \in Dirs(files) \cup {<<>>} \/ (IsMarkdown(c) /\ InRepo(c))
    BY <1>1 DEF Missing
<1>5. m.sources \subseteq Sources(m)
    BY <1>1 DEF Missing
<1>6. \A h \in m.hooksFiles : InRepo(h) /\ h # <<>>
    BY <1>1 DEF Missing
<1>7. \A c \in m.commandPaths : c \in Dirs(files) \cup {<<>>} \/ c \in PluginCommands(files, m)
    <2> TAKE c \in m.commandPaths
    <2>1. CASE c \in Dirs(files) \cup {<<>>}
        BY <2>1
    <2>2. CASE c \notin Dirs(files) \cup {<<>>}
        <3>1. IsMarkdown(c) /\ InRepo(c)
            BY <1>4, <2>2
        <3>2. c \in (IF c \in Dirs(files) \cup {<<>>} THEN CommandsOf(files, c)
                     ELSE IF IsMarkdown(c) /\ InRepo(c) THEN {c} ELSE {})
            BY <2>2, <3>1
        <3> QED
            BY <3>2 DEF PluginCommands
    <2> QED
        BY <2>1, <2>2
<1>8. m.hooksFiles \subseteq Hooks(files, m)
    BY <1>6 DEF Hooks
<1> QED
    BY <1>2, <1>3, <1>5, <1>7, <1>8 DEF DeclaredBy

\* The texts that were read of a layout's paths.
LEMMA TextsAreRecorded ==
    ASSUME BlobsInv, got.oid # 0, ToRead(Layout) \subseteq DOMAIN got.blobs
    PROVE  \A p \in DOMAIN Recorded : Says(p, Recorded[p]) \/ (p \notin Files(got.oid) /\ Recorded[p] = Unreadable)
<1> SUFFICES ASSUME NEW p \in Layout.paths
             PROVE  Says(p, ClaudeText(p)) \/ (p \notin Files(got.oid) /\ ClaudeText(p) = Unreadable)
    BY DEF Recorded
<1>1. CASE p \in Files(got.oid)
    <2>1. p \in DOMAIN got.blobs
        BY DEF ToRead
    <2>2. PICK c \in got.since : got.blobs[p] = Blob(c, p)
        BY <2>1 DEF BlobsInv
    <2>3. ClaudeText(p) = Text(Blob(c, p))
        BY <1>1, <2>2 DEF ClaudeText
    <2> QED
        BY <2>3 DEF Says
<1>2. CASE p \notin Files(got.oid)
    BY <1>2 DEF ClaudeText
<1> QED
    BY <1>1, <1>2

LEMMA StagesApart ==
    /\ BeforeClaude \cap {"manifest", "declared", "aborted"} = {} /\ AfterClaude \cap {"manifest", "declared", "aborted"} = {}
    /\ BeforeClaude \cap AfterClaude = {}
BY DEF BeforeClaude, Before, AfterClaude

\* What does not touch the Claude files, nor goes on to another stage of them.
LEMMA ClaudeFrame ==
    ASSUME ClaudeInv, got'.oid = got.oid, got.since \subseteq got'.since, got'.manifest = got.manifest,
           got'.claude = got.claude,
           pc' = "aborted" \/ pc' = pc \/ (pc \in BeforeClaude /\ pc' \in BeforeClaude) \/ (pc \in AfterClaude /\ pc' \in AfterClaude),
           pc \in {"manifest", "declared"} => got.want \cup DOMAIN got.blobs \subseteq got'.want \cup DOMAIN got'.blobs
    PROVE  ClaudeInv'
<1>1. Layout' = Layout
    BY DEF Layout
<1>2. ToRead(Layout)' = ToRead(Layout)
    BY <1>1 DEF ToRead
<1>3. ClaudeOK => ClaudeOK'
    BY DEF ClaudeOK, Says
<1>4. CASE pc' = "aborted"
    BY <1>4, StagesApart DEF ClaudeInv
<1>5. CASE pc' = pc
    BY <1>1, <1>2, <1>3, <1>5 DEF ClaudeInv
<1>6. CASE pc \in BeforeClaude /\ pc' \in BeforeClaude
    <2>1. pc' \notin AfterClaude /\ pc' \notin {"manifest", "declared"}
        BY <1>6, StagesApart
    <2> QED
        BY <1>6, <2>1 DEF ClaudeInv
<1>7. CASE pc \in AfterClaude /\ pc' \in AfterClaude
    <2>1. pc' \notin BeforeClaude /\ pc' \notin {"manifest", "declared"}
        BY <1>7, StagesApart
    <2> QED
        BY <1>3, <1>7, <2>1 DEF ClaudeInv
<1> QED
    BY <1>4, <1>5, <1>6, <1>7

\* The Claude files recorded, those of a layout's paths.
LEMMA RecordedIsOK ==
    ASSUME BlobsInv, got.oid # 0, ToRead(Layout) \subseteq DOMAIN got.blobs,
           DeclaredBy(got.manifest) \subseteq Layout.paths \cup Dirs(Files(got.oid)) \cup {<<>>},
           SinceInv, Claude([unreadable |-> FALSE, files |-> Recorded])
    PROVE  ClaudeInv'
<1> DEFINE facts == [unreadable |-> FALSE, files |-> Recorded]
<1>1. facts.files = Recorded /\ DOMAIN Recorded = Layout.paths
    BY DEF Recorded
<1>2. \A p \in DOMAIN facts.files :
        Says(p, facts.files[p]) \/ (p \notin Files(got.oid) /\ facts.files[p] = Unreadable)
    BY <1>1, TextsAreRecorded
<1>3. {p \in Files(got.oid) : IsProjectSkill(p) \/ IsSettings(p)} \subseteq DOMAIN facts.files
    BY <1>1, OwnAreRead DEF Layout
<1>4. DeclaredBy(got.manifest) \subseteq DOMAIN facts.files \cup Dirs(Files(got.oid)) \cup {<<>>}
    BY <1>1
<1>5. got' = [got EXCEPT !.claude = facts, !.blobs = <<>>] /\ pc' = "files"
    BY DEF Claude, Go
<1> HIDE DEF facts
<1>6. /\ got'.claude = facts /\ got'.oid = got.oid /\ got'.since = got.since /\ got'.manifest = got.manifest
    BY <1>5, FactFields DEF SinceInv, Fields
<1>7. ClaudeOK'
    BY <1>2, <1>3, <1>4, <1>6 DEF ClaudeOK, Says
<1>8. pc' \notin BeforeClaude \cup {"manifest", "declared"}
    BY <1>5 DEF BeforeClaude, Before
<1> QED
    BY <1>7, <1>8 DEF ClaudeInv

\* The whole unreadable.
LEMMA WholeIsOK ==
    ASSUME SinceInv, NEW m, got' = [got EXCEPT !.manifest = m, !.claude = Whole, !.blobs = <<>>], pc' = "files"
    PROVE  ClaudeInv'
<1>1. got'.claude = Whole
    BY FactFields DEF SinceInv, Fields
<1>2. Whole.unreadable /\ DOMAIN Whole.files = {}
    BY NoneIn DEF Whole
<1>3. ClaudeOK'
    BY <1>1, <1>2 DEF ClaudeOK
<1>4. pc' \notin BeforeClaude \cup {"manifest", "declared"}
    BY DEF BeforeClaude, Before
<1> QED
    BY <1>3, <1>4 DEF ClaudeInv

LEMMA ClaudeFactsStep ==
    ASSUME SinceInv, BlobsInv, ClaudeInv, got.oid # 0, ClaudeFacts
    PROVE  ClaudeInv'
<1>1. DOMAIN got = Fields
    BY FactFields DEF SinceInv
<1>2. ASSUME NoClaude PROVE ClaudeInv'
    <2>1. got' = got /\ pc = "claude" /\ pc' = "files" /\ ToRead(Layout) = {}
        BY <1>2 DEF NoClaude, At, Go
    <2>2. got.manifest = NoManifest /\ got.claude = Fact.claude
        BY <2>1 DEF ClaudeInv, BeforeClaude
    <2>3. Fact.claude.files = <<>> /\ DOMAIN Fact.claude.files = {}
        BY NoneIn DEF Fact
    <2>4. {p \in Files(got.oid) : IsProjectSkill(p) \/ IsSettings(p)} = {}
        BY <2>1, OwnAreRead DEF Layout, ToRead
    <2>5. ClaudeOK
        BY <2>2, <2>3, <2>4, NothingDeclared DEF ClaudeOK
    <2>6. ClaudeOK'
        BY <2>1, <2>5 DEF ClaudeOK, Says
    <2>7. pc' \notin BeforeClaude \cup {"manifest", "declared"}
        BY <2>1 DEF BeforeClaude, Before
    <2> QED
        BY <2>6, <2>7 DEF ClaudeInv
<1>3. ASSUME TooManyClaude \/ BadManifest PROVE ClaudeInv'
    <2>1. got' = [got EXCEPT !.claude = Whole, !.blobs = <<>>] /\ pc' = "files"
        BY <1>3 DEF TooManyClaude, BadManifest, Claude, Go
    <2>2. got' = [got EXCEPT !.manifest = got.manifest, !.claude = Whole, !.blobs = <<>>]
        BY <1>1, <2>1 DEF Fields
    <2> QED
        BY <2>1, <2>2, WholeIsOK
<1>4. ASSUME BadLayout PROVE ClaudeInv'
    <2>1. got' = [got EXCEPT !.manifest = Parsed, !.claude = Whole, !.blobs = <<>>] /\ pc' = "files"
        BY <1>4 DEF BadLayout, Go
    <2> QED
        BY <2>1, WholeIsOK
<1>5. ASSUME FirstRound PROVE ClaudeInv'
    <2>1. pc = "claude" /\ pc' = "manifest" /\ got' = [got EXCEPT !.want = ToRead(Layout)]
        BY <1>5 DEF FirstRound, At, Go
    <2>2. got'.want = ToRead(Layout) /\ got'.oid = got.oid /\ got'.manifest = got.manifest
        BY <1>1, <2>1 DEF Fields
    <2>3. got'.manifest = NoManifest
        BY <2>1, <2>2 DEF ClaudeInv, BeforeClaude
    <2>4. ToRead(Layout)' \subseteq got'.want
        BY <2>2 DEF ToRead, Layout
    <2> QED
        BY <2>1, <2>3, <2>4, StagesApart DEF ClaudeInv
<1>6. ASSUME NotAPlugin PROVE ClaudeInv'
    <2>1. /\ pc = "manifest" /\ got.want = {} /\ Claude([unreadable |-> FALSE, files |-> Recorded])
        BY <1>6 DEF NotAPlugin, At
    <2>2. ToRead(Layout) \subseteq DOMAIN got.blobs /\ got.manifest = NoManifest
        BY <2>1 DEF ClaudeInv
    <2> QED
        BY <2>1, <2>2, NothingDeclared, RecordedIsOK
<1>7. ASSUME SecondRound PROVE ClaudeInv'
    <2>1. /\ pc' = "declared" /\ got' = [got EXCEPT !.manifest = Parsed, !.want = More]
          /\ ~Parsed.unreadable /\ Declared.missing = {}
        BY <1>7 DEF SecondRound, Go, Unloadable
    <2>2. got'.want = More /\ got'.oid = got.oid /\ got'.manifest = Parsed /\ got'.blobs = got.blobs
        BY <1>1, <2>1 DEF Fields
    <2>3. Layout' = Declared
        BY <2>2 DEF Layout, Declared
    <2>4. ToRead(Layout)' \subseteq got'.want \cup DOMAIN got'.blobs
        BY <2>2, <2>3 DEF ToRead, More
    <2>5. Parsed.present
        <3>1. "present" \in DOMAIN NoManifest
            BY DEF NoManifest
        <3>2. CASE ManifestText \in DOMAIN Manifests
            BY <3>1, <3>2, ReadsAssumption DEF Parsed, ReadsAssumption
        <3>3. CASE ManifestText \notin DOMAIN Manifests
            <4>1. Parsed = [NoManifest EXCEPT !.present = TRUE, !.unreadable = TRUE]
                BY <3>3 DEF Parsed
            <4> QED
                BY <4>1 DEF NoManifest
        <3> QED
            BY <3>2, <3>3
    <2>6. Layout'.missing = {}
        BY <2>1, <2>3
    <2> QED
        BY <2>1, <2>2, <2>4, <2>5, <2>6, StagesApart DEF ClaudeInv
<1>8. ASSUME AsDeclared PROVE ClaudeInv'
    <2>1. /\ pc = "declared" /\ got.want = {} /\ Claude([unreadable |-> FALSE, files |-> Recorded])
        BY <1>8 DEF AsDeclared, At
    <2>2. ToRead(Layout) \subseteq DOMAIN got.blobs /\ got.manifest.present /\ Layout.missing = {}
        BY <2>1 DEF ClaudeInv
    <2>3. DeclaredBy(got.manifest) \subseteq Layout.paths \cup Dirs(Files(got.oid)) \cup {<<>>}
        BY <2>2, DeclaredAreRead DEF Layout
    <2> QED
        BY <2>1, <2>2, <2>3, RecordedIsOK
<1> QED
    BY <1>2, <1>3, <1>4, <1>5, <1>6, <1>7, <1>8 DEF ClaudeFacts

LEMMA ClaudeStep ==
    ASSUME SinceInv, BlobsInv, ClaudeInv, Client \/ Moved
    PROVE  ClaudeInv'
<1>1. ASSUME Moved PROVE ClaudeInv'
    BY <1>1, ClaudeFrame DEF Moved, SinceGrows, SameFiles
<1>2. ASSUME Facts PROVE ClaudeInv'
    <2>1. pc' = "history" /\ got'.manifest = NoManifest /\ got'.claude = Fact.claude
        BY <1>2, FactsFields
    <2>2. pc' \in BeforeClaude \cup {"history"}
        BY <2>1
    <2>3. pc' \notin AfterClaude \cup {"manifest", "declared"}
        BY <2>1 DEF AfterClaude
    <2> QED
        BY <2>1, <2>3, StagesApart DEF ClaudeInv, Fact
<1>3. ASSUME Aside, Walks \/ Times \/ Pages PROVE ClaudeInv'
    <2>1. /\ got'.oid = got.oid /\ got'.since = got.since /\ got'.manifest = got.manifest
          /\ got'.claude = got.claude /\ got'.want = got.want /\ got'.blobs = got.blobs
        BY <1>3 DEF Aside, Walks, Times, Pages, SameFiles
    <2>2. pc \in BeforeClaude /\ pc' \in BeforeClaude \cup {"aborted"}
        BY <1>3 DEF Walks, Times, Pages, ListNames, After, BeforeClaude, Before
    <2> QED
        BY <2>1, <2>2, ClaudeFrame
<1>4. ASSUME Empty PROVE ClaudeInv'
    <2>1. got'.oid = 0
        BY <1>4, ReadIsSame, FactFields DEF SinceInv, Fact, Fields
    <2> QED
        BY <2>1 DEF ClaudeInv
<1>5. ASSUME TreeRead \/ NoTree PROVE ClaudeInv'
    <2>1. got' = got /\ pc = "tree" /\ pc' \in {"claude", "aborted"}
        BY <1>5 DEF TreeRead, NoTree, Abort, Go
    <2>2. pc \in BeforeClaude /\ pc' \in BeforeClaude \cup {"aborted"}
        BY <2>1 DEF BeforeClaude
    <2> QED
        BY <2>1, <2>2, ClaudeFrame
<1>6. ASSUME ReadBlobs PROVE ClaudeInv'
    BY <1>6, TextsRead, ClaudeFrame
<1>7. ASSUME ClaudeFacts PROVE ClaudeInv'
    <2>1. CASE got.oid = 0
        BY <1>7, <2>1, ClaudeFields DEF ClaudeInv
    <2>2. CASE got.oid # 0
        BY <1>7, <2>2, ClaudeFactsStep
    <2> QED
        BY <2>1, <2>2
<1>8. ASSUME FilesRead PROVE ClaudeInv'
    <2>1. /\ pc = "files" /\ pc' = "getflake" /\ \E x : got' = [got EXCEPT !.files = x]
        BY <1>8 DEF FilesRead, At, Go
    <2>2. /\ got'.oid = got.oid /\ got'.since = got.since /\ got'.manifest = got.manifest
          /\ got'.claude = got.claude
        BY <2>1, FactFields DEF SinceInv, Fields
    <2>3. pc \in AfterClaude /\ pc' \in AfterClaude
        BY <2>1 DEF AfterClaude
    <2> QED
        BY <2>1, <2>2, <2>3, ClaudeFrame
<1>9. ASSUME Scans PROVE ClaudeInv'
    <2>1. PICK scan \in DOMAIN NextScan : Scan(scan) \/ Scanned(scan)
        BY <1>9 DEF Scans
    <2>2. /\ got'.oid = got.oid /\ got'.since = got.since /\ got'.manifest = got.manifest
          /\ got'.claude = got.claude
        BY <2>1, ScanFields
    <2>3. pc \in AfterClaude /\ pc' \in AfterClaude
        BY <2>1 DEF Scan, Scanned, At, Go, Following, NextScan, AfterClaude
    <2>4. pc \notin {"manifest", "declared"}
        BY <2>3, StagesApart
    <2> QED
        BY <2>2, <2>3, <2>4, ClaudeFrame
<1> QED
    BY <1>1, <1>2, <1>3, <1>4, <1>5, <1>6, <1>7, <1>8, <1>9, WalkKinds, TimeKinds, PageKinds DEF Client

-----------------------------------------------------------------------------
(* The scans. *)

LEMMA ScanOrder ==
    /\ DOMAIN NextScan = {"getflake", "gopath", "shell"}
    /\ Following["getflake"] = "getflake_read" /\ Following["gopath"] = "gopath_read" /\ Following["shell"] = "shell_read"
    /\ NextScan["getflake"] = "gopath" /\ NextScan["gopath"] = "shell" /\ NextScan["shell"] = "done"
    /\ AfterScan("getflake") = {"gopath", "gopath_read", "shell", "shell_read", "done"}
    /\ AfterScan("gopath") = {"shell", "shell_read", "done"}
    /\ AfterScan("shell") = {"done"}
BY DEF NextScan, Following, AfterScan

\* What leaves the scans alone.
LEMMA ScanFrame ==
    ASSUME ScanInv, got'.oid = got.oid, got.since \subseteq got'.since, got'.scans = got.scans,
           \A scan \in DOMAIN NextScan :
             /\ pc' = Following[scan] => pc = pc' /\ got.want \cup DOMAIN got.blobs \subseteq got'.want \cup DOMAIN got'.blobs
             /\ pc' \in AfterScan(scan) => pc \in AfterScan(scan)
    PROVE  ScanInv'
<1>1. \A scan : Wanted(scan)' = Wanted(scan)
    BY DEF Wanted, TooMany, Candidates, NixFiles, Regular
<1>2. \A scan : ScanOK(scan) => ScanOK(scan)'
    <2>1. \A scan : Candidates(scan)' = Candidates(scan)
        BY DEF Candidates, NixFiles, Regular
    <2>2. \A scan, p : Silent(scan, p) => Silent(scan, p)'
        BY DEF Silent
    <2>3. \A p, v : Says(p, v) => Says(p, v)'
        BY DEF Says
    <2> QED
        BY <2>1, <2>2, <2>3 DEF ScanOK
<1> QED
    BY <1>1, <1>2 DEF ScanInv

\* What a scan records of the texts that were read for it.
LEMMA FoundIsOK ==
    ASSUME BlobsInv, got.oid # 0, NEW scan \in DOMAIN NextScan, Wanted(scan) \subseteq DOMAIN got.blobs, ~TooMany(scan),
           NEW p \in Candidates(scan)
    PROVE  IF p \in DOMAIN Found(scan) THEN Says(p, Found(scan)[p]) ELSE Silent(scan, p)
<1> DEFINE read == {q \in DOMAIN got.blobs : Shown(scan, q, got.blobs[q])}
           links == {q \in Irregular : scan = "shell"}
           queried == {q \in DOMAIN got.files : scan = "getflake" /\ NixFiles # {} /\ ~TooMany(scan) /\ q # <<"flake.lock">>
                         /\ (got.files[q] = Unreadable \/ scan \in Marks[got.files[q]])}
<1>1. Found(scan) = [q \in read \cup links \cup queried |->
                       IF q \in read THEN Text(got.blobs[q]) ELSE IF q \in links THEN Unreadable ELSE got.files[q]]
    BY DEF Found
<1>2. p \in DOMAIN got.blobs
    BY DEF Wanted
<1>3. PICK c \in got.since : got.blobs[p] = Blob(c, p)
    BY <1>2 DEF BlobsInv
<1>4. p \notin links
    <2>1. SUFFICES ASSUME scan = "shell", p \in Irregular PROVE FALSE
        OBVIOUS
    <2>2. p = Wrapper
        BY <2>1 DEF Irregular
    <2>3. "shell" # "getflake" /\ "shell" # "gopath"
        OBVIOUS
    <2>4. Candidates("shell") = {q \in Files(got.oid) : q # Wrapper /\ Tree[got.oid][q].mode = "100755"
                                                          /\ Last(q) \notin {"mvnw", "gradlew"}}
        BY <2>3 DEF Candidates
    <2> QED
        BY <2>1, <2>2, <2>4
<1>5. CASE p \in read
    <2>1. p \in DOMAIN Found(scan) /\ Found(scan)[p] = Text(got.blobs[p])
        BY <1>1, <1>5
    <2> QED
        BY <1>3, <2>1 DEF Says
<1>6. CASE p \notin read /\ p \in queried
    <2>1. p \in DOMAIN Found(scan) /\ Found(scan)[p] = got.files[p] /\ p \in DOMAIN got.files
        BY <1>1, <1>4, <1>6
    <2>2. Says(p, got.files[p])
        BY <2>1 DEF BlobsInv
    <2> QED
        BY <2>1, <2>2
<1>7. CASE p \notin read /\ p \notin queried
    <2>1. p \notin DOMAIN Found(scan)
        BY <1>1, <1>4, <1>7
    <2>2. ~Shown(scan, p, got.blobs[p])
        BY <1>2, <1>7
    <2> DEFINE b == got.blobs[p]
    <2>3. b = "binary" \/ (Text(b) # Unreadable /\ scan \notin Marks[b])
        BY <2>2 DEF Shown, Skipped
    <2>4. b \in {Blob(d, p) : d \in got.since}
        BY <1>3
    <2> HIDE DEF b
    <2>5. Silent(scan, p)
        BY <2>3, <2>4 DEF Silent
    <2> QED
        BY <2>1, <2>5
<1> QED
    BY <1>5, <1>6, <1>7

LEMMA ScanStarts ==
    ASSUME SinceInv, ScanInv, NEW scan \in DOMAIN NextScan, Scan(scan)
    PROVE  ScanInv'
<1>1. /\ pc = scan /\ pc' = Following[scan] /\ got'.want = Wanted(scan) /\ got'.oid = got.oid
      /\ got'.since = got.since /\ got'.scans = got.scans
    BY ScanFields DEF Scan, At, Go
<1>2. \A s : Wanted(s)' = Wanted(s)
    BY <1>1 DEF Wanted, TooMany, Candidates, NixFiles, Regular
<1>3. \A s : ScanOK(s) => ScanOK(s)'
    BY <1>1 DEF ScanOK, Candidates, NixFiles, Regular, Silent, Says
<1>4. \A s \in DOMAIN NextScan : pc' \in AfterScan(s) => pc \in AfterScan(s)
    BY <1>1, ScanOrder
<1>5. \A s \in DOMAIN NextScan : pc' = Following[s] => s = scan
    BY <1>1, ScanOrder
<1> QED
    BY <1>1, <1>2, <1>3, <1>4, <1>5 DEF ScanInv

LEMMA ScanEnds ==
    ASSUME SinceInv, BlobsInv, ScanInv, got.oid # 0, NEW scan \in DOMAIN NextScan, Scanned(scan)
    PROVE  ScanInv'
<1> DEFINE s0 == [tooMany |-> TooMany(scan), files |-> Found(scan)]
<1>1. /\ pc = Following[scan] /\ pc' = NextScan[scan] /\ got.want = {} /\ got'.oid = got.oid
      /\ got'.since = got.since /\ got'.scans = [got.scans EXCEPT ![scan] = s0]
    BY ScanFields DEF Scanned, At, Go
<1>2. DOMAIN got.scans = DOMAIN NextScan /\ Wanted(scan) \subseteq DOMAIN got.blobs
    BY <1>1 DEF ScanInv
<1>3. s0.tooMany = TooMany(scan) /\ s0.files = Found(scan)
    OBVIOUS
<1> HIDE DEF s0
<1>4. got'.scans[scan] = s0 /\ \A s \in DOMAIN NextScan : s # scan => got'.scans[s] = got.scans[s]
    BY <1>1, <1>2
<1>5. \A s : Candidates(s)' = Candidates(s)
    BY <1>1 DEF Candidates, NixFiles, Regular
<1>6. (\A s, p : Silent(s, p) => Silent(s, p)') /\ (\A p, v : Says(p, v) => Says(p, v)')
    BY <1>1 DEF Silent, Says
<1>7. ScanOK(scan)'
    <2>1. ~TooMany(scan) => \A p \in Candidates(scan) :
                             IF p \in DOMAIN Found(scan) THEN Says(p, Found(scan)[p]) ELSE Silent(scan, p)
        BY <1>2, FoundIsOK
    <2> QED
        BY <1>3, <1>4, <1>5, <1>6, <2>1 DEF ScanOK
<1>8. \A s \in DOMAIN NextScan : s # scan /\ ScanOK(s) => ScanOK(s)'
    BY <1>4, <1>5, <1>6 DEF ScanOK
<1>9. \A s \in DOMAIN NextScan : pc' \in AfterScan(s) => s = scan \/ pc \in AfterScan(s)
    BY <1>1, ScanOrder
<1>10. \A s \in DOMAIN NextScan : pc' # Following[s]
    BY <1>1, ScanOrder
<1>11. DOMAIN got'.scans = DOMAIN NextScan
    BY <1>1, <1>2
<1> QED
    BY <1>1, <1>7, <1>8, <1>9, <1>10, <1>11 DEF ScanInv

LEMMA ScanStep ==
    ASSUME SinceInv, BlobsInv, ScanInv, Client \/ Moved
    PROVE  ScanInv'
<1> DEFINE Quiet(x) == \A scan \in DOMAIN NextScan : x # Following[scan] /\ x \notin AfterScan(scan)
<1>1. ASSUME got'.oid = got.oid, got.since \subseteq got'.since, got'.scans = got.scans, Quiet(pc')
      PROVE  ScanInv'
    BY <1>1, ScanFrame
<1>2. \A x \in Before \cup {"caches", "artifacts", "tree", "claude", "manifest", "declared", "files", "getflake", "aborted"} : Quiet(x)
    BY ScanOrder DEF Before
<1> HIDE DEF Quiet
<1>3. ASSUME Moved PROVE ScanInv'
    BY <1>3, ScanFrame DEF Moved, SinceGrows, SameFiles
<1>4. ASSUME Facts PROVE ScanInv'
    <2>1. pc' = "history" /\ got'.scans = got.scans
        BY <1>4, FactFields DEF Facts, Go, SinceInv, Fields
    <2>2. \A scan \in DOMAIN NextScan : pc' # Following[scan] /\ pc' \notin AfterScan(scan)
        BY <2>1, ScanOrder
    <2> QED
        BY <2>1, <2>2 DEF ScanInv
<1>5. ASSUME Empty PROVE ScanInv'
    <2>1. got'.oid = 0 /\ got' = got
        BY <1>5, ReadIsSame, FactFields DEF SinceInv, Fact, Fields
    <2> QED
        BY <2>1 DEF ScanInv
<1>6. ASSUME Aside, Walks \/ Times \/ Pages PROVE ScanInv'
    <2>1. /\ got'.oid = got.oid /\ got'.since = got.since /\ got'.scans = got.scans
        BY <1>6 DEF Aside, Walks, Times, Pages, SameFiles
    <2>2. pc' \in Before \cup {"history", "caches", "artifacts", "tree", "aborted"}
        BY <1>6 DEF Walks, Times, Pages, ListNames, After, Before
    <2>3. Quiet(pc')
        BY <1>2, <2>2 DEF Before
    <2> QED
        BY <1>1, <2>1, <2>3
<1>7. ASSUME TreeRead \/ NoTree PROVE ScanInv'
    <2>1. got' = got /\ pc' \in {"claude", "aborted"}
        BY <1>7 DEF TreeRead, NoTree, Abort, Go
    <2> QED
        BY <1>1, <1>2, <2>1
<1>8. ASSUME ClaudeFacts PROVE ScanInv'
    BY <1>1, <1>2, <1>8, ClaudeFields
<1>9. ASSUME ReadBlobs PROVE ScanInv'
    BY <1>9, TextsRead, ScanFrame
<1>10. ASSUME FilesRead PROVE ScanInv'
    <2>1. pc' = "getflake" /\ \E x : got' = [got EXCEPT !.files = x]
        BY <1>10 DEF FilesRead, At, Go
    <2>2. got'.oid = got.oid /\ got'.since = got.since /\ got'.scans = got.scans
        BY <2>1, FactFields DEF SinceInv, Fields
    <2> QED
        BY <1>1, <1>2, <2>1, <2>2
<1>11. ASSUME Scans PROVE ScanInv'
    <2>1. PICK scan \in DOMAIN NextScan : Scan(scan) \/ Scanned(scan)
        BY <1>11 DEF Scans
    <2>2. CASE Scan(scan)
        BY <2>2, ScanStarts
    <2>3. CASE Scanned(scan) /\ got.oid # 0
        BY <2>3, ScanEnds
    <2>4. CASE Scanned(scan) /\ got.oid = 0
        <3>1. got'.oid = 0 /\ DOMAIN got'.scans = DOMAIN got.scans
            BY <2>4, ScanFields
        <3> QED
            BY <3>1 DEF ScanInv
    <2> QED
        BY <2>1, <2>2, <2>3, <2>4
<1> QED
    BY <1>3, <1>4, <1>5, <1>6, <1>7, <1>8, <1>9, <1>10, <1>11, WalkKinds, TimeKinds, PageKinds DEF Client

-----------------------------------------------------------------------------
(* All of it, of every read. *)

IInv == HubInv /\ SinceInv /\ WalkInv /\ ListInv /\ FullInv /\ JobsInv /\ TimingInv /\ BlobsInv /\ ClaudeInv /\ ScanInv

LEMMA StartsRight ==
    ASSUME Init
    PROVE  HubInv
<1>1. PICK s \in Starts :
             hub = [head |-> s.head, gone |-> {}, runs |-> s.runs, clock |-> StartClock, lists |-> StartLists,
                    moves |-> [l \in {"caches", "artifacts"} |-> 0], fault |-> s.fault, events |-> 0,
                    ended |-> UNION {{<<i, j.end>> : j \in ToSet(s.runs[i].jobs)} : i \in DOMAIN s.runs}]
    BY DEF Init
<1> DEFINE ended == UNION {{<<i, j.end>> : j \in ToSet(s.runs[i].jobs)} : i \in DOMAIN s.runs}
<1>2. /\ s.head \in Commits \cup {0} /\ s.fault \in Faults /\ s.runs \in Seq(RunRecords)
      /\ \A i \in DOMAIN s.runs : \A j \in DOMAIN s.runs[i].jobs : s.runs[i].jobs[j].end <= StartClock
      /\ StartClock \in Nat /\ StartLists \in [ListNames -> Seq(Entry)]
      /\ \A l \in ListNames : IsInjective(StartLists[l])
    BY ReadsAssumption DEF ReadsAssumption, ListNames, Entry
<1>3. \A i \in DOMAIN s.runs : i \in Nat /\ s.runs[i].jobs \in Seq(JobRecords) /\ EndsOf(s.runs[i].jobs) \subseteq Nat
    <2> TAKE i \in DOMAIN s.runs
    <2>1. i \in Nat /\ s.runs[i] \in RunRecords
        BY <1>2, ElementOfSeq, LenProperties
    <2> QED
        BY <2>1, RunEnds
<1>4. \A x \in ended : \E i \in DOMAIN s.runs : \E end \in EndsOf(s.runs[i].jobs) : x = <<i, end>>
    BY DEF EndsOf
<1>5. \A i \in DOMAIN s.runs : \A end \in EndsOf(s.runs[i].jobs) : <<i, end>> \in ended
    BY DEF EndsOf
<1>6. \A i \in DOMAIN s.runs : \A end \in EndsOf(s.runs[i].jobs) : end <= StartClock
    BY <1>2, <1>3 DEF EndsOf, ToSet
<1> HIDE DEF ended
<1>7. ended \subseteq Pairs /\ \A x \in ended : x[2] <= StartClock
    <2> SUFFICES ASSUME NEW x \in ended PROVE x \in Pairs /\ x[2] <= StartClock
        OBVIOUS
    <2>1. PICK i \in DOMAIN s.runs : \E end \in EndsOf(s.runs[i].jobs) : x = <<i, end>>
        BY <1>4
    <2>2. PICK end \in EndsOf(s.runs[i].jobs) : x = <<i, end>>
        BY <2>1
    <2> QED
        BY <1>3, <1>6, <2>2 DEF Pairs
<1> DEFINE moves == [l \in {"caches", "artifacts"} |-> 0]
<1>8. moves \in [ListNames -> Nat]
    BY DEF ListNames
<1> HIDE DEF moves
<1>9. hub = [head |-> s.head, gone |-> {}, runs |-> s.runs, clock |-> StartClock, lists |-> StartLists,
             moves |-> moves, fault |-> s.fault, events |-> 0, ended |-> ended]
    BY <1>1 DEF ended, moves
<1>10. hub \in HubRecords
    BY <1>2, <1>7, <1>8, <1>9 DEF HubRecords, Entry
<1>11. hub.runs = s.runs /\ hub.ended = ended /\ hub.clock = StartClock /\ hub.lists = StartLists
    BY <1>9
<1>12. \A l \in ListNames : ToSet(hub.lists[l]) = Items(l) /\ IsInjective(hub.lists[l])
    BY <1>2, <1>11 DEF Items
<1> QED
    BY <1>5, <1>6, <1>7, <1>10, <1>11, <1>12 DEF HubInv

LEMMA InitInv == Init => IInv
<1> SUFFICES ASSUME Init PROVE IInv
    OBVIOUS
<1>1. HubInv
    BY StartsRight
<1>2. pc = "facts" /\ got = Fact
    BY DEF Init
<1>3. /\ got.oid = 0 /\ got.since = {} /\ got.want = {} /\ got.jobs = <<>> /\ got.steady = {}
      /\ got.turn = [next |-> 0, pages |-> 0, from |-> 0]
      /\ DOMAIN got.scans = {"getflake", "gopath", "shell"}
      /\ got.lists = [l \in {"caches", "artifacts"} |-> [e \in ToSet(StartLists[l]) |-> 0]]
    BY <1>2 DEF Fact
<1>4. [Fact EXCEPT !.since = got.since] = Fact
    BY <1>2 DEF Fact
<1>5. SinceInv
    BY <1>2, <1>3, <1>4 DEF SinceInv, AfterHistory, AfterJobs, AfterLists, AfterClaude
<1>6. ListInv
    <2>1. \A l \in ListNames : got.lists[l] = [e \in Items(l) |-> 0]
        BY <1>3 DEF ListNames, Items
    <2>2. DOMAIN got.lists = ListNames
        BY <1>3 DEF ListNames
    <2>3. got.turn = Fact.turn
        BY <1>2
    <2>4. pc \notin ListNames /\ pc \in Before
        BY <1>2 DEF ListNames, Before
    <2>5. got.turn \in [next : Nat, pages : Nat, from : Nat] /\ got.turn.pages = 0 /\ got.turn.next = 0
        BY <1>3
    <2> QED
        BY <1>3, <2>1, <2>2, <2>3, <2>4, <2>5 DEF ListInv
<1>7. WalkInv /\ BlobsInv /\ ClaudeInv
    BY <1>3 DEF WalkInv, BlobsInv, ClaudeInv
<1>8. ScanInv
    BY <1>3, ScanOrder DEF ScanInv
<1>9. FullInv /\ JobsInv /\ TimingInv
    BY <1>2, <1>3 DEF FullInv, JobsInv, TimingInv
<1> QED
    BY <1>1, <1>5, <1>6, <1>7, <1>8, <1>9 DEF IInv

LEMMA StutterMoves ==
    ASSUME HubInv, SinceInv, UNCHANGED vars
    PROVE  HubInv' /\ Moved
<1>1. hub' = hub /\ pc' = pc /\ got' = got
    BY DEF vars
<1>2. hub.clock \in Nat /\ \A l \in ListNames : hub.moves[l] \in Nat
    BY HubTypes
<1>3. HubInv'
    BY <1>1 DEF HubInv
<1>4. RunsGoOn /\ ListsMove
    BY <1>1, <1>2 DEF RunsGoOn, GoesOn, ListsMove
<1> QED
    BY <1>1, <1>3, <1>4, NothingRead DEF Moved

LEMMA Invariance == IInv /\ [Next]_vars => IInv'
<1> SUFFICES ASSUME IInv, [Next]_vars PROVE IInv'
    OBVIOUS
<1>1. ASSUME Client PROVE HubInv'
    <2>1. hub' = hub
        BY <1>1, ClientKinds, FactsFields, ReadIsSame DEF IInv, Aside
    <2> QED
        BY <2>1 DEF IInv, HubInv
<1>2. ASSUME Change \/ UNCHANGED vars PROVE HubInv' /\ Moved
    BY <1>2, ChangeMoves, StutterMoves DEF IInv
<1>3. HubInv' /\ (Client \/ Moved)
    BY <1>1, <1>2 DEF Next
<1>4. SinceInv' /\ WalkInv' /\ ListInv'
    BY <1>3, SinceStep, WalkStep, ListStep DEF IInv
<1>5. FullInv' /\ JobsInv' /\ TimingInv'
    BY <1>3, CIInvariance DEF IInv
<1>6. BlobsInv' /\ ClaudeInv' /\ ScanInv'
    BY <1>3, BlobsStep, ClaudeStep, ScanStep DEF IInv
<1> QED
    BY <1>3, <1>4, <1>5, <1>6 DEF IInv

\* At every request of a read, whatever happens on GitHub between two of them:
\* the walk has seen the history of one commit up to a page of it, a list not
\* reordered since its first page is counted up to the page that comes next, the
\* jobs read of a run that was over are those it was listed with or a later
\* attempt's, and every text is what some commit HEAD was at since has there.
THEOREM ReadsAreConsistent == Spec => []IInv
BY InitInv, Invariance, PTL DEF Spec

\* ListsWhole: the identities are those of every commit of the history the first
\* answer was of, whatever is pushed during walkHistory, and a list that stayed
\* in order while getPages went through it is counted whole and once.
THEOREM HistoryAndListsAreWhole == Spec => []ListsWhole
<1>1. ASSUME IInv PROVE ListsWhole
    <2> SUFFICES ASSUME pc = "done", got.oid # 0
                 PROVE  /\ got.walk.seen = {Author[c] : c \in ToSet(Line[got.oid])}
                        /\ \A l \in got.steady :
                             got.lists[l] = [e \in ToSet(hub.lists[l]) |-> IF Holds(l, e) THEN 1 ELSE 0]
        BY DEF ListsWhole, Read
    <2>1. got.walk.seen = {Author[c] : c \in ToSet(Line[got.oid])}
        <3>1. got.oid \in Commits /\ got.walk.seen = Whence(got.oid, Len(Line[got.oid]))
            BY <1>1 DEF IInv, SinceInv, WalkInv, AfterHistory, AfterJobs, AfterLists, AfterClaude
        <3>2. DOMAIN Line[got.oid] = 1 .. Len(Line[got.oid])
            BY <3>1, LineTypes
        <3> QED
            BY <3>1, <3>2 DEF Whence, ToSet
    <2>2. ASSUME NEW l \in got.steady
          PROVE  got.lists[l] = [e \in ToSet(hub.lists[l]) |-> IF Holds(l, e) THEN 1 ELSE 0]
        <3>1. l \in ListNames /\ CountedTo(l, Len(hub.lists[l])) /\ ToSet(hub.lists[l]) = Items(l)
            BY <1>1 DEF IInv, ListInv, HubInv
        <3>2. DOMAIN hub.lists[l] = 1 .. Len(hub.lists[l]) /\ Len(hub.lists[l]) \in Nat
            BY <1>1, <3>1, HubTypes, LenProperties DEF IInv
        <3>3. \A e \in Items(l) : \E i \in DOMAIN hub.lists[l] : i <= Len(hub.lists[l]) /\ hub.lists[l][i] = e
            BY <3>1, <3>2 DEF ToSet
        <3> QED
            BY <3>1, <3>3 DEF CountedTo
    <2> QED
        BY <2>1, <2>2
<1> QED
    BY <1>1, ReadsAreConsistent, PTL

\* NothingPassedOver: no file the tree or the manifest names is left out because
\* it changed or went between Discover, or a scan, and the reading of its text.
THEOREM FilesAreNotPassedOver == Spec => []NothingPassedOver
<1>1. ASSUME IInv PROVE NothingPassedOver
    <2> SUFFICES ASSUME pc = "done", got.oid # 0
                 PROVE  ClaudeOK /\ \A scan \in DOMAIN NextScan : ScanOK(scan)
        BY DEF NothingPassedOver, Read, ClaudeOK, ScanOK
    <2>1. ClaudeOK
        BY <1>1 DEF IInv, ClaudeInv, AfterClaude
    <2>2. \A scan \in DOMAIN NextScan : ScanOK(scan)
        BY <1>1, ScanOrder DEF IInv, ScanInv
    <2> QED
        BY <2>1, <2>2
<1> QED
    BY <1>1, ReadsAreConsistent, PTL

\* CompleteWait: a commit timeCommit calls complete waited for every run listed
\* for it and every job of theirs, also when one of them is run again between
\* the list of runs and the list of its jobs.
THEOREM CompleteIsComplete == Spec => []CompleteWait
<1>1. ASSUME IInv PROVE CompleteWait
    <2> SUFFICES ASSUME pc = "done", got.oid # 0, NEW s \in got.sample, got.timing[s].complete
                 PROVE  WaitOK(s)
        BY DEF CompleteWait, Read, WaitOK
    <2> QED
        BY <1>1 DEF IInv, TimingInv, AfterJobs, AfterLists, AfterClaude
<1> QED
    BY <1>1, ReadsAreConsistent, PTL

=============================================================================
