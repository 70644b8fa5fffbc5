-------------------------------- MODULE Reads --------------------------------
(***************************************************************************)
(* One repository read by collectOne, request by request, from a GitHub    *)
(* that changes between any two of them: pushes and forced pushes, runs    *)
(* that go on or are run again, caches restored.  A request that fails     *)
(* ends the read (Retry, Collect); what is asked here is what an answered  *)
(* one is worth.  The repository's settings, and the presets (Collect),    *)
(* are single answers of their own and left out.                           *)
(***************************************************************************)
EXTENDS ClaudeLayout

CONSTANTS
    Line,          \* [commit -> its history, newest first, itself the first of it]
    Author,        \* [commit -> the identity on it]
    Tree,          \* [commit -> [path -> [mode, text]]]
    Truncated,     \* commits whose tree is too large for one answer
    Yaml, NixNames, \* the last segments that end in .yml or .yaml, and in .nix
    Marks,         \* [text -> what it holds: "getflake", "gopath", "shell"]
    Manifests,     \* [text -> the manifest it is, when it is plugin.json's]
    Merged,        \* [head commit -> the merged pull requests' head commits]
    Newer,         \* [commit -> the commits a push may move the branch on to]
    Starts,        \* bound: where GitHub may start: [head, runs, fault]; head 0 is no commit,
                   \* fault is how its pages go wrong, one of Faults
    StartClock,    \* bound: when a read may start, at the earliest
    StartLists,    \* the caches and artifacts there are at the start
    Recent,        \* commits of the default branch the query lists
    HistoryPage, RunsPage, JobsPage, ListPage,
    MaxPages,      \* maxCachePages, maxArtifactPages
    BlobsPerQuery, FilesMax,
    MaxJobs,       \* bound: jobs of one run
    MaxEvents      \* bound: changes during one read

Commits == DOMAIN Line

\* A next page without a cursor, the same cursor for ever, two of them by turns, a
\* Link to the page it stands on.
Faults == {"none", "null", "stuck", "alternate", "loop"}

JobRecords == [start : Nat, end : Nat]

\* "schedule" and "other" stand for the events and branches nothing depends on.
RunRecords ==
    [sha : Commits, event : {"pull_request", "pull_request_target", "push", "merge_group", "schedule"},
     created : Nat, status : {"in_progress", "completed"}, jobs : Seq(JobRecords),
     branch : {"main", "other"}, own : BOOLEAN]

\* Each entry of a list is in it once; what a read starts at has happened.
ASSUME ReadsAssumption ==
    /\ 0 \notin Commits /\ \A c \in Commits : Line[c] \in Seq(Commits)
    /\ {HistoryPage, RunsPage, JobsPage, ListPage, MaxPages, MaxEvents, StartClock} \subseteq Nat
    /\ \A c \in Commits : Newer[c] \subseteq Commits
    /\ StartLists \in [{"caches", "artifacts"} -> Seq([id : Nat, expired : BOOLEAN])]
    /\ \A l \in {"caches", "artifacts"} : IsInjective(StartLists[l])
    /\ \A text \in DOMAIN Manifests : DOMAIN Manifests[text] = DOMAIN NoManifest
    /\ \A s \in Starts :
         /\ s.head \in Commits \cup {0} /\ s.fault \in Faults /\ s.runs \in Seq(RunRecords)
         /\ \A i \in DOMAIN s.runs : \A j \in DOMAIN s.runs[i].jobs : s.runs[i].jobs[j].end <= StartClock

VARIABLES hub,  \* GitHub
          pc,   \* the request that comes next
          got   \* what was read

vars == <<hub, pc, got>>

-----------------------------------------------------------------------------
(***************************************************************************)
(* What happens on GitHub.                                                 *)
(***************************************************************************)
Fact == [oid |-> 0, since |-> {}, sample |-> {}, walk |-> [seen |-> {}, cursor |-> 0, asked |-> 0, more |-> FALSE],
         listed |-> <<>>, full |-> <<>>, todo |-> {}, jobs |-> <<>>, timing |-> <<>>, last |-> 0,
         lists |-> [l \in {"caches", "artifacts"} |-> [e \in ToSet(StartLists[l]) |-> 0]], turn |-> [next |-> 0, pages |-> 0, from |-> 0],
         steady |-> {}, want |-> {}, blobs |-> <<>>, manifest |-> NoManifest,
         claude |-> [unreadable |-> FALSE, files |-> <<>>], files |-> <<>>,
         scans |-> [s \in {"getflake", "gopath", "shell"} |-> [tooMany |-> FALSE, files |-> <<>>]]]

Init == /\ \E s \in Starts :
             hub = [head |-> s.head, gone |-> {}, runs |-> s.runs, clock |-> StartClock, lists |-> StartLists,
                    moves |-> [l \in {"caches", "artifacts"} |-> 0], fault |-> s.fault, events |-> 0,
                    ended |-> UNION {{<<i, j.end>> : j \in ToSet(s.runs[i].jobs)} : i \in DOMAIN s.runs}]
        /\ pc = "facts" /\ got = Fact

Ended == {"done", "aborted"}

Happens(h) == /\ pc \notin Ended /\ hub.events < MaxEvents
              /\ hub' = [h EXCEPT !.events = @ + 1, !.clock = @ + 1]
              /\ UNCHANGED pc

NewJob == [start |-> hub.clock, end |-> 0]

\* Runs are numbered as they are created.
NewRun(c, event) ==
    [sha |-> c, event |-> event, created |-> hub.clock, status |-> "in_progress",
     jobs |-> <<NewJob>>, branch |-> "main", own |-> TRUE]

\* A push, forced or not.
Push == /\ hub.head # 0
        /\ \E c \in Newer[hub.head] :
             /\ Happens([hub EXCEPT !.head = c, !.runs = Append(@, NewRun(c, "push"))])
             /\ got' = [got EXCEPT !.since = @ \cup {c}]

\* A run for the commit the branch is at.
Trigger == /\ hub.head # 0
           /\ \E e \in {"push", "schedule"} : Happens([hub EXCEPT !.runs = Append(@, NewRun(hub.head, e))])
           /\ UNCHANGED got

\* Commits a forced push took off the branch are collected.
Vanish == /\ got.oid # 0 /\ Happens([hub EXCEPT !.gone = ToSet(Line[got.oid]) \ ToSet(Line[hub.head])])
          /\ hub'.gone # {} /\ UNCHANGED got

Unfinished(r) == {j \in DOMAIN r.jobs : r.jobs[j].end = 0}

\* A run goes on: a job ends, or the next is listed, or the run is over.
Progress ==
    /\ \E i \in DOMAIN hub.runs :
         /\ hub.runs[i].status = "in_progress"
         /\ \/ \E j \in Unfinished(hub.runs[i]) :
                 Happens([hub EXCEPT !.runs[i].jobs[j].end = hub.clock, !.ended = @ \cup {<<i, hub.clock>>}])
            \/ /\ Unfinished(hub.runs[i]) = {}
               /\ \/ /\ Len(hub.runs[i].jobs) < MaxJobs
                     /\ Happens([hub EXCEPT !.runs[i].jobs = Append(@, NewJob)])
                  \/ Happens([hub EXCEPT !.runs[i].status = "completed"])
    /\ UNCHANGED got

\* A run that is over is run again, as it was created.
Rerun ==
    /\ \E i \in DOMAIN hub.runs :
         /\ hub.runs[i].status = "completed"
         /\ Happens([hub EXCEPT !.runs[i].status = "in_progress", !.runs[i].jobs = <<NewJob>>])
    /\ UNCHANGED got

\* Caches and artifacts are listed by last use, which brings an entry to the front.
ToFront(list, i) == [k \in DOMAIN list |-> IF k = 1 THEN list[i] ELSE IF k <= i THEN list[k - 1] ELSE list[k]]

Use ==
    /\ \E l \in DOMAIN hub.lists : \E i \in DOMAIN hub.lists[l] :
         /\ i > 1
         /\ Happens([hub EXCEPT !.lists[l] = ToFront(@, i), !.moves[l] = @ + 1])
    /\ UNCHANGED got

Change == Push \/ Trigger \/ Vanish \/ Progress \/ Rerun \/ Use

-----------------------------------------------------------------------------
(***************************************************************************)
(* The first answer, and the history walk.                                 *)
(***************************************************************************)
Go(next) == pc' = next /\ UNCHANGED hub

Abort == Go("aborted") /\ UNCHANGED got

\* The page of history after offset at.  A "null" server promises a page and names
\* no cursor, a stuck one repeats the cursor, and one that alternates names the
\* first two by turns and promises more for ever.
Turn(oid, at, walk) ==
    LET upto == Min({at + HistoryPage, Len(Line[oid])})
    IN [seen |-> walk.seen \cup {Author[Line[oid][i]] : i \in (at + 1)..upto},
        asked |-> at, more |-> hub.fault = "alternate" \/ upto < Len(Line[oid]),
        cursor |-> CASE hub.fault = "null" -> 0
                     [] hub.fault = "stuck" /\ at # 0 -> at
                     [] hub.fault = "alternate" -> IF at = HistoryPage THEN 2 * HistoryPage ELSE HistoryPage
                     [] OTHER -> upto]

\* The commits whose CI is timed: merged pull requests' heads, and the newest
\* of the default branch.
Sampled(head) ==
    {[oid |-> c, kind |-> "pr"] : c \in Merged[head]}
      \cup {[oid |-> Line[head][i], kind |-> "default"] : i \in 1..Min({Recent, Len(Line[head])})}

Events == [pr |-> {"pull_request", "pull_request_target", "push"}, default |-> {"push", "merge_group"}]

Facts ==
    /\ pc = "facts" /\ hub.head # 0
    /\ got' = [got EXCEPT !.oid = hub.head, !.since = {hub.head}, !.sample = Sampled(hub.head),
                          !.walk = Turn(hub.head, 0, @)]
    /\ Go("history")

\* No commit: nothing else is asked of it.
Empty == pc = "facts" /\ hub.head = 0 /\ UNCHANGED got /\ Go("done")

\* Mutant: the cursor may stay where it is.
AdvancesNamed(walk) == walk.cursor # 0

Advances(walk) == walk.cursor \notin {0, walk.asked}

\* Mutant: later pages are asked of the branch.
AnchorAtHead == hub.head

\* Later pages are asked of the commit the first one described.
Anchor == got.oid

History ==
    /\ pc = "history" /\ got.walk.more /\ Advances(got.walk) /\ Anchor \notin hub.gone
    /\ got' = [got EXCEPT !.walk = Turn(Anchor, @.cursor, @)]
    /\ UNCHANGED <<hub, pc>>

HistoryBroken ==
    pc = "history" /\ got.walk.more /\ (~Advances(got.walk) \/ Anchor \in hub.gone) /\ Abort

HistoryRead == pc = "history" /\ ~got.walk.more /\ UNCHANGED got /\ Go("runs")

(***************************************************************************)
(* CI: the newest runs, each counted run's jobs, and the last run.         *)
(***************************************************************************)
Counts(s, r) == r.sha = s.oid /\ r.event \in Events[s.kind]

CountedIn(s, runs) == {i \in DOMAIN runs : Counts(s, runs[i])}

\* The newest of some runs, as a page lists them.
Newest(ids) == {i \in ids : Cardinality({k \in ids : k > i}) < RunsPage}

Runs ==
    /\ pc = "runs"
    /\ LET page == [i \in Newest(DOMAIN hub.runs) |-> hub.runs[i]]
       IN got' = [got EXCEPT !.full = hub.runs, !.listed = page, !.todo = UNION {CountedIn(s, page) : s \in got.sample}]
    /\ Go("jobs")

\* The jobs of the newest run still to be asked for.
Jobs ==
    /\ pc = "jobs"
    /\ \E i \in got.todo :
         /\ \A k \in got.todo : k <= i
         /\ LET jobs == hub.runs[i].jobs
                page == [total |-> Len(jobs), shown |-> SubSeq(jobs, 1, Min({JobsPage, Len(jobs)}))]
            IN got' = [got EXCEPT !.todo = @ \ {i},
                                  !.jobs = [k \in DOMAIN @ \cup {i} |-> IF k = i THEN page ELSE @[k]]]
    /\ UNCHANGED <<hub, pc>>

EndsOf(jobs) == {j.end : j \in ToSet(jobs)}

\* seconds: the clock is in the whole seconds of GitHub's timestamps, and no wait
\* is less than none.
WholeSeconds(d) == IF d < 0 THEN 0 ELSE d

Span(runs, ends) == WholeSeconds(Max(ends) - Min({got.listed[i].created : i \in runs}))

\* Mutant: the jobs alone say whether a commit is through.
TimeCommitByJobs(runs) ==
    LET ends == UNION {EndsOf(got.jobs[i].shown) : i \in runs}
        complete == ends # {} /\ 0 \notin ends /\ \A i \in runs : got.jobs[i].total <= Len(got.jobs[i].shown)
    IN [complete |-> complete, wait |-> IF complete THEN Span(runs, ends) ELSE 0]

TimeCommit(runs) ==
    LET ends == UNION {EndsOf(got.jobs[i].shown) : i \in runs}
        over(i) == got.listed[i].status = "completed" /\ got.jobs[i].total <= Len(got.jobs[i].shown)
        complete == ends # {} /\ 0 \notin ends /\ \A i \in runs : over(i)
    IN [complete |-> complete, wait |-> IF complete THEN Span(runs, ends) ELSE 0]

\* The newest run of the repository's own among its default branch's newest.
LastRun(runs) ==
    LET page == Newest({i \in DOMAIN runs : runs[i].branch = "main"})
        own == {i \in page : runs[i].own}
    IN IF own = {} THEN 0 ELSE runs[Max(own)].created

Timed ==
    /\ pc = "jobs" /\ got.todo = {}
    /\ got' = [got EXCEPT !.timing = [s \in got.sample |-> TimeCommit(CountedIn(s, got.listed))],
                          !.last = LastRun(hub.runs)]
    /\ Go("caches")

(***************************************************************************)
(* Caches and artifacts, page by page.  A looping server's Link names the  *)
(* page it stands on.                                                      *)
(***************************************************************************)
After == [caches |-> "artifacts", artifacts |-> "tree"]

\* An artifact that has expired is still listed, and holds nothing.
Holds(l, e) == l = "artifacts" => ~e.expired

ListRead(l) ==
    /\ pc = l /\ got.turn.pages < MaxPages
    /\ LET from == got.turn.next
           list == hub.lists[l]
           page == (from + 1)..Min({from + ListPage, Len(list)})
           next == IF hub.fault = "loop" THEN from ELSE from + ListPage
           began == IF got.turn.pages = 0 THEN hub.moves[l] ELSE got.turn.from
           last == hub.fault # "loop" /\ next >= Len(list)
       IN /\ got' = [got EXCEPT
                       !.lists[l] = [e \in DOMAIN @ |-> @[e] + Cardinality({i \in page : list[i] = e /\ Holds(l, e)})],
                       !.turn = IF last THEN Fact.turn ELSE [next |-> next, pages |-> @.pages + 1, from |-> began],
                       !.steady = IF last /\ began = hub.moves[l] THEN @ \cup {l} ELSE @]
          /\ Go(IF last THEN After[l] ELSE l)

\* One page too many is an error, never a short list.
TooManyPages(l) == pc = l /\ got.turn.pages >= MaxPages /\ Abort

Lists == \E l \in DOMAIN After : ListRead(l) \/ TooManyPages(l)

(***************************************************************************)
(* The tree at the commit, then texts at HEAD, a few files to a query.     *)
(***************************************************************************)
Files(c) == DOMAIN Tree[c]

TreeRead ==
    /\ pc = "tree" /\ got.oid \notin hub.gone \cup Truncated
    /\ UNCHANGED got /\ Go("claude")

NoTree == pc = "tree" /\ got.oid \in hub.gone \cup Truncated /\ Abort

Unreadable == "unreadable"

Blob(c, p) == IF p \in Files(c) THEN Tree[c][p].text ELSE "none"

\* blobText: nothing there, a binary, or more than one answer holds.
Text(blob) == IF blob \in {"none", "binary", "cut"} THEN Unreadable ELSE blob

\* readBlobs: each query reads its chunk of the paths at HEAD.
ReadBlobs ==
    /\ got.want # {}
    /\ \E chunk \in kSubset(Min({BlobsPerQuery, Cardinality(got.want)}), got.want) :
         got' = [got EXCEPT !.want = @ \ chunk,
                            !.blobs = [p \in DOMAIN @ \cup chunk |-> IF p \in chunk THEN Blob(hub.head, p) ELSE @[p]]]
    /\ UNCHANGED <<hub, pc>>

At(stage) == pc = stage /\ got.want = {}

(***************************************************************************)
(* claudeFacts: a round for the default layout and the manifest, one more  *)
(* for what the manifest adds.                                             *)
(***************************************************************************)
ClaudeText(p) == IF p \in Files(got.oid) THEN Text(got.blobs[p]) ELSE Unreadable

Layout == Discover(Files(got.oid), got.manifest)

Recorded == [p \in Layout.paths |-> ClaudeText(p)]

\* layoutPaths: what is recorded, and the manifest.
ToRead(layout) == layout.paths \cup layout.manifest

Whole == [unreadable |-> TRUE, files |-> <<>>]

Claude(facts) == got' = [got EXCEPT !.claude = facts, !.blobs = <<>>] /\ Go("files")

NoClaude == At("claude") /\ ToRead(Layout) = {} /\ UNCHANGED got /\ Go("files")

TooManyClaude == At("claude") /\ Cardinality(ToRead(Layout)) > FilesMax /\ Claude(Whole)

FirstRound ==
    /\ At("claude") /\ ToRead(Layout) # {} /\ Cardinality(ToRead(Layout)) <= FilesMax
    /\ got' = [got EXCEPT !.want = ToRead(Layout)] /\ Go("manifest")

NotAPlugin ==
    At("manifest") /\ Layout.manifest = {} /\ Claude([unreadable |-> FALSE, files |-> Recorded])

ManifestText == ClaudeText(PluginManifest)

\* The manifest, unreadable when its text was not read or does not parse.
Parsed ==
    IF ManifestText \in DOMAIN Manifests THEN [Manifests[ManifestText] EXCEPT !.present = TRUE]
    ELSE [NoManifest EXCEPT !.present = TRUE, !.unreadable = TRUE]

\* Without its manifest, or with a path in it that nothing answers, a plugin is
\* unreadable as a whole.
BadManifest == At("manifest") /\ Layout.manifest # {} /\ Parsed.unreadable /\ Claude(Whole)

Declared == Discover(Files(got.oid), Parsed)

More == ToRead(Declared) \ DOMAIN got.blobs

Unloadable == Declared.missing # {} \/ Cardinality(DOMAIN got.blobs) + Cardinality(More) > FilesMax

BadLayout ==
    At("manifest") /\ Layout.manifest # {} /\ ~Parsed.unreadable /\ Unloadable
      /\ got' = [got EXCEPT !.manifest = Parsed, !.claude = Whole, !.blobs = <<>>] /\ Go("files")

SecondRound ==
    /\ At("manifest") /\ Layout.manifest # {} /\ ~Parsed.unreadable /\ ~Unloadable
    /\ got' = [got EXCEPT !.manifest = Parsed, !.want = More] /\ Go("declared")

AsDeclared == At("declared") /\ Claude([unreadable |-> FALSE, files |-> Recorded])

ClaudeFacts ==
    \/ NoClaude \/ TooManyClaude \/ FirstRound \/ NotAPlugin \/ BadManifest \/ BadLayout
    \/ SecondRound \/ AsDeclared

(***************************************************************************)
(* fetchFiles: workflows, composites and flake.lock, in one query at HEAD. *)
(***************************************************************************)
IsAction(files, p) ==
    /\ Len(p) = 4 /\ p[1] = ".github" /\ p[2] = "actions"
    /\ p[4] = "action.yml" \/ (p[4] = "action.yaml" /\ [p EXCEPT ![4] = "action.yml"] \notin files)

IsWorkflow(p) == Len(p) = 3 /\ p[1] = ".github" /\ p[2] = "workflows" /\ p[3] \in Yaml

Queried(c) == {p \in Files(c) : IsWorkflow(p) \/ IsAction(Files(c), p) \/ p = <<"flake.lock">>}

FilesRead ==
    /\ At("files")
    /\ got' = [got EXCEPT !.files = [p \in Queried(hub.head) |-> Text(Blob(hub.head, p))]]
    /\ Go("getflake")

(***************************************************************************)
(* The three scans: getFlake calls, GOPATH lines, devshell scripts.        *)
(***************************************************************************)
Regular(p) == Tree[got.oid][p].mode \in {"100644", "100755"}

IsNix(p) == Last(p) \in NixNames

Wrapper == <<".ci", "in-devshell">>

NixFiles == {p \in Files(got.oid) : IsNix(p)}

\* The files of the tree a scan reads; a repository it does not concern has none.
Candidates(scan) ==
    CASE scan = "getflake" ->
           IF NixFiles = {} THEN {}
           ELSE {p \in Files(got.oid) : Regular(p) /\ (IsNix(p) \/ (Head(p) = ".ci" /\ Len(p) > 1))}
      [] scan = "gopath" ->
           IF {<<"go.mod">>, <<"flake.nix">>} \subseteq Files(got.oid) THEN {p \in NixFiles : Regular(p)} ELSE {}
      [] scan = "shell" ->
           {p \in Files(got.oid) : p # Wrapper /\ Tree[got.oid][p].mode = "100755"
                                     /\ Last(p) \notin {"mvnw", "gradlew"}}

TooMany(scan) == Cardinality(Candidates(scan)) > FilesMax

\* The wrapper is read whatever the scripts are.
Wanted(scan) ==
    (IF TooMany(scan) THEN {} ELSE Candidates(scan))
      \cup {p \in Files(got.oid) : scan = "shell" /\ p = Wrapper /\ Regular(p)}

\* Mutant: what is not there any more is skipped as a binary is.
SkippedAbsent(blob) == blob \in {"binary", "none"}

\* A binary holds nothing a scan looks for.
Skipped(blob) == blob = "binary"

Shown(scan, p, blob) ==
    \/ scan = "shell" /\ p = Wrapper
    \/ ~Skipped(blob) /\ (Text(blob) = Unreadable \/ scan \in Marks[blob])

\* A wrapper that is no regular file is unreadable without being read.
Irregular == {p \in {Wrapper} \cap (Files(got.oid) \cup Dirs(Files(got.oid))) : p \notin Files(got.oid) \/ ~Regular(p)}

Found(scan) ==
    LET read == {p \in DOMAIN got.blobs : Shown(scan, p, got.blobs[p])}
        links == {p \in Irregular : scan = "shell"}
        queried == {p \in DOMAIN got.files : scan = "getflake" /\ NixFiles # {} /\ ~TooMany(scan) /\ p # <<"flake.lock">>
                      /\ (got.files[p] = Unreadable \/ scan \in Marks[got.files[p]])}
    IN [p \in read \cup links \cup queried |->
          IF p \in read THEN Text(got.blobs[p]) ELSE IF p \in links THEN Unreadable ELSE got.files[p]]

\* Each scan asks for its files, and then records what they hold.
Following == [getflake |-> "getflake_read", gopath |-> "gopath_read", shell |-> "shell_read"]

NextScan == [getflake |-> "gopath", gopath |-> "shell", shell |-> "done"]

Scan(scan) == At(scan) /\ got' = [got EXCEPT !.want = Wanted(scan), !.blobs = <<>>] /\ Go(Following[scan])

Scanned(scan) ==
    /\ At(Following[scan])
    /\ got' = [got EXCEPT !.scans[scan] = [tooMany |-> TooMany(scan), files |-> Found(scan)], !.blobs = <<>>]
    /\ Go(NextScan[scan])

Scans == \E scan \in DOMAIN NextScan : Scan(scan) \/ Scanned(scan)

-----------------------------------------------------------------------------

Client ==
    \/ Facts \/ Empty \/ History \/ HistoryBroken \/ HistoryRead \/ Runs \/ Jobs \/ Timed \/ Lists
    \/ TreeRead \/ NoTree \/ ReadBlobs \/ ClaudeFacts \/ FilesRead \/ Scans

Next == Client \/ Change

\* The requests of a read are made one after another, each of them ends (Retry).
Spec == Init /\ [][Next]_vars /\ WF_vars(Client)

-----------------------------------------------------------------------------
(***************************************************************************)
(* What was read.                                                          *)
(***************************************************************************)
Read == pc = "done" /\ got.oid # 0

\* The identities are those of the whole history of one commit, whatever was
\* pushed during the walk (identities), and a list GitHub did not reorder while
\* it was paged is recorded whole and once (getPages, fetchStorage).
ListsWhole ==
    Read =>
      /\ got.walk.seen = {Author[c] : c \in ToSet(Line[got.oid])}
      /\ \A l \in got.steady : got.lists[l] = [e \in ToSet(hub.lists[l]) |-> IF Holds(l, e) THEN 1 ELSE 0]

Says(p, v) == \E c \in got.since : v = Text(Blob(c, p))

\* What a scan may leave out: what at some commit since the tree's was a binary,
\* or a text with nothing in it.
Silent(scan, p) ==
    \E b \in {Blob(c, p) : c \in got.since} : b = "binary" \/ (Text(b) # Unreadable /\ scan \notin Marks[b])

DeclaredBy(m) == m.skillDirs \cup m.commandPaths \cup m.sources \cup m.hooksFiles

\* A file the tree names, or its manifest declares, is never passed over because
\* it changed or went before its text was read: it is recorded as some commit
\* since has it, unreadable if one has no text of it, or the whole is (Discover,
\* claudeFacts, getFlakeFacts, goPathsFacts, devshellFacts).
NothingPassedOver ==
    Read =>
      /\ ~got.claude.unreadable =>
           /\ {p \in Files(got.oid) : IsProjectSkill(p) \/ IsSettings(p)} \subseteq DOMAIN got.claude.files
           /\ DeclaredBy(got.manifest) \subseteq DOMAIN got.claude.files \cup Dirs(Files(got.oid)) \cup {<<>>}
      /\ \A p \in DOMAIN got.claude.files :
           Says(p, got.claude.files[p]) \/ (p \notin Files(got.oid) /\ got.claude.files[p] = Unreadable)
      /\ \A scan \in DOMAIN NextScan : ~got.scans[scan].tooMany =>
           \A p \in Candidates(scan) :
             IF p \in DOMAIN got.scans[scan].files THEN Says(p, got.scans[scan].files[p]) ELSE Silent(scan, p)

\* A commit recorded complete waited for all it triggered: no run listed for it
\* was going on, its wait reaches from the creation of each to the last of their jobs, and
\* begins at one and ends at the end of a job of one, as listed or as run again
\* since (timeCommit).  A page that cuts a commit's runs is the exception.
CompleteWait ==
    Read =>
      \A s \in {t \in got.sample : got.timing[t].complete} :
        LET runs == CountedIn(s, got.full)
        IN \/ runs # CountedIn(s, got.listed)
           \/ /\ \A i \in runs : got.full[i].status = "completed"
              /\ \A i, k \in runs : \A end \in EndsOf(got.full[i].jobs) : got.timing[s].wait >= end - got.full[k].created
              /\ \E x \in hub.ended : \E k \in runs : x[1] \in runs /\ got.timing[s].wait = WholeSeconds(x[2] - got.full[k].created)

\* A walk that goes back and forth: the guard compares a cursor with the last one
\* only, and not, as its comment has it, with all it has been asked with.
WalksInCircles == pc = "history" /\ hub.fault = "alternate"

\* A page without a cursor, a cursor that stays, a Link that never ends and any
\* change between two pages leave a read that ends (walkHistory's guards,
\* getPages).  The one server that keeps it going, until the run's context is
\* done, is one that names two cursors by turns.
ReadEnds == <>[](pc \in Ended \/ WalksInCircles)
=============================================================================
