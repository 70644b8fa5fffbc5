------------------------------ MODULE Refresh ------------------------------
(* The report repository: the nightly refresh job of audit.yml, one run after *)
(* another as the caller's concurrency group keeps them, its writes in        *)
(* .ci/refresh-pull-request, and what happens around them: pushes to main,    *)
(* GitHub's auto-merge, a pull request the owner closes.  A call can fail     *)
(* before or after its effect, and a job can be killed between any two.       *)
(* Render stands for its step: both files, or none.                           *)
EXTENDS Integers, Sequences

CONSTANTS
    MaxRuns,   \* bound: refresh jobs
    MaxEdits,  \* bound: edits to README.md's prose pushed to main
    None       \* no commit and no pull request

ASSUME RefreshAssumption ==
    /\ MaxRuns \in Nat /\ MaxEdits \in Nat
    /\ None \notin Nat \cup [main : Nat] \cup [base : Nat, prose : Nat, report : Nat]

VARIABLES
    log,        \* main: its commits, each the prose and the report README.md has there
    staging,    \* the staging branch: a commit, or None
    branch,     \* the refresh branch
    prs,        \* the pull requests that have the refresh branch's name as head
    run,        \* the number of the latest job
    pc,         \* the step it is at; "done" between jobs
    copy,       \* the prose of the README.md it checked out
    base,       \* base_sha: the length of main's log when it was read
    existing,   \* the pull request it found open, or None
    found,      \* whether the branch point_branch looked for exists
    commit,     \* the commit it made
    target,     \* the pull request it is to merge
    exit,       \* its exit status; "none" before, "killed" when it had no say
    \* History.
    edits,      \* edits pushed so far
    disturbed,  \* something failed, or a pull request left its hands, during this job
    late        \* an edit was pushed between a job's checkout and its reading of base_sha

job == <<run, pc, copy, base, existing, found, commit, target, exit>>
github == <<log, staging, branch, prs>>
vars == <<github, job, edits, disturbed, late>>

-----------------------------------------------------------------------------
(* Commits and pull requests. *)

Tip(l) == l[Len(l)]

\* A commit of main, or one the job makes on the commit of main it read.
OnMain(n) == [main |-> n]
Made(n, p, r) == [base |-> n, prose |-> p, report |-> r]

IsMade(c) == c # None /\ "base" \in DOMAIN c

\* A pull request from this repository's own branch, or from another's of the same name.
Opened(own) == [state |-> "open", own |-> own, auto |-> FALSE]

OpenOwn == {n \in DOMAIN prs : prs[n].state = "open" /\ prs[n].own}

\* Mutant: every pull request with a branch of that name counts.
ListedAny == {n \in DOMAIN prs : prs[n].state = "open"}

\* What gh pr list leaves after the filter.
Listed == {n \in DOMAIN prs : prs[n].state = "open" /\ prs[n].own}

\* A three-way merge: the block must be unchanged on main since the commit's
\* base, the prose on one side.
Mergeable(c) ==
    /\ IsMade(c)
    /\ Tip(log).report = log[c.base].report
    /\ c.prose = log[c.base].prose \/ Tip(log).prose = log[c.base].prose

Merged(c) ==
    Append(log, [prose |-> IF c.prose = log[c.base].prose THEN Tip(log).prose ELSE c.prose,
                 report |-> c.report])

\* Merging n: main moves, and the repository may delete the branch.
MergeOf(n) ==
    /\ prs[n].own /\ prs[n].state = "open" /\ Mergeable(branch)
    /\ log' = Merged(branch)
    /\ prs' = [prs EXCEPT ![n].state = "merged"]
    /\ branch' \in {branch, None}
    /\ UNCHANGED staging

-----------------------------------------------------------------------------

Init ==
    /\ log = <<[prose |-> 0, report |-> 0]>>
    /\ staging = None /\ branch = None
    /\ prs = <<Opened(FALSE)>>
    /\ run = 0 /\ pc = "done" /\ copy = 0 /\ base = 1
    /\ existing = None /\ found = FALSE /\ commit = None /\ target = None
    /\ exit = "none" /\ edits = 0 /\ disturbed = FALSE /\ late = FALSE

\* The caller's checkout of its own repository; the fetch and the render follow.
Start == /\ pc = "done" /\ run < MaxRuns
         /\ run' = run + 1 /\ pc' = "render"
         /\ copy' = Tip(log).prose
         /\ exit' = "none" /\ disturbed' = FALSE
         /\ UNCHANGED <<github, base, existing, found, commit, target, edits, late>>

\* Somebody edits README.md's prose on main.
Edit == /\ edits < MaxEdits
        /\ edits' = edits + 1
        /\ log' = Append(log, [Tip(log) EXCEPT !.prose = edits + 1])
        /\ late' = (late \/ pc \in {"render", "base"})
        /\ UNCHANGED <<staging, branch, prs, job, disturbed>>

\* A queued merge fires once the checks are green.
AutoMerge == /\ \E n \in OpenOwn : prs[n].auto /\ MergeOf(n)
             /\ disturbed' = TRUE
             /\ UNCHANGED <<job, edits, late>>

\* The owner closes a refresh pull request.
Close == /\ \E n \in OpenOwn : prs' = [prs EXCEPT ![n].state = "closed"]
         /\ disturbed' = TRUE
         /\ UNCHANGED <<log, staging, branch, job, edits, late>>

\* The job's time is up, or somebody cancels it.
Kill == /\ pc # "done"
        /\ pc' = "done" /\ exit' = "killed" /\ disturbed' = TRUE
        /\ UNCHANGED <<github, run, copy, base, existing, found, commit, target, edits, late>>

-----------------------------------------------------------------------------
(* .ci/refresh-pull-request under set -e. *)

Go(step) == pc' = step /\ UNCHANGED <<exit, disturbed>>

Exit(code) == pc' = "done" /\ exit' = code

\* A call fails that might have succeeded; or GitHub refuses one it had to.
Break == Exit("1") /\ disturbed' = TRUE
Refused == Exit("1") /\ UNCHANGED disturbed

\* The render step: the script is not reached unless it passed.
Render == /\ pc = "render"
          /\ Go("base") \/ Break
          /\ UNCHANGED <<github, run, copy, base, existing, found, commit, target, edits, late>>

ReadBase == /\ pc = "base"
            /\ \/ base' = Len(log) /\ Go("list")
               \/ Break /\ UNCHANGED base
            /\ UNCHANGED <<github, run, copy, existing, found, commit, target, edits, late>>

List == /\ pc = "list"
        /\ \/ /\ \/ Listed = {} /\ existing' = None
                 \/ existing' \in Listed
              /\ Go("lookStaging")
           \/ Break /\ UNCHANGED existing
        /\ UNCHANGED <<github, run, copy, base, found, commit, target, edits, late>>

\* Mutant: the branch is assumed not to be there yet.
LookNot(step, ref, next) ==
    /\ pc = step
    /\ found' = FALSE
    /\ Go(next)
    /\ UNCHANGED <<github, run, copy, base, existing, commit, target, edits, late>>

\* point_branch's first call.  Its failure reads as a branch that does not exist.
Look(step, ref, next) ==
    /\ pc = step
    /\ \/ found' = (ref # None) /\ Go(next)
       \/ found' = FALSE /\ pc' = next /\ disturbed' = TRUE /\ UNCHANGED exit
    /\ UNCHANGED <<github, run, copy, base, existing, commit, target, edits, late>>

\* Its second: PATCH moves a branch that is there, POST makes one that is not.
\* The answer to a write that took effect may still be lost.
Point(step, ref, c, next) ==
    /\ pc = step
    /\ \/ (found <=> ref # None) /\ ref' = c /\ (Go(next) \/ Break)
       \/ (found <=> ref = None) /\ Refused /\ UNCHANGED ref
       \/ Break /\ UNCHANGED ref
    /\ UNCHANGED <<log, prs, run, copy, base, existing, found, commit, target, edits, late>>

PointStaging == Point("pointStaging", staging, OnMain(base), "commit") /\ UNCHANGED branch

\* Mutant: the commit goes onto whatever main is by now.
CommitOnTip ==
    /\ pc = "commit"
    /\ \/ /\ staging' = Made(Len(log), copy, run)
          /\ \/ commit' = staging' /\ Go("lookBranch")
             \/ Break /\ UNCHANGED commit
       \/ Break /\ UNCHANGED <<staging, commit>>
    /\ UNCHANGED <<log, branch, prs, run, copy, base, existing, found, target, edits, late>>

\* createCommitOnBranch, refused unless the branch is still at expectedHeadOid.
Commit ==
    /\ pc = "commit"
    /\ \/ /\ staging = OnMain(base)
          /\ staging' = Made(base, copy, run)
          /\ \/ commit' = staging' /\ Go("lookBranch")
             \/ Break /\ UNCHANGED commit
       \/ staging # OnMain(base) /\ Refused /\ UNCHANGED <<staging, commit>>
       \/ Break /\ UNCHANGED <<staging, commit>>
    /\ UNCHANGED <<log, branch, prs, run, copy, base, existing, found, target, edits, late>>

\* Mutant: the branch is reset onto the base first, the commit follows.
PointBranchAtBase ==
    Point("pointBranch", branch, IF branch = OnMain(base) THEN commit ELSE OnMain(base),
          IF branch = OnMain(base) THEN "deleteStaging" ELSE "lookBranch") /\ UNCHANGED staging

PointBranch == Point("pointBranch", branch, commit, "deleteStaging") /\ UNCHANGED staging

DeleteStaging ==
    /\ pc = "deleteStaging"
    /\ \/ /\ staging # None /\ staging' = None
          /\ \/ target' = existing /\ Go(IF existing # None THEN "merge" ELSE "create")
             \/ Break /\ UNCHANGED target
       \/ staging = None /\ Refused /\ UNCHANGED <<staging, target>>
       \/ Break /\ UNCHANGED <<staging, target>>
    /\ UNCHANGED <<log, branch, prs, run, copy, base, existing, found, commit, edits, late>>

\* GitHub takes one open pull request per head branch.
Create ==
    /\ pc = "create"
    /\ \/ /\ OpenOwn = {} /\ branch # None
          /\ prs' = Append(prs, Opened(TRUE))
          /\ \/ target' = Len(prs') /\ Go("merge")
             \/ Break /\ UNCHANGED target
       \/ (OpenOwn # {} \/ branch = None) /\ Refused /\ UNCHANGED <<prs, target>>
       \/ Break /\ UNCHANGED <<prs, target>>
    /\ UNCHANGED <<log, staging, branch, run, copy, base, existing, found, commit, edits, late>>

\* enable_auto_merge: --auto queues the merge; refused when nothing is left to
\* wait for, it is merged directly.  gh takes a merged pull request for done.
Merge ==
    /\ pc = "merge"
    /\ \/ /\ prs[target].state = "open"
          /\ prs' = [prs EXCEPT ![target].auto = TRUE] /\ UNCHANGED <<log, staging, branch>>
          /\ (Exit("0") /\ UNCHANGED disturbed) \/ Break
       \/ /\ MergeOf(target)
          /\ (Exit("0") /\ UNCHANGED disturbed) \/ Break
       \/ /\ prs[target].state = "merged" /\ Exit("0")
          /\ UNCHANGED <<github, disturbed>>
       \/ prs[target].state = "closed" /\ Refused /\ UNCHANGED github
       \/ Break /\ UNCHANGED github
    /\ UNCHANGED <<run, copy, base, existing, found, commit, target, edits, late>>

Script ==
    \/ Render \/ ReadBase \/ List
    \/ Look("lookStaging", staging, "pointStaging") \/ PointStaging \/ Commit
    \/ Look("lookBranch", branch, "pointBranch") \/ PointBranch \/ DeleteStaging
    \/ Create \/ Merge

Next == Start \/ Edit \/ AutoMerge \/ Close \/ Kill \/ Script

Spec == Init /\ [][Next]_vars

-----------------------------------------------------------------------------
(* Properties. *)

Prose == 0 .. MaxEdits
Reports == 0 .. MaxRuns

\* A branch is at a commit of main, or at one made on a commit of main.
Tips == {None} \cup [main : DOMAIN log]
               \cup [base : DOMAIN log, prose : Prose, report : Reports]

PullRequests == [state : {"open", "closed", "merged"}, own : BOOLEAN, auto : BOOLEAN]

PCs == {"render", "base", "list", "lookStaging", "pointStaging", "commit", "lookBranch",
        "pointBranch", "deleteStaging", "create", "merge", "done"}

TypeOK ==
    /\ log \in Seq([prose : Prose, report : Reports]) /\ log # <<>>
    /\ staging \in Tips /\ branch \in Tips /\ commit \in Tips
    /\ prs \in Seq(PullRequests)
    /\ run \in Reports /\ pc \in PCs /\ copy \in Prose /\ base \in DOMAIN log
    /\ existing \in {None} \cup DOMAIN prs /\ target \in {None} \cup DOMAIN prs
    /\ found \in BOOLEAN /\ exit \in {"none", "0", "1", "killed"}
    /\ edits \in Prose /\ disturbed \in BOOLEAN /\ late \in BOOLEAN

\* The refresh branch is at no commit of main while a pull request is open on
\* it: GitHub would close that one, some time after, under the run's feet.
NeverAtBase == OpenOwn # {} => IsMade(branch)

\* No job queues or makes the merge of a pull request from another repository's
\* branch of the same name.
OnlyOwnMerged ==
    \A n \in DOMAIN prs : prs[n].auto \/ prs[n].state = "merged" => prs[n].own

\* The report is on main, or the one open pull request carries it, its merge queued.
Delivered ==
    \/ Tip(log).report = run
    \/ /\ branch = commit /\ IsMade(commit) /\ commit.report = run
       /\ \E n \in DOMAIN prs : OpenOwn = {n} /\ prs[n].auto

\* A run nothing disturbs delivers, whatever the runs before it left behind: a
\* staging branch, a refresh branch with no pull request, one without its merge
\* queued, one already merged or closed.
UndisturbedDelivers ==
    pc = "done" /\ run # 0 /\ ~disturbed => exit = "0" /\ Delivered

\* An edit to the prose is lost only if it is pushed while a job renders; one
\* pushed after the job read base_sha survives the merge, however late that is.
EditsKept == ~late => Tip(log).prose = edits

\* As the pull request's body has it: the report itself is the only change.
ReportIsOnlyChange ==
    [][Tip(log').report # Tip(log).report => Tip(log').prose = Tip(log).prose]_vars
=============================================================================
