---------------------------- MODULE RefreshProofs ----------------------------
(* What Refresh promises about the report repository, for every number of     *)
(* jobs and edits: whatever fails, is killed, is merged or closed meanwhile.  *)
EXTENDS Refresh, SequenceTheorems, TLAPS

\* The steps once a commit is made, up to the merge.
AfterCommit == {"lookBranch", "pointBranch", "deleteStaging", "create", "merge"}

\* From the listing of the pull requests to the choice between opening one and
\* merging the one found.
Choosing == {"lookStaging", "pointStaging", "commit", "lookBranch", "pointBranch", "deleteStaging"}

\* Ours: the pull requests a job has in hand have this repository's branch as
\* head, and only those are queued or merged.
OwnInv ==
    /\ OnlyOwnMerged
    /\ existing # None => prs[existing].own
    /\ target # None => prs[target].own
    /\ pc = "merge" => target # None

\* The refresh branch only ever holds a made commit, while a pull request is
\* open on it; and there is one of those at most.
BranchInv ==
    /\ branch # None => IsMade(branch)
    /\ pc \in AfterCommit => IsMade(commit) /\ commit.report = run
    /\ OpenOwn # {} => branch # None
    /\ \A m, n \in OpenOwn : m = n
    /\ pc \in Choosing \cup {"create"} /\ existing = None => OpenOwn = {}

\* Short of a late edit, a commit carries the prose its base has, so the merge
\* takes main's.
ProseOfBase(c) == IsMade(c) => c.prose = log[c.base].prose

ProseInv ==
    ~late =>
        /\ Tip(log).prose = edits
        /\ pc \in {"render", "base"} => copy = Tip(log).prose
        /\ pc \in {"list", "lookStaging", "pointStaging", "commit"} => copy = log[base].prose
        /\ ProseOfBase(staging) /\ ProseOfBase(branch) /\ ProseOfBase(commit)

\* What a job has established by each step: nobody else moves the staging branch.
StagingInv ==
    /\ pc = "commit" => staging = OnMain(base)
    /\ pc \in {"lookBranch", "pointBranch", "deleteStaging"} => staging # None
    /\ pc = "create" => existing = None

\* And short of a disturbance: the branches are as it last saw them, the pull
\* request it found is still open, the refresh branch is at its commit.
UndisturbedInv ==
    ~disturbed =>
        /\ pc = "pointStaging" => (found <=> staging # None)
        /\ pc = "pointBranch" => (found <=> branch # None)
        /\ pc \in {"deleteStaging", "create", "merge"} => branch = commit
        /\ pc \in Choosing /\ existing # None => existing \in OpenOwn
        /\ pc = "merge" => target \in OpenOwn
        /\ pc = "done" /\ run # 0 => exit = "0" /\ Delivered

IInv == TypeOK /\ OwnInv /\ BranchInv /\ ProseInv /\ StagingInv /\ UndisturbedInv

Entries == [prose : Prose, report : Reports]

-----------------------------------------------------------------------------
(* Commits, main's log and the pull requests. *)

LEMMA Basics ==
    ASSUME TypeOK
    PROVE  /\ log \in Seq(Entries) /\ Len(log) \in Nat /\ Len(log) > 0
           /\ DOMAIN log = 1 .. Len(log)
           /\ \A n \in DOMAIN log : log[n] \in Entries
           /\ Tip(log) \in Entries /\ Len(log) \in DOMAIN log
           /\ Len(prs) \in Nat /\ DOMAIN prs = 1 .. Len(prs)
           /\ \A n \in DOMAIN prs : prs[n] \in PullRequests
<1>1. log \in Seq(Entries) /\ log # <<>> /\ prs \in Seq(PullRequests)
    BY DEF TypeOK, Entries
<1>2. Len(log) \in Nat \ {0} /\ DOMAIN log = 1 .. Len(log)
    BY <1>1, EmptySeq, LenProperties
<1>3. \A n \in 1 .. Len(log) : log[n] \in Entries
    BY <1>1, ElementOfSeq
<1>4. Len(prs) \in Nat /\ DOMAIN prs = 1 .. Len(prs)
    BY <1>1, LenProperties
<1>5. \A n \in 1 .. Len(prs) : prs[n] \in PullRequests
    BY <1>1, ElementOfSeq
<1> QED
    BY <1>1, <1>2, <1>3, <1>4, <1>5 DEF Tip

\* A commit of main is not a made one, and neither is no commit.
LEMMA CommitKinds ==
    ASSUME NEW l, NEW n \in l, NEW p \in Prose, NEW r \in Reports, l \subseteq Nat
    PROVE  /\ OnMain(n) \in [main : l] /\ OnMain(n) # None /\ ~IsMade(OnMain(n))
           /\ Made(n, p, r) \in [base : l, prose : Prose, report : Reports]
           /\ Made(n, p, r) # None /\ IsMade(Made(n, p, r)) /\ Made(n, p, r) # OnMain(n)
           /\ Made(n, p, r).base = n /\ Made(n, p, r).prose = p /\ Made(n, p, r).report = r
<1>1. Prose \subseteq Nat /\ Reports \subseteq Nat
    BY RefreshAssumption DEF RefreshAssumption, Prose, Reports
<1>2. OnMain(n) \in [main : l] /\ OnMain(n) \in [main : Nat]
    BY DEF OnMain
<1>3. /\ Made(n, p, r) \in [base : l, prose : Prose, report : Reports]
      /\ Made(n, p, r) \in [base : Nat, prose : Nat, report : Nat]
    BY <1>1 DEF Made
<1>4. OnMain(n) # None /\ Made(n, p, r) # None
    BY <1>2, <1>3, RefreshAssumption DEF RefreshAssumption
<1>5. DOMAIN OnMain(n) = {"main"} /\ DOMAIN Made(n, p, r) = {"base", "prose", "report"}
    BY DEF OnMain, Made
<1>6. "base" \notin {"main"} /\ "base" \in {"base", "prose", "report"}
    OBVIOUS
<1>7. IsMade(Made(n, p, r)) /\ ~IsMade(OnMain(n)) /\ Made(n, p, r) # OnMain(n)
    BY <1>4, <1>5, <1>6 DEF IsMade
<1> QED
    BY <1>2, <1>3, <1>4, <1>7 DEF Made

\* So with the commits a job may put on its branches.
LEMMA JobCommits ==
    ASSUME TypeOK
    PROVE  /\ OnMain(base) \in Tips /\ OnMain(base) # None /\ ~IsMade(OnMain(base))
           /\ Made(base, copy, run) \in Tips /\ Made(base, copy, run) # None /\ IsMade(Made(base, copy, run))
           /\ Made(base, copy, run) # OnMain(base)
           /\ Made(base, copy, run).base = base /\ Made(base, copy, run).prose = copy
           /\ Made(base, copy, run).report = run
<1>1. base \in DOMAIN log /\ DOMAIN log \subseteq Nat /\ copy \in Prose /\ run \in Reports
    BY Basics DEF TypeOK
<1>2. /\ OnMain(base) \in [main : DOMAIN log] /\ OnMain(base) # None /\ ~IsMade(OnMain(base))
      /\ Made(base, copy, run) \in [base : DOMAIN log, prose : Prose, report : Reports]
      /\ Made(base, copy, run) # None /\ IsMade(Made(base, copy, run)) /\ Made(base, copy, run) # OnMain(base)
      /\ Made(base, copy, run).base = base /\ Made(base, copy, run).prose = copy
      /\ Made(base, copy, run).report = run
    BY <1>1, CommitKinds
<1> QED
    BY <1>2 DEF Tips

LEMMA MadeTips ==
    ASSUME TypeOK, NEW c \in Tips, IsMade(c)
    PROVE  c \in [base : DOMAIN log, prose : Prose, report : Reports]
<1>1. CASE c \in [main : DOMAIN log]
    <2>1. DOMAIN c = {"main"} /\ "base" \notin {"main"}
        BY <1>1
    <2> QED
        BY <2>1 DEF IsMade
<1> QED
    BY <1>1 DEF Tips, IsMade

\* main only grows: what was there stays where it was.
LEMMA LogGrows ==
    ASSUME TypeOK, NEW e \in Entries, log' = Append(log, e)
    PROVE  /\ log' \in Seq(Entries) /\ log' # <<>>
           /\ DOMAIN log \subseteq DOMAIN log'
           /\ \A n \in DOMAIN log : log'[n] = log[n]
           /\ Tip(log') = e
           /\ Tips \subseteq Tips'
<1>1. log \in Seq(Entries) /\ Len(log) \in Nat /\ DOMAIN log = 1 .. Len(log)
    BY Basics
<1>2. log' \in Seq(Entries) /\ Len(log') = Len(log) + 1 /\ Tip(log') = e
      /\ \A n \in 1 .. Len(log) : log'[n] = log[n]
    BY <1>1 DEF Tip
<1>3. DOMAIN log' = 1 .. Len(log')
    BY <1>2, LenProperties
<1>4. DOMAIN log \subseteq DOMAIN log'
    BY <1>1, <1>2, <1>3
<1>5. log' # <<>>
    BY <1>1, <1>2, EmptySeq
<1>6. Tips \subseteq Tips'
    BY <1>4 DEF Tips, Prose, Reports
<1> QED
    BY <1>1, <1>2, <1>4, <1>5, <1>6

\* One pull request becomes e.
LEMMA Replaced ==
    ASSUME TypeOK, NEW n \in DOMAIN prs, NEW e \in PullRequests, prs' = [prs EXCEPT ![n] = e]
    PROVE  /\ prs' \in Seq(PullRequests) /\ DOMAIN prs' = DOMAIN prs
           /\ \A m \in DOMAIN prs : prs'[m] = IF m = n THEN e ELSE prs[m]
<1>1. prs \in Seq(PullRequests) /\ DOMAIN prs = 1 .. Len(prs)
    BY Basics DEF TypeOK
<1>2. prs' \in Seq(PullRequests)
    BY <1>1, ExceptSeq
<1> QED
    BY <1>2

\* One more, o, is added.
LEMMA Appended ==
    ASSUME TypeOK, NEW o \in PullRequests, prs' = Append(prs, o)
    PROVE  /\ prs' \in Seq(PullRequests) /\ DOMAIN prs' = DOMAIN prs \cup {Len(prs')}
           /\ Len(prs') \notin DOMAIN prs /\ prs'[Len(prs')] = o
           /\ \A m \in DOMAIN prs : prs'[m] = prs[m]
<1>1. prs \in Seq(PullRequests) /\ DOMAIN prs = 1 .. Len(prs) /\ Len(prs) \in Nat
    BY Basics DEF TypeOK
<1>2. /\ prs' \in Seq(PullRequests) /\ Len(prs') = Len(prs) + 1 /\ prs'[Len(prs')] = o
      /\ \A m \in 1 .. Len(prs) : prs'[m] = prs[m]
    BY <1>1, AppendProperties
<1>3. DOMAIN prs' = 1 .. Len(prs')
    BY <1>2, LenProperties
<1> QED
    BY <1>1, <1>2, <1>3

\* A change of one pull request's state leaves whose they are as it was.
LEMMA StateChanges ==
    ASSUME TypeOK, NEW n \in DOMAIN prs, NEW x \in {"open", "closed", "merged"},
           prs' = [prs EXCEPT ![n].state = x]
    PROVE  /\ prs' \in Seq(PullRequests) /\ DOMAIN prs' = DOMAIN prs
           /\ \A m \in DOMAIN prs : /\ prs'[m].own = prs[m].own /\ prs'[m].auto = prs[m].auto
                                    /\ prs'[m].state = IF m = n THEN x ELSE prs[m].state
           /\ x # "open" => OpenOwn' = OpenOwn \ {n}
<1>1. prs \in Seq(PullRequests) /\ DOMAIN prs = 1 .. Len(prs) /\ prs[n] \in PullRequests
    BY Basics DEF TypeOK
<1> DEFINE e == [prs[n] EXCEPT !.state = x]
<1>2. e \in PullRequests /\ e.own = prs[n].own /\ e.auto = prs[n].auto /\ e.state = x
    BY <1>1 DEF PullRequests
<1>3. prs' = [prs EXCEPT ![n] = e]
    OBVIOUS
<1> HIDE DEF e
<1>4. prs' \in Seq(PullRequests) /\ DOMAIN prs' = DOMAIN prs
      /\ \A m \in DOMAIN prs : prs'[m] = IF m = n THEN e ELSE prs[m]
    BY <1>2, <1>3, Replaced, Zenon
<1>5. \A m \in DOMAIN prs : /\ prs'[m].own = prs[m].own
                             /\ prs'[m].state = IF m = n THEN x ELSE prs[m].state
    BY <1>2, <1>4
<1>6. x # "open" => OpenOwn' = OpenOwn \ {n}
    BY <1>4, <1>5 DEF OpenOwn
<1> QED
    BY <1>2, <1>4, <1>6

LEMMA AutoChanges ==
    ASSUME TypeOK, NEW n \in DOMAIN prs, prs' = [prs EXCEPT ![n].auto = TRUE]
    PROVE  /\ prs' \in Seq(PullRequests) /\ DOMAIN prs' = DOMAIN prs
           /\ \A m \in DOMAIN prs : /\ prs'[m].own = prs[m].own /\ prs'[m].state = prs[m].state
                                    /\ prs'[m].auto = IF m = n THEN TRUE ELSE prs[m].auto
           /\ OpenOwn' = OpenOwn
<1>1. prs \in Seq(PullRequests) /\ DOMAIN prs = 1 .. Len(prs) /\ prs[n] \in PullRequests
    BY Basics DEF TypeOK
<1> DEFINE e == [prs[n] EXCEPT !.auto = TRUE]
<1>2. e \in PullRequests /\ e.own = prs[n].own /\ e.auto = TRUE /\ e.state = prs[n].state
    BY <1>1 DEF PullRequests
<1>3. prs' = [prs EXCEPT ![n] = e]
    OBVIOUS
<1> HIDE DEF e
<1>4. prs' \in Seq(PullRequests) /\ DOMAIN prs' = DOMAIN prs
      /\ \A m \in DOMAIN prs : prs'[m] = IF m = n THEN e ELSE prs[m]
    BY <1>2, <1>3, Replaced, Zenon
<1>5. \A m \in DOMAIN prs : /\ prs'[m].own = prs[m].own
                             /\ prs'[m].state = prs[m].state
    BY <1>2, <1>4
<1>6. OpenOwn' = OpenOwn
    BY <1>4, <1>5 DEF OpenOwn
<1> QED
    BY <1>2, <1>4, <1>6

\* A pull request opened is this repository's, and comes last.
LEMMA OpeningAdds ==
    ASSUME TypeOK, prs' = Append(prs, Opened(TRUE))
    PROVE  /\ prs' \in Seq(PullRequests) /\ DOMAIN prs' = DOMAIN prs \cup {Len(prs')}
           /\ Len(prs') \notin DOMAIN prs /\ prs'[Len(prs')] = Opened(TRUE)
           /\ \A m \in DOMAIN prs : prs'[m] = prs[m]
           /\ OpenOwn' = OpenOwn \cup {Len(prs')}
<1>1. prs \in Seq(PullRequests) /\ DOMAIN prs = 1 .. Len(prs) /\ Len(prs) \in Nat
    BY Basics DEF TypeOK
<1> DEFINE o == Opened(TRUE)
<1>2. o \in PullRequests /\ o.state = "open" /\ o.own /\ prs' = Append(prs, o) /\ o = Opened(TRUE)
    BY DEF Opened, PullRequests
<1> HIDE DEF o
<1>3. /\ prs' \in Seq(PullRequests) /\ DOMAIN prs' = DOMAIN prs \cup {Len(prs')}
      /\ Len(prs') \notin DOMAIN prs /\ prs'[Len(prs')] = o
      /\ \A m \in DOMAIN prs : prs'[m] = prs[m]
    BY <1>2, Appended, Zenon
<1>4. OpenOwn' = OpenOwn \cup {Len(prs')}
    BY <1>2, <1>3 DEF OpenOwn
<1> QED
    BY <1>2, <1>3, <1>4

\* A merge takes the branch's report; main's prose, unless an edit came late.
LEMMA MergeMoves ==
    ASSUME TypeOK, BranchInv, ProseInv, NEW n \in DOMAIN prs, MergeOf(n)
    PROVE  /\ Tip(log').report = branch.report
           /\ ~late => Tip(log').prose = Tip(log).prose
           /\ \E e \in Entries : log' = Append(log, e)
           /\ prs' \in Seq(PullRequests) /\ DOMAIN prs' = DOMAIN prs
           /\ \A m \in DOMAIN prs : /\ prs'[m].own = prs[m].own /\ prs'[m].auto = prs[m].auto
                                    /\ prs'[m].state = IF m = n THEN "merged" ELSE prs[m].state
           /\ prs[n].own /\ prs[n].state = "open" /\ OpenOwn' = {}
           /\ branch' \in {branch, None} /\ staging' = staging
<1>1. branch \in [base : DOMAIN log, prose : Prose, report : Reports]
    BY MadeTips DEF MergeOf, Mergeable, TypeOK
<1>2. Tip(log) \in Entries /\ log[branch.base] \in Entries
    BY <1>1, Basics
<1> DEFINE e == [prose |-> IF branch.prose = log[branch.base].prose THEN Tip(log).prose ELSE branch.prose,
                 report |-> branch.report]
<1>3. e \in Entries /\ e.report = branch.report
    BY <1>1, <1>2 DEF Entries
<1>4. ~late => e.prose = Tip(log).prose
    BY DEF ProseInv, ProseOfBase, MergeOf, Mergeable
<1>5. log' = Append(log, e)
    BY DEF MergeOf, Merged
<1> HIDE DEF e
<1>6. Tip(log') = e
    BY <1>3, <1>5, LogGrows
<1>7. prs' = [prs EXCEPT ![n].state = "merged"] /\ prs[n].own /\ prs[n].state = "open"
      /\ branch' \in {branch, None} /\ staging' = staging
    BY DEF MergeOf
<1>8. /\ prs' \in Seq(PullRequests) /\ DOMAIN prs' = DOMAIN prs
      /\ \A m \in DOMAIN prs : /\ prs'[m].own = prs[m].own /\ prs'[m].auto = prs[m].auto
                               /\ prs'[m].state = IF m = n THEN "merged" ELSE prs[m].state
    BY <1>7, StateChanges
<1>9. OpenOwn' = {}
    <2>1. n \in OpenOwn
        BY <1>7 DEF OpenOwn
    <2>2. ASSUME NEW m \in OpenOwn'
          PROVE  FALSE
        <3>1. m \in OpenOwn /\ m # n
            BY <1>8, <2>2 DEF OpenOwn
        <3> QED
            BY <2>1, <3>1 DEF BranchInv
    <2> QED
        BY <2>2
<1> QED
    BY <1>3, <1>4, <1>5, <1>6, <1>7, <1>8, <1>9

-----------------------------------------------------------------------------
(* Initially. *)

LEMMA InitHolds == Init => IInv
<1> SUFFICES ASSUME Init
             PROVE  IInv
    OBVIOUS
<1>1. 0 \in Prose /\ 0 \in Reports
    BY RefreshAssumption DEF RefreshAssumption, Prose, Reports
<1> DEFINE e == [prose |-> 0, report |-> 0]
           o == Opened(FALSE)
<1>2. e \in Entries /\ e.prose = 0
    BY <1>1 DEF Entries
<1>3. o \in PullRequests /\ o.own = FALSE /\ o.auto = FALSE /\ o.state = "open"
    BY DEF Opened, PullRequests
<1>4. log = <<e>> /\ prs = <<o>>
    BY DEF Init
<1> HIDE DEF e, o
<1>5. log \in Seq(Entries) /\ Len(log) = 1 /\ DOMAIN log = {1} /\ log[1] = e
    BY <1>2, <1>4
<1>6. prs \in Seq(PullRequests) /\ DOMAIN prs = {1} /\ prs[1] = o
    BY <1>3, <1>4
<1>7. log # <<>>
    BY <1>4
<1>8. TypeOK
    <2>1. staging = None /\ branch = None /\ commit = None /\ existing = None /\ target = None
          /\ base = 1 /\ run = 0 /\ pc = "done" /\ copy = 0 /\ edits = 0
          /\ found = FALSE /\ exit = "none" /\ disturbed = FALSE /\ late = FALSE
        BY DEF Init
    <2> QED
        BY <1>1, <1>5, <1>6, <1>7, <2>1 DEF TypeOK, Tips, PCs, Entries
<1>9. OpenOwn = {} /\ Tip(log) = e
    BY <1>3, <1>5, <1>6 DEF OpenOwn, Tip
<1>10. OwnInv
    BY <1>3, <1>6 DEF Init, OwnInv, OnlyOwnMerged
<1>11. BranchInv
    BY <1>9 DEF Init, BranchInv, AfterCommit, Choosing
<1>12. ProseInv
    BY <1>2, <1>9 DEF Init, ProseInv, ProseOfBase, IsMade
<1>13. StagingInv /\ UndisturbedInv
    BY DEF Init, StagingInv, UndisturbedInv, AfterCommit, Choosing
<1> QED
    BY <1>8, <1>10, <1>11, <1>12, <1>13 DEF IInv

-----------------------------------------------------------------------------
(* Step by step. *)

\* A job's own state is well typed, in the repository as it is or as it was.
JobOK ==
    /\ run \in Reports /\ pc \in PCs /\ copy \in Prose /\ base \in DOMAIN log
    /\ existing \in {None} \cup DOMAIN prs /\ target \in {None} \cup DOMAIN prs
    /\ commit \in Tips
    /\ found \in BOOLEAN /\ exit \in {"none", "0", "1", "killed"}
    /\ edits \in Prose /\ disturbed \in BOOLEAN /\ late \in BOOLEAN

GithubOK ==
    /\ log \in Seq(Entries) /\ log # <<>>
    /\ staging \in Tips /\ branch \in Tips
    /\ prs \in Seq(PullRequests)

LEMMA TypeParts == TypeOK <=> GithubOK /\ JobOK
BY DEF TypeOK, GithubOK, JobOK, Entries

\* What a step that leaves GitHub as it is may refer to.
LEMMA SameGithub ==
    ASSUME GithubOK, UNCHANGED github
    PROVE  /\ GithubOK' /\ Tips' = Tips /\ DOMAIN prs' = DOMAIN prs /\ DOMAIN log' = DOMAIN log
           /\ OpenOwn' = OpenOwn /\ Tip(log') = Tip(log)
BY DEF GithubOK, github, Tips, Prose, Reports, Entries, PullRequests, OpenOwn, Tip

\* One that moves main on, or changes pull requests without losing one, keeps
\* what a job holds well typed.
LEMMA JobStays ==
    ASSUME JobOK, DOMAIN log \subseteq DOMAIN log', DOMAIN prs \subseteq DOMAIN prs', Tips \subseteq Tips',
           UNCHANGED <<run, copy, base, existing, found, commit>>, pc' \in PCs,
           target' \in {None} \cup DOMAIN prs', exit' \in {"none", "0", "1", "killed"},
           edits' \in Prose, disturbed' \in BOOLEAN, late' \in BOOLEAN
    PROVE  JobOK'
BY DEF JobOK, Prose, Reports, PCs

LEMMA TypeStep == IInv /\ [Next]_vars => TypeOK'
<1> SUFFICES ASSUME IInv, [Next]_vars
             PROVE  GithubOK' /\ JobOK'
    BY DEF TypeOK, GithubOK, JobOK, Entries
<1>t. TypeOK /\ BranchInv /\ ProseInv /\ GithubOK /\ JobOK
    BY TypeParts DEF IInv
<1>b. /\ DOMAIN log = 1 .. Len(log) /\ Len(log) \in DOMAIN log /\ Tip(log) \in Entries
      /\ DOMAIN log \subseteq Nat
    BY <1>t, Basics
<1>g. UNCHANGED github => /\ GithubOK' /\ Tips' = Tips /\ DOMAIN prs' = DOMAIN prs
                          /\ DOMAIN log' = DOMAIN log
    BY <1>t, SameGithub
<1>r. Prose' = Prose /\ Reports' = Reports /\ PCs' = PCs
    BY DEF Prose, Reports, PCs
<1>k. OnMain(base) \in Tips /\ Made(base, copy, run) \in Tips
    BY <1>t, JobCommits
<1>1. CASE Start
    <2>1. run' \in Reports /\ copy' \in Prose
        BY <1>1, <1>t, <1>b, RefreshAssumption DEF Start, JobOK, Reports, Entries, RefreshAssumption
    <2> QED
        BY <1>1, <1>t, <1>g, <1>r, <2>1 DEF Start, JobOK, PCs
<1>2. CASE Edit
    <2>1. edits' \in Prose /\ edits' = edits + 1
        BY <1>2, <1>t, RefreshAssumption DEF Edit, JobOK, Prose, RefreshAssumption
    <2> DEFINE e == [Tip(log) EXCEPT !.prose = edits + 1]
    <2>2. e \in Entries
        BY <1>b, <2>1 DEF Entries
    <2>3. log' = Append(log, e)
        BY <1>2 DEF Edit
    <2> HIDE DEF e
    <2>4. /\ log' \in Seq(Entries) /\ log' # <<>> /\ DOMAIN log \subseteq DOMAIN log'
          /\ Tips \subseteq Tips'
        BY <1>t, <2>2, <2>3, LogGrows
    <2>5. late' \in BOOLEAN /\ UNCHANGED <<staging, branch, prs, run, pc, copy, base, existing, found, commit,
                                           target, exit, disturbed>>
        BY <1>2, <1>t DEF Edit, job, JobOK
    <2>6. GithubOK'
        BY <1>t, <2>4, <2>5 DEF GithubOK, Entries, Prose, Reports, PullRequests
    <2>7. JobOK'
        BY <1>t, <2>1, <2>4, <2>5, JobStays DEF JobOK
    <2> QED
        BY <2>6, <2>7
<1>m. ASSUME NEW n \in DOMAIN prs, MergeOf(n), UNCHANGED <<run, copy, base, existing, found, commit, target, edits, late>>,
             pc' \in PCs, exit' \in {"none", "0", "1", "killed"}, disturbed' \in BOOLEAN
      PROVE  GithubOK' /\ JobOK'
    <2>1. PICK e \in Entries : log' = Append(log, e)
        BY <1>t, <1>m, MergeMoves
    <2>2. /\ log' \in Seq(Entries) /\ log' # <<>> /\ DOMAIN log \subseteq DOMAIN log'
          /\ Tips \subseteq Tips'
        BY <1>t, <2>1, LogGrows
    <2>3. prs' \in Seq(PullRequests) /\ DOMAIN prs' = DOMAIN prs /\ branch' \in {branch, None} /\ staging' = staging
        BY <1>t, <1>m, MergeMoves
    <2>4. None \in Tips'
        BY DEF Tips
    <2>5. GithubOK'
        BY <1>t, <2>2, <2>3, <2>4 DEF GithubOK, Entries, Prose, Reports, PullRequests
    <2>6. JobOK'
        BY <1>t, <1>m, <2>2, <2>3, JobStays DEF JobOK
    <2> QED
        BY <2>5, <2>6
<1>3. CASE AutoMerge
    <2>1. PICK n \in OpenOwn : MergeOf(n)
        BY <1>3 DEF AutoMerge
    <2> QED
        BY <1>3, <1>t, <1>m, <2>1 DEF AutoMerge, OpenOwn, job, JobOK
<1>p. ASSUME prs' \in Seq(PullRequests), DOMAIN prs \subseteq DOMAIN prs', UNCHANGED <<log, staging, branch>>,
             UNCHANGED <<run, copy, base, existing, found, commit, edits, late>>,
             target' \in {None} \cup DOMAIN prs',
             pc' \in PCs, exit' \in {"none", "0", "1", "killed"}, disturbed' \in BOOLEAN
      PROVE  GithubOK' /\ JobOK'
    <2>1. Tips' = Tips
        BY <1>p DEF Tips, Prose, Reports
    <2>2. GithubOK'
        BY <1>t, <1>p, <2>1 DEF GithubOK, Entries, Prose, Reports, PullRequests
    <2>3. JobOK'
        BY <1>t, <1>p, <2>1, JobStays DEF JobOK
    <2> QED
        BY <2>2, <2>3
<1>4. CASE Close
    <2>1. PICK n \in OpenOwn : prs' = [prs EXCEPT ![n].state = "closed"]
        BY <1>4 DEF Close
    <2>2. prs' \in Seq(PullRequests) /\ DOMAIN prs' = DOMAIN prs
        BY <1>t, <2>1, StateChanges DEF OpenOwn
    <2> QED
        BY <1>4, <1>t, <1>p, <2>2 DEF Close, job, JobOK
<1>5. CASE Kill \/ Render \/ UNCHANGED vars
    BY <1>5, <1>t, <1>g, <1>r DEF Kill, Render, Go, Break, Exit, vars, job, JobOK, PCs
<1>6. CASE ReadBase
    BY <1>6, <1>t, <1>b, <1>g, <1>r DEF ReadBase, Go, Break, Exit, JobOK, PCs
<1>7. CASE List
    <2>1. Listed \subseteq DOMAIN prs
        BY DEF Listed
    <2> QED
        BY <1>7, <1>t, <1>g, <1>r, <2>1 DEF List, Go, Break, Exit, JobOK, PCs
<1>8. CASE Look("lookStaging", staging, "pointStaging") \/ Look("lookBranch", branch, "pointBranch")
    BY <1>8, <1>t, <1>g, <1>r DEF Look, Go, Break, Exit, JobOK, PCs
<1>9. CASE PointStaging \/ Commit \/ PointBranch
    <2>1. UNCHANGED <<log, prs>> /\ staging' \in Tips /\ branch' \in Tips /\ commit' \in Tips
        BY <1>9, <1>t, <1>k DEF PointStaging, Commit, PointBranch, Point, JobOK, GithubOK
    <2>2. Tips' = Tips
        BY <2>1 DEF Tips, Prose, Reports
    <2>3. /\ UNCHANGED <<run, copy, base, existing, found, target, edits, late>>
          /\ pc' \in PCs /\ exit' \in {"none", "0", "1", "killed"} /\ disturbed' \in BOOLEAN
        BY <1>9, <1>t DEF PointStaging, Commit, PointBranch, Point, Go, Break, Refused, Exit, PCs, JobOK
    <2>4. GithubOK'
        BY <1>t, <2>1, <2>2 DEF GithubOK, Entries, Prose, Reports, PullRequests
    <2>5. JobOK'
        BY <1>t, <1>r, <2>1, <2>2, <2>3 DEF JobOK
    <2> QED
        BY <2>4, <2>5
<1>10. CASE DeleteStaging
    <2>1. UNCHANGED <<log, prs, branch>> /\ staging' \in Tips
        BY <1>10, <1>t DEF DeleteStaging, GithubOK, Tips
    <2>2. Tips' = Tips
        BY <2>1 DEF Tips, Prose, Reports
    <2>3. /\ UNCHANGED <<run, copy, base, existing, found, commit, edits, late>> /\ target' \in {None} \cup DOMAIN prs
          /\ pc' \in PCs /\ exit' \in {"none", "0", "1", "killed"} /\ disturbed' \in BOOLEAN
        BY <1>10, <1>t DEF DeleteStaging, Go, Break, Refused, Exit, PCs, JobOK
    <2>4. GithubOK'
        BY <1>t, <2>1, <2>2 DEF GithubOK, Entries, Prose, Reports, PullRequests
    <2>5. JobOK'
        BY <1>t, <1>r, <2>1, <2>2, <2>3 DEF JobOK
    <2> QED
        BY <2>4, <2>5
<1>11. CASE Create
    <2>1. CASE prs' = Append(prs, Opened(TRUE))
        <3>1. prs' \in Seq(PullRequests) /\ DOMAIN prs' = DOMAIN prs \cup {Len(prs')}
            BY <1>t, <2>1, OpeningAdds
        <3>2. target' \in {target, Len(prs')}
            BY <1>11 DEF Create, Go, Break, Exit
        <3>3. /\ UNCHANGED <<log, staging, branch, run, copy, base, existing, found, commit, edits, late>>
              /\ pc' \in PCs /\ exit' \in {"none", "0", "1", "killed"} /\ disturbed' \in BOOLEAN
            BY <1>11, <1>t DEF Create, Go, Break, Refused, Exit, PCs, JobOK
        <3> QED
            BY <1>p, <1>t, <3>1, <3>2, <3>3 DEF JobOK
    <2>2. CASE UNCHANGED <<prs, target>>
        <3>1. UNCHANGED github
            BY <1>11, <2>2 DEF Create, github
        <3> QED
            BY <1>11, <2>2, <3>1, <1>g, <1>t, <1>r DEF Create, Go, Break, Refused, Exit, PCs, JobOK
    <2> QED
        BY <1>11, <2>1, <2>2 DEF Create
<1>12. CASE Merge
    <2>1. /\ UNCHANGED <<run, copy, base, existing, found, commit, target, edits, late>>
          /\ pc' \in PCs /\ exit' \in {"none", "0", "1", "killed"} /\ disturbed' \in BOOLEAN
        BY <1>12, <1>t DEF Merge, Break, Refused, Exit, PCs, JobOK
    <2>2. target \in DOMAIN prs
        BY <1>12, <1>t DEF Merge, IInv, OwnInv, JobOK
    <2>3. CASE prs' = [prs EXCEPT ![target].auto = TRUE] /\ UNCHANGED <<log, staging, branch>>
        <3>1. prs' \in Seq(PullRequests) /\ DOMAIN prs' = DOMAIN prs
            BY <1>t, <2>2, <2>3, AutoChanges
        <3> QED
            BY <1>p, <1>t, <2>1, <2>2, <2>3, <3>1
    <2>4. CASE MergeOf(target)
        BY <1>m, <2>1, <2>2, <2>4
    <2>5. CASE UNCHANGED github
        BY <1>g, <1>t, <1>r, <2>1, <2>5 DEF JobOK
    <2> QED
        BY <1>12, <2>3, <2>4, <2>5 DEF Merge
<1> QED
    BY <1>1, <1>2, <1>3, <1>4, <1>5, <1>6, <1>7, <1>8, <1>9, <1>10, <1>11, <1>12 DEF Next, Script

\* No job takes a pull request from elsewhere in hand.
LEMMA OwnStep == IInv /\ [Next]_vars => OwnInv'
<1> SUFFICES ASSUME IInv, [Next]_vars
             PROVE  OwnInv'
    OBVIOUS
<1>t. /\ TypeOK /\ BranchInv /\ ProseInv /\ OwnInv
      /\ existing \in {None} \cup DOMAIN prs /\ target \in {None} \cup DOMAIN prs
    BY DEF IInv, TypeOK
<1>1. ASSUME UNCHANGED <<prs, existing, target>>, pc' = "merge" => pc = "merge"
      PROVE  OwnInv'
    BY <1>1, <1>t DEF OwnInv, OnlyOwnMerged
<1>2. CASE List
    BY <1>2, <1>t DEF List, Listed, Go, Break, Exit, OwnInv, OnlyOwnMerged, github
<1>3. CASE DeleteStaging
    BY <1>3, <1>t DEF DeleteStaging, Go, Break, Refused, Exit, OwnInv, OnlyOwnMerged
<1>4. CASE Create /\ prs' = Append(prs, Opened(TRUE))
    <2>1. /\ DOMAIN prs' = DOMAIN prs \cup {Len(prs')}
          /\ \A m \in DOMAIN prs : prs'[m] = prs[m]
          /\ prs'[Len(prs')].own
        BY <1>t, <1>4, OpeningAdds DEF Opened
    <2>2. /\ existing' = existing /\ target' \in {target, Len(prs')}
          /\ pc' = "merge" => target' = Len(prs')
        BY <1>4 DEF Create, Go, Break, Refused, Exit
    <2>3. Len(prs') # None
        <3>1. Len(prs') \in Nat
            BY <1>t, <1>4, OpeningAdds, LenProperties
        <3> QED
            BY <3>1, RefreshAssumption DEF RefreshAssumption
    <2> QED
        BY <1>t, <2>1, <2>2, <2>3 DEF OwnInv, OnlyOwnMerged
<1>5. CASE Create /\ UNCHANGED <<prs, target>> /\ pc' = "done"
    BY <1>1, <1>5 DEF Create
<1>k. ASSUME DOMAIN prs' = DOMAIN prs, \A m \in DOMAIN prs : prs'[m].own = prs[m].own,
             \A m \in DOMAIN prs : prs'[m].auto \/ prs'[m].state = "merged" => prs[m].own,
             UNCHANGED <<existing, target>>, pc' = "merge" => pc = "merge"
      PROVE  OwnInv'
    BY <1>k, <1>t DEF OwnInv, OnlyOwnMerged
<1>6. CASE Merge
    <2>1. target \in DOMAIN prs /\ prs[target].own
        BY <1>6, <1>t DEF Merge, OwnInv
    <2>2. UNCHANGED <<existing, target>> /\ pc' = "done"
        BY <1>6 DEF Merge, Break, Refused, Exit
    <2>3. CASE prs' = [prs EXCEPT ![target].auto = TRUE]
        <3>1. /\ DOMAIN prs' = DOMAIN prs
              /\ \A m \in DOMAIN prs : /\ prs'[m].own = prs[m].own /\ prs'[m].state = prs[m].state
                                       /\ prs'[m].auto = IF m = target THEN TRUE ELSE prs[m].auto
            BY <1>t, <2>1, <2>3, AutoChanges
        <3> QED
            BY <1>k, <1>t, <2>1, <2>2, <3>1 DEF OwnInv, OnlyOwnMerged
    <2>4. CASE MergeOf(target)
        <3>1. /\ DOMAIN prs' = DOMAIN prs
              /\ \A m \in DOMAIN prs : /\ prs'[m].own = prs[m].own /\ prs'[m].auto = prs[m].auto
                                       /\ prs'[m].state = IF m = target THEN "merged" ELSE prs[m].state
            BY <1>t, <2>1, <2>4, MergeMoves
        <3> QED
            BY <1>k, <1>t, <2>1, <2>2, <3>1 DEF OwnInv, OnlyOwnMerged
    <2>5. CASE UNCHANGED github
        BY <1>1, <2>2, <2>5 DEF github
    <2> QED
        BY <1>6, <2>3, <2>4, <2>5 DEF Merge
<1>7. CASE AutoMerge
    <2>1. PICK n \in OpenOwn : MergeOf(n)
        BY <1>7 DEF AutoMerge
    <2>2. n \in DOMAIN prs /\ prs[n].own
        BY <2>1 DEF OpenOwn
    <2>3. /\ DOMAIN prs' = DOMAIN prs
          /\ \A m \in DOMAIN prs : /\ prs'[m].own = prs[m].own /\ prs'[m].auto = prs[m].auto
                                   /\ prs'[m].state = IF m = n THEN "merged" ELSE prs[m].state
        BY <1>t, <2>1, <2>2, MergeMoves
    <2> QED
        BY <1>7, <1>k, <1>t, <2>2, <2>3 DEF AutoMerge, job, OwnInv, OnlyOwnMerged
<1>8. CASE Close
    <2>1. PICK n \in OpenOwn : prs' = [prs EXCEPT ![n].state = "closed"]
        BY <1>8 DEF Close
    <2>2. /\ DOMAIN prs' = DOMAIN prs
          /\ \A m \in DOMAIN prs : /\ prs'[m].own = prs[m].own /\ prs'[m].auto = prs[m].auto
                                   /\ prs'[m].state = IF m = n THEN "closed" ELSE prs[m].state
        BY <1>t, <2>1, StateChanges DEF OpenOwn
    <2> QED
        BY <1>8, <1>k, <1>t, <2>2 DEF Close, job, OwnInv, OnlyOwnMerged
<1>9. CASE \/ Start \/ Edit \/ Kill \/ Render \/ ReadBase \/ UNCHANGED vars
           \/ Look("lookStaging", staging, "pointStaging") \/ Look("lookBranch", branch, "pointBranch")
           \/ PointStaging \/ Commit \/ PointBranch
    <2>1. UNCHANGED <<prs, existing, target>> /\ (pc' = "merge" => pc = "merge")
        BY <1>9 DEF Start, Edit, Kill, Render, ReadBase, Look, PointStaging, Commit, PointBranch, Point,
           Go, Break, Refused, Exit, github, job, vars
    <2> QED
        BY <1>1, <2>1
<1> QED
    BY <1>2, <1>3, <1>4, <1>5, <1>6, <1>7, <1>8, <1>9 DEF Next, Script, Create, Break, Refused, Exit

\* The refresh branch leaves the state of being made only when it goes, and it
\* goes with the one pull request open on it.
LEMMA BranchStep == IInv /\ [Next]_vars => BranchInv'
<1> SUFFICES ASSUME IInv, [Next]_vars
             PROVE  BranchInv'
    OBVIOUS
<1>t. /\ TypeOK /\ BranchInv /\ ProseInv /\ OwnInv
      /\ existing \in {None} \cup DOMAIN prs /\ target \in {None} \cup DOMAIN prs
    BY DEF IInv, TypeOK
\* With the branch and the commit as they were, and no pull request opened.
<1>1. ASSUME UNCHANGED <<branch, commit, existing>>, OpenOwn' \subseteq OpenOwn,
             pc' \in AfterCommit => pc \in AfterCommit /\ run' = run,
             pc' \in Choosing \cup {"create"} => pc \in Choosing \cup {"create"}
      PROVE  BranchInv'
    BY <1>1, <1>t DEF BranchInv, IsMade
<1>2. CASE \/ Start \/ Kill \/ Render \/ ReadBase \/ UNCHANGED vars
           \/ Look("lookStaging", staging, "pointStaging") \/ Look("lookBranch", branch, "pointBranch")
           \/ PointStaging \/ DeleteStaging
    <2>1. UNCHANGED <<branch, commit, existing, prs>>
        BY <1>2 DEF Start, Kill, Render, ReadBase, Look, PointStaging, Point, DeleteStaging, github, job, vars
    <2>2. /\ pc' \in AfterCommit => pc \in AfterCommit /\ run' = run
          /\ pc' \in Choosing \cup {"create"} => pc \in Choosing \cup {"create"}
        BY <1>2 DEF Start, Kill, Render, ReadBase, Look, PointStaging, Point, DeleteStaging, Go, Break, Refused,
           Exit, AfterCommit, Choosing, job, vars
    <2> QED
        BY <1>1, <2>1, <2>2 DEF OpenOwn
<1>3. CASE Edit
    BY <1>1, <1>3 DEF Edit, job, OpenOwn
<1>4. CASE List
    <2>1. /\ UNCHANGED <<branch, commit, prs>>
          /\ pc' = "done" \/ (pc' = "lookStaging" /\ (existing' = None => Listed = {} \/ None \in Listed))
        BY <1>4 DEF List, Go, Break, Exit, github
    <2>2. None \notin Listed
        BY <1>t, Basics, RefreshAssumption DEF Listed, RefreshAssumption
    <2>3. Listed = OpenOwn /\ OpenOwn' = OpenOwn
        BY <2>1 DEF Listed, OpenOwn
    <2> QED
        BY <1>t, <2>1, <2>2, <2>3 DEF BranchInv, IsMade, AfterCommit, Choosing
<1>5. CASE Commit
    <2>1. /\ UNCHANGED <<branch, prs, run, existing>> /\ pc = "commit"
          /\ \/ pc' = "done"
             \/ pc' = "lookBranch" /\ commit' = Made(base, copy, run)
        BY <1>5 DEF Commit, Go, Break, Refused, Exit
    <2>2. OpenOwn' = OpenOwn
        BY <2>1 DEF OpenOwn
    <2>3. CASE pc' = "done"
        BY <1>t, <2>1, <2>2, <2>3 DEF BranchInv, IsMade, AfterCommit, Choosing
    <2>4. CASE pc' = "lookBranch" /\ commit' = Made(base, copy, run)
        <3>1. IsMade(commit') /\ commit'.report = run
            BY <1>t, <2>4, JobCommits
        <3> QED
            BY <1>t, <2>1, <2>2, <2>4, <3>1 DEF BranchInv, IsMade, AfterCommit, Choosing
    <2> QED
        BY <2>1, <2>3, <2>4
<1>6. CASE PointBranch
    <2>1. /\ UNCHANGED <<prs, run, existing, commit>> /\ pc = "pointBranch" /\ branch' \in {branch, commit}
          /\ pc' \in {"done", "deleteStaging"}
        BY <1>6 DEF PointBranch, Point, Go, Break, Refused, Exit
    <2>2. OpenOwn' = OpenOwn
        BY <2>1 DEF OpenOwn
    <2> QED
        BY <1>t, <2>1, <2>2 DEF BranchInv, IsMade, AfterCommit, Choosing
<1>7. CASE Create /\ prs' = Append(prs, Opened(TRUE)) /\ OpenOwn = {} /\ branch # None
    <2>1. OpenOwn' = {Len(prs')}
        BY <1>t, <1>7, OpeningAdds
    <2>2. /\ UNCHANGED <<branch, commit, run, existing>> /\ pc = "create" /\ pc' \in {"done", "merge"}
        BY <1>7 DEF Create, Go, Break, Refused, Exit
    <2> QED
        BY <1>t, <1>7, <2>1, <2>2 DEF BranchInv, IsMade, AfterCommit, Choosing
<1>8. CASE Create /\ UNCHANGED <<prs, target>> /\ pc' = "done"
    BY <1>1, <1>8 DEF Create, OpenOwn, AfterCommit, Choosing
<1>m. ASSUME NEW n \in DOMAIN prs, MergeOf(n), UNCHANGED <<commit, existing, run>>, pc' \in {pc, "done"}
      PROVE  BranchInv'
    <2>1. OpenOwn' = {} /\ branch' \in {branch, None}
        BY <1>t, <1>m, MergeMoves
    <2> QED
        BY <1>t, <1>m, <2>1 DEF BranchInv, IsMade, AfterCommit, Choosing
<1>9. CASE Merge
    <2>1. target \in DOMAIN prs
        BY <1>9, <1>t DEF Merge, OwnInv
    <2>2. UNCHANGED <<existing, commit, run>> /\ pc' = "done"
        BY <1>9 DEF Merge, Break, Refused, Exit
    <2>3. CASE prs' = [prs EXCEPT ![target].auto = TRUE] /\ UNCHANGED <<log, staging, branch>>
        <3>1. OpenOwn' = OpenOwn
            BY <1>t, <2>1, <2>3, AutoChanges
        <3> QED
            BY <1>1, <2>2, <2>3, <3>1 DEF AfterCommit, Choosing
    <2>4. CASE MergeOf(target)
        BY <1>m, <2>1, <2>2, <2>4
    <2>5. CASE UNCHANGED github
        BY <1>1, <2>2, <2>5 DEF github, OpenOwn, AfterCommit, Choosing
    <2> QED
        BY <1>9, <2>3, <2>4, <2>5 DEF Merge
<1>10. CASE AutoMerge
    <2>1. PICK n \in OpenOwn : MergeOf(n)
        BY <1>10 DEF AutoMerge
    <2> QED
        BY <1>10, <1>m, <2>1 DEF AutoMerge, OpenOwn, job
<1>11. CASE Close
    <2>1. PICK n \in OpenOwn : prs' = [prs EXCEPT ![n].state = "closed"]
        BY <1>11 DEF Close
    <2>2. OpenOwn' = OpenOwn \ {n}
        BY <1>t, <2>1, StateChanges DEF OpenOwn
    <2> QED
        BY <1>11, <1>1, <2>2 DEF Close, job
<1> QED
    BY <1>2, <1>3, <1>4, <1>5, <1>6, <1>7, <1>8, <1>9, <1>10, <1>11
       DEF Next, Script, Create, Break, Refused, Exit

\* A made commit keeps the prose of its base as main grows.
LEMMA ProseKept ==
    ASSUME TypeOK, NEW c \in Tips, ProseOfBase(c), IsMade(c), \A n \in DOMAIN log : log'[n] = log[n]
    PROVE  c.prose = log'[c.base].prose
BY MadeTips DEF ProseOfBase

LEMMA ProseStep == IInv /\ [Next]_vars => ProseInv'
<1> SUFFICES ASSUME IInv, [Next]_vars
             PROVE  ProseInv'
    OBVIOUS
<1> DEFINE Before == {"list", "lookStaging", "pointStaging", "commit"}
<1>t. /\ TypeOK /\ BranchInv /\ ProseInv /\ OwnInv
      /\ staging \in Tips /\ branch \in Tips /\ commit \in Tips /\ base \in DOMAIN log
      /\ copy \in Prose /\ run \in Reports /\ late \in BOOLEAN
    BY DEF IInv, TypeOK
<1>b. DOMAIN log \subseteq Nat /\ Tip(log) = log[Len(log)] /\ Len(log) \in DOMAIN log /\ Tip(log) \in Entries
    BY <1>t, Basics DEF Tip
<1>n. ~IsMade(None)
    BY DEF IsMade
\* With main grown at most, and no commit but the ones there were.
<1>1. ASSUME ~late' => ~late, \A n \in DOMAIN log : log'[n] = log[n],
             ~late' => Tip(log').prose = edits',
             UNCHANGED <<copy, base>>,
             staging' \in {staging, None}, branch' \in {branch, commit, None}, commit' = commit,
             ~late' /\ pc' \in {"render", "base"} => pc \in {"render", "base"} /\ Tip(log').prose = Tip(log).prose,
             pc' \in Before => pc \in Before
      PROVE  ProseInv'
    <2> SUFFICES ASSUME ~late'
                 PROVE  ProseInv'
        BY DEF ProseInv
    <2>1. ~late
        BY <1>1
    <2>2. /\ IsMade(staging) => staging.prose = log'[staging.base].prose
          /\ IsMade(branch) => branch.prose = log'[branch.base].prose
          /\ IsMade(commit) => commit.prose = log'[commit.base].prose
        BY <1>1, <1>t, <2>1, ProseKept DEF ProseInv
    <2>3. ProseOfBase(staging)' /\ ProseOfBase(branch)' /\ ProseOfBase(commit)'
        BY <1>1, <1>n, <2>2 DEF ProseOfBase, IsMade
    <2>4. log'[base] = log[base]
        BY <1>1, <1>t
    <2> QED
        BY <1>1, <1>t, <2>1, <2>3, <2>4 DEF ProseInv
<1>2. CASE Start
    <2>1. UNCHANGED <<log, staging, branch, commit, edits, late>> /\ pc' = "render" /\ copy' = Tip(log').prose
        BY <1>2 DEF Start, github, Tip
    <2> QED
        BY <1>t, <2>1 DEF ProseInv, ProseOfBase, IsMade, Tip
<1>3. CASE Edit
    <2> DEFINE e == [Tip(log) EXCEPT !.prose = edits + 1]
    <2>1. e \in Entries /\ e.prose = edits + 1
        <3>1. edits + 1 \in Prose
            BY <1>3, <1>t, RefreshAssumption DEF Edit, TypeOK, Prose, RefreshAssumption
        <3> QED
            BY <1>b, <3>1 DEF Entries
    <2>2. log' = Append(log, e)
        BY <1>3 DEF Edit
    <2> HIDE DEF e
    <2>3. (\A n \in DOMAIN log : log'[n] = log[n]) /\ Tip(log') = e
        BY <1>t, <2>1, <2>2, LogGrows
    <2>4. UNCHANGED <<staging, branch, copy, base, commit, pc>> /\ edits' = edits + 1
        BY <1>3 DEF Edit, job
    <2>5. ~late' => ~late /\ pc \notin {"render", "base"}
        BY <1>3, <1>t DEF Edit
    <2> QED
        BY <1>1, <2>1, <2>3, <2>4, <2>5
<1>4. CASE ReadBase
    <2>1. UNCHANGED <<log, staging, branch, commit, edits, late, copy>> /\ pc = "base"
          /\ (pc' = "done" \/ (pc' = "list" /\ base' = Len(log)))
        BY <1>4 DEF ReadBase, Go, Break, Exit, github
    <2> QED
        BY <1>t, <1>b, <2>1 DEF ProseInv, ProseOfBase, IsMade, Tip
<1>s. ASSUME UNCHANGED <<log, edits, late, copy, base>>,
             staging' \in {staging, None}, branch' \in {branch, commit, None}, commit' = commit,
             pc' \in {"render", "base"} => pc \in {"render", "base"},
             pc' \in Before => pc \in Before
      PROVE  ProseInv'
    BY <1>1, <1>s, <1>t DEF ProseInv, Tip
<1>5. CASE \/ Close \/ Kill \/ Render \/ List \/ UNCHANGED vars
           \/ Look("lookStaging", staging, "pointStaging") \/ Look("lookBranch", branch, "pointBranch")
           \/ PointBranch \/ DeleteStaging \/ Create
    <2>1. /\ UNCHANGED <<log, edits, late, copy, base>>
          /\ staging' \in {staging, None} /\ branch' \in {branch, commit, None} /\ commit' = commit
        BY <1>5 DEF Close, Kill, Render, List, Look, PointBranch, Point, DeleteStaging, Create, github, job, vars
    <2>2. /\ pc' \in {"render", "base"} => pc \in {"render", "base"}
          /\ pc' \in Before => pc \in Before
        BY <1>5 DEF Close, Kill, Render, List, Look, PointBranch, Point, DeleteStaging, Create, Go, Break, Refused,
           Exit, job, vars
    <2> QED
        BY <1>s, <2>1, <2>2
<1>6. CASE PointStaging
    <2>1. UNCHANGED <<log, edits, late, copy, base, branch, commit>> /\ staging' \in {staging, OnMain(base)}
          /\ pc = "pointStaging" /\ pc' \in {"commit", "done"}
        BY <1>6 DEF PointStaging, Point, Go, Break, Refused, Exit
    <2>2. ~IsMade(OnMain(base))
        BY <1>t, JobCommits
    <2> QED
        BY <1>t, <2>1, <2>2 DEF ProseInv, ProseOfBase, IsMade, Tip
<1>7. CASE Commit
    <2> DEFINE c == Made(base, copy, run)
    <2>1. UNCHANGED <<log, edits, late, copy, base, branch>> /\ pc = "commit" /\ pc' \in {"lookBranch", "done"}
          /\ staging' \in {staging, c} /\ commit' \in {commit, c}
        BY <1>7 DEF Commit, Go, Break, Refused, Exit
    <2>2. IsMade(c) /\ c.base = base /\ c.prose = copy
        BY <1>t, JobCommits
    <2> HIDE DEF c
    <2>3. ~late => ProseOfBase(c) /\ ProseOfBase(staging) /\ ProseOfBase(branch) /\ ProseOfBase(commit)
        BY <1>t, <2>1, <2>2 DEF ProseInv, ProseOfBase
    <2>4. ~late' => ProseOfBase(staging)' /\ ProseOfBase(branch)' /\ ProseOfBase(commit)'
        BY <2>1, <2>3 DEF ProseOfBase, IsMade
    <2> QED
        BY <1>t, <2>1, <2>4 DEF ProseInv, Tip
<1>m. ASSUME NEW n \in DOMAIN prs, MergeOf(n), UNCHANGED <<copy, base, commit, edits, late>>, pc' \in {pc, "done"}
      PROVE  ProseInv'
    <2>1. /\ ~late => Tip(log').prose = Tip(log).prose
          /\ branch' \in {branch, None} /\ staging' = staging
        BY <1>t, <1>m, MergeMoves
    <2>2. PICK e \in Entries : log' = Append(log, e)
        BY <1>t, <1>m, MergeMoves
    <2>3. \A m \in DOMAIN log : log'[m] = log[m]
        BY <1>t, <2>2, LogGrows
    <2> QED
        BY <1>1, <1>m, <1>t, <2>1, <2>3 DEF ProseInv
<1>8. CASE Merge
    <2>1. target \in DOMAIN prs
        BY <1>8, <1>t DEF Merge, OwnInv, TypeOK
    <2>2. UNCHANGED <<copy, base, commit, edits, late>> /\ pc' = "done"
        BY <1>8 DEF Merge, Break, Refused, Exit
    <2>3. MergeOf(target) \/ UNCHANGED <<log, staging, branch>>
        BY <1>8 DEF Merge, github
    <2> QED
        BY <1>m, <1>s, <2>1, <2>2, <2>3
<1>9. CASE AutoMerge
    <2>1. PICK n \in OpenOwn : MergeOf(n)
        BY <1>9 DEF AutoMerge
    <2> QED
        BY <1>9, <1>m, <2>1 DEF AutoMerge, OpenOwn, job
<1> QED
    BY <1>2, <1>3, <1>4, <1>5, <1>6, <1>7, <1>8, <1>9 DEF Next, Script

\* The staging branch is the job's alone.
LEMMA StagingStep == IInv /\ [Next]_vars => StagingInv'
<1> SUFFICES ASSUME IInv, [Next]_vars
             PROVE  StagingInv'
    OBVIOUS
<1>t. TypeOK /\ StagingInv
    BY DEF IInv
<1>1. CASE \/ Start \/ Edit \/ AutoMerge \/ Close \/ Kill \/ Render \/ ReadBase \/ List \/ UNCHANGED vars
           \/ Create \/ Merge
    <2>1. /\ pc' \in {pc, "done", "render", "base", "list", "lookStaging", "merge"}
          /\ pc' = pc /\ pc' # "done" => UNCHANGED <<staging, base, existing>>
        BY <1>1 DEF Start, Edit, AutoMerge, MergeOf, Close, Kill, Render, ReadBase, List, Create, Merge,
           Go, Break, Refused, Exit, github, job, vars
    <2> QED
        BY <1>t, <2>1 DEF StagingInv, OnMain
<1>2. CASE Look("lookStaging", staging, "pointStaging") \/ Look("lookBranch", branch, "pointBranch")
    BY <1>2, <1>t DEF Look, Go, github, StagingInv, OnMain
<1>3. CASE PointStaging \/ PointBranch
    BY <1>3, <1>t DEF PointStaging, PointBranch, Point, Go, Break, Refused, Exit, StagingInv, OnMain
<1>4. CASE Commit
    <2>1. Made(base, copy, run) # None
        BY <1>t, JobCommits
    <2> QED
        BY <1>4, <1>t, <2>1 DEF Commit, Go, Break, Refused, Exit, StagingInv
<1>5. CASE DeleteStaging
    BY <1>5, <1>t DEF DeleteStaging, Go, Break, Refused, Exit, StagingInv
<1> QED
    BY <1>1, <1>2, <1>3, <1>4, <1>5 DEF Next, Script

\* A call is refused only because somebody else's doing disturbed the job.
LEMMA UndisturbedStep == IInv /\ [Next]_vars => UndisturbedInv'
<1> SUFFICES ASSUME IInv, [Next]_vars, ~disturbed'
             PROVE  UndisturbedInv'
    BY DEF UndisturbedInv
<1>t. /\ TypeOK /\ OwnInv /\ BranchInv /\ ProseInv /\ StagingInv /\ UndisturbedInv
      /\ disturbed \in BOOLEAN
    BY DEF IInv, TypeOK
<1>1. CASE Start
    BY <1>1 DEF Start, UndisturbedInv, Choosing
<1>2. CASE AutoMerge \/ Close \/ Kill
    BY <1>2 DEF AutoMerge, Close, Kill
<1>3. CASE UNCHANGED vars
    <2>1. OpenOwn' = OpenOwn /\ Delivered' = Delivered
        BY <1>3 DEF vars, github, job, OpenOwn, Delivered, Tip, IsMade
    <2> QED
        BY <1>3, <1>t, <2>1 DEF vars, github, job, UndisturbedInv
<1>4. CASE Edit
    <2> DEFINE e == [Tip(log) EXCEPT !.prose = edits + 1]
    <2>1. e \in Entries /\ e.report = Tip(log).report
        <3>1. edits + 1 \in Prose /\ Tip(log) \in Entries
            BY <1>4, <1>t, Basics, RefreshAssumption DEF Edit, TypeOK, Prose, RefreshAssumption
        <3> QED
            BY <3>1 DEF Entries
    <2>2. log' = Append(log, e)
        BY <1>4 DEF Edit
    <2> HIDE DEF e
    <2>3. Tip(log').report = Tip(log).report
        BY <1>t, <2>1, <2>2, LogGrows
    <2>4. UNCHANGED <<staging, branch, prs, job, disturbed>>
        BY <1>4 DEF Edit
    <2>5. OpenOwn' = OpenOwn /\ (Delivered => Delivered')
        BY <2>3, <2>4 DEF job, OpenOwn, Delivered, IsMade
    <2> QED
        BY <1>t, <2>4, <2>5 DEF job, UndisturbedInv
<1>5. CASE Render \/ ReadBase
    BY <1>5 DEF Render, ReadBase, Go, Break, Exit, UndisturbedInv, Choosing
<1>6. CASE List
    <2>1. UNCHANGED prs /\ pc' = "lookStaging" /\ (existing' = None \/ existing' \in Listed)
        BY <1>6 DEF List, Go, Break, github
    <2>2. OpenOwn' = OpenOwn /\ Listed = OpenOwn
        BY <2>1 DEF OpenOwn, Listed
    <2> QED
        BY <2>1, <2>2 DEF UndisturbedInv, Choosing
<1>7. CASE Look("lookStaging", staging, "pointStaging") \/ Look("lookBranch", branch, "pointBranch")
    <2>1. UNCHANGED <<github, existing, disturbed>>
        BY <1>7, <1>t DEF Look, Go
    <2>2. OpenOwn' = OpenOwn
        BY <2>1 DEF github, OpenOwn
    <2>3. \/ pc = "lookStaging" /\ pc' = "pointStaging" /\ found' = (staging # None)
          \/ pc = "lookBranch" /\ pc' = "pointBranch" /\ found' = (branch # None)
        BY <1>7 DEF Look, Go
    <2> QED
        BY <1>t, <2>1, <2>2, <2>3 DEF UndisturbedInv, Choosing, github
<1>8. CASE PointStaging
    <2>1. pc = "pointStaging" /\ pc' = "commit" /\ UNCHANGED <<prs, existing>> /\ ~disturbed
        BY <1>8, <1>t DEF PointStaging, Point, Go, Break, Refused, UndisturbedInv
    <2>2. OpenOwn' = OpenOwn
        BY <2>1 DEF OpenOwn
    <2> QED
        BY <1>t, <2>1, <2>2 DEF UndisturbedInv, Choosing
<1>9. CASE Commit
    <2>1. pc = "commit" /\ pc' = "lookBranch" /\ UNCHANGED <<prs, existing>> /\ ~disturbed
        BY <1>9, <1>t DEF Commit, Go, Break, Refused, StagingInv
    <2>2. OpenOwn' = OpenOwn
        BY <2>1 DEF OpenOwn
    <2> QED
        BY <1>t, <2>1, <2>2 DEF UndisturbedInv, Choosing
<1>10. CASE PointBranch
    <2>1. pc = "pointBranch" /\ pc' = "deleteStaging" /\ UNCHANGED <<prs, existing, commit>> /\ ~disturbed
          /\ branch' = commit
        BY <1>10, <1>t DEF PointBranch, Point, Go, Break, Refused, UndisturbedInv
    <2>2. OpenOwn' = OpenOwn
        BY <2>1 DEF OpenOwn
    <2> QED
        BY <1>t, <2>1, <2>2 DEF UndisturbedInv, Choosing
<1>11. CASE DeleteStaging
    <2>1. /\ pc = "deleteStaging" /\ pc' = (IF existing # None THEN "merge" ELSE "create")
          /\ target' = existing /\ UNCHANGED <<prs, existing, branch, commit>> /\ ~disturbed
        BY <1>11, <1>t DEF DeleteStaging, Go, Break, Refused, StagingInv
    <2>2. OpenOwn' = OpenOwn
        BY <2>1 DEF OpenOwn
    <2> QED
        BY <1>t, <2>1, <2>2 DEF UndisturbedInv, Choosing
<1>12. CASE Create
    <2>1. pc = "create" /\ ~disturbed /\ existing = None
        BY <1>12, <1>t DEF Create, Go, Break, Refused, StagingInv
    <2>2. OpenOwn = {} /\ branch = commit /\ branch # None
        BY <1>t, <2>1 DEF BranchInv, UndisturbedInv, AfterCommit, IsMade
    <2>3. prs' = Append(prs, Opened(TRUE)) /\ target' = Len(prs') /\ pc' = "merge" /\ UNCHANGED <<branch, commit>>
        BY <1>12, <2>2 DEF Create, Go, Break, Refused
    <2>4. OpenOwn' = {Len(prs')}
        BY <1>t, <2>2, <2>3, OpeningAdds
    <2> QED
        BY <2>2, <2>3, <2>4 DEF UndisturbedInv, Choosing
<1>13. CASE Merge
    <2>1. pc = "merge" /\ ~disturbed /\ pc' = "done" /\ UNCHANGED <<run, commit, target>>
        BY <1>13, <1>t DEF Merge, Break, Refused, Exit
    <2>2. /\ target \in OpenOwn /\ branch = commit /\ IsMade(commit) /\ commit.report = run
          /\ OpenOwn = {target}
        BY <1>t, <2>1 DEF UndisturbedInv, BranchInv, AfterCommit
    <2>3. target \in DOMAIN prs /\ prs[target].state = "open"
        BY <2>2 DEF OpenOwn
    <2>4. CASE prs' = [prs EXCEPT ![target].auto = TRUE] /\ UNCHANGED <<log, staging, branch>> /\ exit' = "0"
        <3>1. OpenOwn' = OpenOwn /\ DOMAIN prs' = DOMAIN prs /\ prs'[target].auto = TRUE
            BY <1>t, <2>3, <2>4, AutoChanges
        <3>2. Delivered'
            BY <2>1, <2>2, <2>3, <2>4, <3>1 DEF Delivered, IsMade
        <3> QED
            BY <2>1, <2>4, <3>2 DEF UndisturbedInv, Choosing
    <2>5. CASE MergeOf(target) /\ exit' = "0"
        <3>1. Tip(log').report = branch.report
            BY <1>t, <2>3, <2>5, MergeMoves
        <3>2. Delivered'
            BY <2>1, <2>2, <3>1 DEF Delivered
        <3> QED
            BY <2>1, <2>5, <3>2 DEF UndisturbedInv, Choosing
    <2> QED
        BY <1>13, <2>3, <2>4, <2>5 DEF Merge, Break, Exit
<1> QED
    BY <1>1, <1>2, <1>3, <1>4, <1>5, <1>6, <1>7, <1>8, <1>9, <1>10, <1>11, <1>12, <1>13 DEF Next, Script

-----------------------------------------------------------------------------
(* What the behaviours keep. *)

LEMMA Invariance == Spec => []IInv
<1>1. Init => IInv
    BY InitHolds
<1>2. IInv /\ [Next]_vars => IInv'
    BY TypeStep, OwnStep, BranchStep, ProseStep, StagingStep, UndisturbedStep DEF IInv
<1> QED
    BY <1>1, <1>2, PTL DEF Spec

\* The state of the repository and of the job in it is well typed.
THEOREM TypeCorrect == Spec => []TypeOK
<1>1. IInv => TypeOK
    BY DEF IInv
<1> QED
    BY <1>1, Invariance, PTL

\* However its calls fail and its jobs are killed, the script never leaves the
\* refresh branch at a commit of main under an open pull request: the one write
\* to it puts a made commit there.
THEOREM BranchIsNeverAtBase == Spec => []NeverAtBase
<1>1. IInv => NeverAtBase
    BY DEF IInv, BranchInv, NeverAtBase
<1> QED
    BY <1>1, Invariance, PTL

\* Only pull requests from this repository's own branch are queued or merged.
THEOREM OthersAreLeftAlone == Spec => []OnlyOwnMerged
<1>1. IInv => OnlyOwnMerged
    BY DEF IInv, OwnInv
<1> QED
    BY <1>1, Invariance, PTL

\* A job nothing disturbs succeeds and delivers its report, from whatever state
\* any number of earlier jobs left the branches and the pull requests in.
THEOREM UndisturbedJobDelivers == Spec => []UndisturbedDelivers
<1>1. IInv => UndisturbedDelivers
    BY DEF IInv, UndisturbedInv, UndisturbedDelivers
<1> QED
    BY <1>1, Invariance, PTL

\* The merges of any number of jobs lose no edit of the prose but one pushed
\* between a job's checkout and its reading of base_sha.
THEOREM EditsAreKept == Spec => []EditsKept
<1>1. IInv => EditsKept
    BY DEF IInv, ProseInv, EditsKept
<1> QED
    BY <1>1, Invariance, PTL

\* What the body of the pull request says, that the report is the only change,
\* holds of every merge short of such an edit: nothing else undoes prose.
THEOREM MergesChangeOnlyTheReport ==
    Spec => [][~late' /\ Tip(log').report # Tip(log).report => Tip(log').prose = Tip(log).prose]_vars
<1>1. ASSUME IInv, IInv', [Next]_vars, ~late', Tip(log').report # Tip(log).report
      PROVE  Tip(log').prose = Tip(log).prose
    <2>1. ~late
        BY <1>1 DEF IInv, TypeOK, Next, Script, Start, Edit, AutoMerge, Close, Kill, Render, ReadBase, List, Look,
           PointStaging, Commit, PointBranch, Point, DeleteStaging, Create, Merge, vars
    <2>2. CASE Edit
        <3> DEFINE e == [Tip(log) EXCEPT !.prose = edits + 1]
        <3>1. Tip(log) \in Entries /\ edits' \in Prose /\ edits' = edits + 1
            BY <1>1, <2>2, Basics DEF IInv, TypeOK, Edit, Prose
        <3>2. e \in Entries /\ e.report = Tip(log).report /\ log' = Append(log, e)
            BY <2>2, <3>1 DEF Entries, Edit
        <3> HIDE DEF e
        <3>3. Tip(log').report = Tip(log).report
            BY <1>1, <3>2, LogGrows DEF IInv
        <3> QED
            BY <1>1, <3>3
    <2>3. CASE ~Edit
        <3>1. edits' = edits
            BY <1>1, <2>3 DEF Next, Script, Start, AutoMerge, Close, Kill, Render, ReadBase, List, Look,
               PointStaging, Commit, PointBranch, Point, DeleteStaging, Create, Merge, vars
        <3> QED
            BY <1>1, <2>1, <3>1 DEF IInv, ProseInv
    <2> QED
        BY <2>2, <2>3
<1> QED
    BY <1>1, Invariance, PTL DEF Spec
=============================================================================
