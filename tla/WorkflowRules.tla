--------------------------- MODULE WorkflowRules ---------------------------
(***************************************************************************)
(* What a repository's workflow files are judged for: when they run        *)
(* (internal/rules/triggers.go), whether they cancel superseded runs and   *)
(* bound their jobs (efficiency.go), which refs they save caches under     *)
(* (cachesave.go), and how long a pull request waits for them              *)
(* (citiming.go).  r is one repository as audit.json records it; its       *)
(* workflows are in path order, and a workflow's path is its file name.    *)
(***************************************************************************)
EXTENDS Filters, WorkflowFile, Integers, FiniteSets, TLC

CONSTANTS Letters,     \* a branch or a filter pattern, as its characters
          ActionRef,   \* uses: -> [name, pinned, dir]; dir is "" unless it is local
          Expression   \* if: or an input -> [terms, or, paren]

(***************************************************************************)
(* What a rule saw: whether it passed, whether it applies (unknown: it     *)
(* does not), and the value the cell shows, as a set of entries.           *)
(***************************************************************************)
Observed(ok, value) == [ok |-> ok, unknown |-> FALSE, pending |-> FALSE, value |-> value]

NotApplicable == [Observed(FALSE, {}) EXCEPT !.unknown = TRUE]

\* A cell that passes exactly when there is nothing to name.
NoProblems(problems) == Observed(problems = {}, problems)

Unreadable(paths) == {<<"unreadable", p>> : p \in paths}

\* A cell that counts what its list names.
CountOf(missing, judged) ==
    IF ~judged THEN NotApplicable
    ELSE Observed(missing = {}, IF missing = {} THEN {} ELSE {<<"count", ToString(Cardinality(missing))>>})

(***************************************************************************)
(* Triggers.                                                               *)
(***************************************************************************)
Admitted(filter, branch) ==
    LET letters(ps) == [i \in DOMAIN ps |-> Letters[ps[i]]]
    IN BranchAdmits(letters(filter.branches), letters(filter.ignore), Letters[branch])

RunsOnSynchronize(w, base) ==
    \E e \in {[on |-> "pull_request", trigger |-> w.pr], [on |-> "pull_request_target", trigger |-> w.prt]} :
       /\ e.on \in w.events /\ "synchronize" \in e.trigger.types
       /\ Admitted(e.trigger.filter, base)

\* A push whose only filter is on tags never runs for a branch.
PushAdmits(w, branch) ==
    LET f == w.push.filter
    IN /\ "push" \in w.events
       /\ ~(w.push.tags /\ f.branches = <<>> /\ f.ignore = <<>>)
       /\ Admitted(f, branch)

IsMergeGate(w) == w.path = "merge-gate.yml"

Files(r) == {r.workflows[i] : i \in DOMAIN r.workflows}

\* One workflow that runs passes; failing that, the first unreadable one is
\* named, since it may be the one that does.
ObserveTrigger(r, runs) ==
    LET real == {i \in DOMAIN r.workflows : ~IsMergeGate(r.workflows[i])}
        unreadable == {i \in real : r.workflows[i].parseError}
        first == CHOOSE i \in unreadable : \A k \in unreadable : i <= k
    IN IF \E i \in real \ unreadable : r.workflows[i] \in runs THEN Observed(TRUE, {})
       ELSE Observed(FALSE, IF unreadable = {} THEN {} ELSE Unreadable({r.workflows[first].path}))

CIOnPR(r) == ObserveTrigger(r, {w \in Files(r) : RunsOnSynchronize(w, r.defaultBranch)})

CIOnPush(r) ==
    ObserveTrigger(r, {w \in Files(r) : /\ RunsOnSynchronize(w, r.defaultBranch)
                                       /\ PushAdmits(w, r.defaultBranch)})

(***************************************************************************)
(* Superseded runs and job timeouts.                                       *)
(***************************************************************************)
UnreadableFiles(r) == {w.path : w \in {f \in Files(r) : f.parseError}}

ReadFiles(r) == {w \in Files(r) : ~w.parseError}

Jobs(w) == {w.jobs[i] : i \in DOMAIN w.jobs}

\* Set and not false, literally or as an expression that is only that word.
CancelSet(word) == word \notin {"", "false", "FALSE", "${{ false }}"}

CancelsSuperseded(w) ==
    CancelSet(w.cancel) \/ (w.jobs # <<>> /\ \A j \in Jobs(w) : CancelSet(j.cancel))

CancelMissing(r) ==
    LET runs == {w \in ReadFiles(r) : RunsOnSynchronize(w, r.defaultBranch)}
    IN [missing |-> Unreadable(UnreadableFiles(r)) \cup {<<w.path>> : w \in {f \in runs : ~CancelsSuperseded(f)}},
        judged |-> UnreadableFiles(r) # {} \/ runs # {}]

CancelSuperseded(r) == CountOf(CancelMissing(r).missing, CancelMissing(r).judged)

\* A job that calls a reusable workflow has no run time of its own.
TimeoutMissing(r) ==
    LET own == UNION {{<<w.path, j>> : j \in {k \in Jobs(w) : ~k.reusable}} : w \in ReadFiles(r)}
    IN [missing |-> Unreadable(UnreadableFiles(r)) \cup {<<o[1], o[2].id>> : o \in {x \in own : x[2].timeout = ""}},
        judged |-> UnreadableFiles(r) # {} \/ own # {}]

JobTimeouts(r) == CountOf(TimeoutMissing(r).missing, TimeoutMissing(r).judged)

\* The list under a table: the repositories whose cell failed, or is shown as
\* info with something to name.
DetailLists(repos, Verdict(_), Items(_)) ==
    {r \in repos : Verdict(r) = "fail" \/ (Verdict(r) = "info" /\ Items(r) # {})}

(***************************************************************************)
(* Caches saved off the default branch.                                    *)
(***************************************************************************)
UsesAction(uses, name) == ActionRef[uses].pinned /\ ActionRef[uses].name = name

\* The composite a local uses: names, action.yml before action.yaml.
Composites(r, uses) ==
    LET dir == ActionRef[uses].dir
        at(name) == {a \in r.actions : dir # "" /\ a.path = <<dir, name>>}
    IN IF at("action.yml") # {} THEN at("action.yml") ELSE at("action.yaml")

CacheNix == "nix-community/cache-nix-action"

\* The input that turns an action's save off ("" when only an if: can), and
\* whether it saves with that input left out.
CacheSavers ==
    [name \in {"actions/cache", "actions/cache/save", "determinatesystems/magic-nix-cache-action"} |->
       [input |-> "", whenUnset |-> TRUE]]
    @@ (CacheNix :> [input |-> "save", whenUnset |-> TRUE])
    @@ ("actions/setup-go" :> [input |-> "cache", whenUnset |-> TRUE])
    @@ [name \in {"actions/setup-node", "actions/setup-python"} |-> [input |-> "cache", whenUnset |-> FALSE]]

With(u, key) == IF key \in DOMAIN u.with THEN u.with[key] ELSE ""

\* An && chain with one term that holds on the default branch alone.
GatedToDefault(e, branch) ==
    /\ branch # "" /\ ~Expression[e].or /\ ~Expression[e].paren
    /\ \E t \in Expression[e].terms :
         t \in {[field |-> "ref", literal |-> "refs/heads/" \o branch], [field |-> "ref_name", literal |-> branch]}

\* A place is the steps of a job or of a composite it leads to: in which file,
\* under which conditions, and through which composites.
StartOf(w, j) == [path |-> w.path, uses |-> j.uses, conds |-> {j.cond}, seen |-> {}]

\* The composites the steps of a place use that the way to it has not been through.
Used(r, x, u) == {ca \in Composites(r, u.action) : ca.path \notin x.seen}

Inside(r, x) ==
    UNION {{[path |-> ca.path[1], uses |-> ca.uses, conds |-> x.conds \cup {u.cond}, seen |-> x.seen \cup {ca.path}] :
              ca \in {a \in Used(r, x, u) : ~a.parseError}} : u \in ToSet(x.uses)}

\* Composites are followed into, once per path through them.
Places(r, w, j) ==
    LET deepest == Cardinality({ca.path : ca \in r.actions})
        at[depth \in 0..deepest] ==
          IF depth = 0 THEN {StartOf(w, j)} ELSE UNION {Inside(r, x) : x \in at[depth - 1]}
    IN UNION {at[depth] : depth \in 0..deepest}

\* What a step that saves a cache is, unless its input turns that off: gated
\* when it, or something that encloses it, is.
CacheStep(r, x, u) ==
    LET saver == CacheSavers[ActionRef[u.action].name]
        v == With(u, saver.input)
        gates == x.conds \cup {u.cond} \cup IF v \in {"", "true"} THEN {} ELSE {v}
    IN IF v = "false" \/ (v = "" /\ ~saver.whenUnset) THEN {}
       ELSE {[path |-> x.path, kind |-> IF \E e \in gates : GatedToDefault(e, r.defaultBranch)
                                          THEN "gated" ELSE "saves"]}

StepsAt(r, x) ==
    LET found(u) ==
          IF Composites(r, u.action) # {}
            THEN {[path |-> ca.path[1], kind |-> "unreadable"] : ca \in {a \in Used(r, x, u) : a.parseError}}
          ELSE IF ActionRef[u.action].pinned /\ ActionRef[u.action].name \in DOMAIN CacheSavers
            THEN CacheStep(r, x, u) ELSE {}
    IN UNION {found(u) : u \in ToSet(x.uses)}

\* Every cache step of job j of file w, with the file it is in, and every
\* composite on the way that could not be read.
CacheSteps(r, w, j) == UNION {StepsAt(r, x) : x \in Places(r, w, j)}

\* Every trigger runs it on the default branch alone.
DefaultBranchOnly(w, branch) ==
    /\ w.events # {} /\ w.events \subseteq {"schedule", "push"}
    /\ "push" \in w.events =>
         ~w.push.tags /\ w.push.filter.ignore = <<>> /\ w.push.filter.branches = <<branch>>

CacheSaveDefaultBranch(r) ==
    LET off == {w \in ReadFiles(r) : ~DefaultBranchOnly(w, r.defaultBranch)}
        steps == UNION {UNION {CacheSteps(r, w, j) : j \in Jobs(w)} : w \in off}
        unreadable == UnreadableFiles(r) \cup {s.path : s \in {x \in steps : x.kind = "unreadable"}}
        saving == {s.path : s \in {x \in steps : x.kind = "saves"}}
    IN IF unreadable = {} /\ steps = {} THEN NotApplicable
       ELSE NoProblems({<<"saves off the default branch in", p>> : p \in saving} \cup Unreadable(unreadable))

(***************************************************************************)
(* How long a pull request waits.  A CI commit is [wait, complete, bot,    *)
(* merged, jobs], jobs a sequence of [label, seconds].                     *)
(***************************************************************************)
SampleSize == 5

MeanSeconds(total, n) == IF n = 0 THEN 0 ELSE (total + n \div 2) \div n

Total(s, Of(_)) == FoldSeq(LAMBDA c, acc : Of(c) + acc, 0, s)

Sampled(commits) == SubSeq(commits, 1, IF Len(commits) < SampleSize THEN Len(commits) ELSE SampleSize)

\* The latest merged pull requests whose runs finished, no bot's among them:
\* the collector recorded them in another order.
PullRequestSample(ci) ==
    LET honest == SelectSeq(ci.pullRequests, LAMBDA c : c.complete /\ ~c.bot)
    IN Sampled(SortSeq(honest, LAMBDA a, b : a.merged > b.merged))

MainSample(ci) == Sampled(SelectSeq(ci.defaultBranch, LAMBDA c : c.complete))

MeanWait(commits) == MeanSeconds(Total(commits, LAMBDA c : c.wait), Len(commits))

\* The highest mean among the labels; a job of no seconds was skipped.  "" when
\* no job ran.
SlowestJob(commits) ==
    LET ran == SelectSeq(FlattenSeq([i \in DOMAIN commits |-> commits[i].jobs]), LAMBDA j : j.seconds # 0)
        of(l) == SelectSeq(ran, LAMBDA j : j.label = l)
        mean(l) == MeanSeconds(Total(of(l), LAMBDA j : j.seconds), Len(of(l)))
        labels == {ran[i].label : i \in DOMAIN ran}
    IN {[label |-> l, mean |-> mean(l)] : l \in {x \in labels : \A y \in labels : mean(y) <= mean(x)}}

CITimingLine(r) ==
    LET prs == PullRequestSample(r.ci)
        main == MainSample(r.ci)
    IN [listed |-> prs # <<>> \/ main # <<>>, hasPR |-> prs # <<>>, hasMain |-> main # <<>>,
        pr |-> MeanWait(prs), main |-> MeanWait(main), slowest |-> SlowestJob(prs \o main)]
=============================================================================
