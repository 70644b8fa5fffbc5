---------------------------- MODULE WorkflowFile ----------------------------
(***************************************************************************)
(* Reading a workflow or a composite action (internal/workflows).  A file  *)
(* is its first YAML document: a node is absent (missing or null), a       *)
(* scalar, a mapping of entries in file order or a sequence of items, with *)
(* aliases followed.  The reader is all or nothing: ...OK says that the    *)
(* shapes under a node are the ones it accepts, and its companion what it  *)
(* then says; a file with one shape wrong has parseError and nothing else. *)
(***************************************************************************)
EXTENDS Naturals, Sequences, FiniteSets, SequencesExt

Node(kind, value, entries, items) ==
    [kind |-> kind, value |-> value, entries |-> entries, items |-> items]

Absent == Node("absent", "", <<>>, <<>>)
Scalar(v) == Node("scalar", v, <<>>, <<>>)
Mapping(entries) == Node("mapping", "", entries, <<>>)
Sequence(items) == Node("sequence", "", <<>>, items)
Entry(k, v) == [key |-> k, value |-> v]

Keys(n) == {n.entries[i].key : i \in DOMAIN n.entries}

Lookup(n, key) ==
    LET at == SelectInSeq(n.entries, LAMBDA e : e.key = key)
    IN IF at = 0 THEN Absent ELSE n.entries[at].value

\* A mapping, or nothing, with no key written twice.
PairsOK(n) == n.kind \in {"absent", "mapping"} /\ Cardinality(Keys(n)) = Len(n.entries)

SequenceOK(n) == n.kind \in {"absent", "sequence"}

ScalarOK(n) == n.kind \in {"absent", "scalar"}

StringMapOK(n) == PairsOK(n) /\ \A i \in DOMAIN n.entries : ScalarOK(n.entries[i].value)

StringMap(n) == [k \in Keys(n) |-> Lookup(n, k).value]

ItemsOK(n) == SequenceOK(n) /\ \A i \in DOMAIN n.items : ScalarOK(n.items[i])

\* A list, of which a scalar is the one-item form; blank items are dropped.
ListOK(n) == n.kind = "scalar" \/ ItemsOK(n)

List(n) == SelectSeq(IF n.kind = "scalar" THEN <<n.value>>
                     ELSE [i \in DOMAIN n.items |-> n.items[i].value], LAMBDA v : v # "")

(***************************************************************************)
(* on:                                                                     *)
(***************************************************************************)
\* Settings that are not a mapping have no keys.
SettingsOK(n) == n.kind = "mapping" => PairsOK(n)

\* Both lists on one trigger are refused.
BranchFiltersOK(n) ==
    /\ ListOK(Lookup(n, "branches")) /\ ListOK(Lookup(n, "branches-ignore"))
    /\ ~({"branches", "branches-ignore"} \subseteq Keys(n))

BranchFilters(n) ==
    [branches |-> List(Lookup(n, "branches")), ignore |-> List(Lookup(n, "branches-ignore"))]

\* No types listed, an empty list included, is GitHub's default set.
NoTypes == {"opened", "synchronize", "reopened"}

EventTypes(n) == LET listed == ToSet(List(Lookup(n, "types"))) IN IF listed = {} THEN NoTypes ELSE listed

PullRequestOK(n) == SettingsOK(n) /\ ListOK(Lookup(n, "types")) /\ BranchFiltersOK(n)

PullRequest(n) == [types |-> EventTypes(n), filter |-> BranchFilters(n)]

TagKeys == {"tags", "tags-ignore"}

PushOK(n) == /\ SettingsOK(n) /\ BranchFiltersOK(n)
             /\ \A k \in TagKeys : ListOK(Lookup(n, k))

\* Of the tag filters only a non-null one's presence counts, empty included.
Push(n) == [filter |-> BranchFilters(n), tags |-> \E k \in TagKeys : Lookup(n, k).kind # "absent"]

EventsOK(n) ==
    CASE n.kind = "sequence" -> ItemsOK(n)
      [] n.kind = "mapping" ->
           /\ PairsOK(n)
           /\ \A k \in {"pull_request", "pull_request_target"} : PullRequestOK(Lookup(n, k))
           /\ PushOK(Lookup(n, "push"))
      [] OTHER -> TRUE

\* Only the map form gives a trigger settings.
EventNames(n) ==
    (CASE n.kind = "scalar" -> {n.value}
       [] n.kind = "sequence" -> {n.items[i].value : i \in DOMAIN n.items}
       [] OTHER -> Keys(n)) \ {""}

(***************************************************************************)
(* Settings, jobs and steps.                                               *)
(***************************************************************************)
ConcurrencyOK(n) == n.kind = "scalar" \/ (PairsOK(n) /\ ScalarOK(Lookup(n, "cancel-in-progress")))

\* Concurrency that is one word names a group, and cannot cancel.
Concurrency(n) == Lookup(n, "cancel-in-progress").value

PermissionsOK(n) == n.kind = "scalar" \/ StringMapOK(n)

\* {} grants nothing and is set.
Permissions(n) ==
    [set |-> n.kind # "absent", all |-> n.value,
     actions |-> Lookup(n, "actions").value]

IsExpression(v) == v \in {"${{ }}"}

\* The whole of a step's env as one expression is a valid step with no env.
StepEnvOK(n) == IF n.kind = "scalar" THEN IsExpression(n.value) ELSE StringMapOK(n)

\* A run step's env and if are never read.
StepOK(s) ==
    /\ PairsOK(s) /\ ScalarOK(Lookup(s, "uses")) /\ StringMapOK(Lookup(s, "with"))
    /\ Lookup(s, "uses").value # "" => StepEnvOK(Lookup(s, "env")) /\ ScalarOK(Lookup(s, "if"))
    /\ ScalarOK(Lookup(s, "run"))

StepsOK(n) == SequenceOK(n) /\ \A i \in DOMAIN n.items : StepOK(n.items[i])

StepUse(s) == [action |-> Lookup(s, "uses").value, cond |-> Lookup(s, "if").value,
               with |-> StringMap(Lookup(s, "with")), env |-> StringMap(Lookup(s, "env"))]

Uses(n) == LET steps == SelectSeq(n.items, LAMBDA s : Lookup(s, "uses").value # "")
           IN [i \in DOMAIN steps |-> StepUse(steps[i])]

\* A run step holds the command that refreshes flake.lock.
FlakeUpdate(n) == \E i \in DOMAIN n.items : Lookup(n.items[i], "run").value = "nix flake update"

JobOK(n) ==
    /\ PairsOK(n)
    /\ \A k \in {"uses", "if", "timeout-minutes"} : ScalarOK(Lookup(n, k))
    /\ ConcurrencyOK(Lookup(n, "concurrency")) /\ PermissionsOK(Lookup(n, "permissions"))
    /\ StepsOK(Lookup(n, "steps"))

Job(id, n) ==
    [id |-> id, reusable |-> Lookup(n, "uses").value # "", cond |-> Lookup(n, "if").value,
     timeout |-> Lookup(n, "timeout-minutes").value, cancel |-> Concurrency(Lookup(n, "concurrency")),
     permissions |-> Permissions(Lookup(n, "permissions")),
     uses |-> Uses(Lookup(n, "steps")), flakeUpdate |-> FlakeUpdate(Lookup(n, "steps"))]

(***************************************************************************)
(* Files.                                                                  *)
(***************************************************************************)
DocumentOK(doc) == doc.kind = "mapping" /\ PairsOK(doc)

WorkflowOK(doc) ==
    /\ DocumentOK(doc) /\ EventsOK(Lookup(doc, "on"))
    /\ ConcurrencyOK(Lookup(doc, "concurrency")) /\ PermissionsOK(Lookup(doc, "permissions"))
    /\ PairsOK(Lookup(doc, "jobs"))
    /\ \A i \in DOMAIN Lookup(doc, "jobs").entries : JobOK(Lookup(doc, "jobs").entries[i].value)

Workflow(path, doc) ==
    LET on == Lookup(doc, "on")
        jobs == Lookup(doc, "jobs").entries
    IN [path |-> path, parseError |-> FALSE, events |-> EventNames(on),
        pr |-> PullRequest(Lookup(on, "pull_request")),
        prt |-> PullRequest(Lookup(on, "pull_request_target")),
        push |-> Push(Lookup(on, "push")),
        cancel |-> Concurrency(Lookup(doc, "concurrency")),
        permissions |-> Permissions(Lookup(doc, "permissions")),
        jobs |-> [i \in DOMAIN jobs |-> Job(jobs[i].key, jobs[i].value)]]

\* Nothing but its path is known of a file that could not be read.
ParseWorkflow(path, doc) ==
    IF WorkflowOK(doc) THEN Workflow(path, doc)
    ELSE [Workflow(path, Absent) EXCEPT !.parseError = TRUE]

\* A JavaScript or Docker action has no steps, and is no error.
CompositeOK(doc) ==
    /\ DocumentOK(doc) /\ PairsOK(Lookup(doc, "runs"))
    /\ StepsOK(Lookup(Lookup(doc, "runs"), "steps"))

ParseComposite(path, doc) ==
    LET steps == IF CompositeOK(doc) THEN Lookup(Lookup(doc, "runs"), "steps") ELSE Absent
    IN [path |-> path, parseError |-> ~CompositeOK(doc),
        uses |-> Uses(steps), flakeUpdate |-> FlakeUpdate(steps)]
=============================================================================
