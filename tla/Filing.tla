------------------------------- MODULE Filing -------------------------------
(* The jobs that file what a scheduled run found as pull requests: the fuzz   *)
(* job one per crasher (.ci/fuzz-pull-request), the gremlins job one for a    *)
(* version bump (.ci/gremlins-pull-request).  A branch marks what is filed,   *)
(* and is made before its pull request.  Jobs of one workflow follow one      *)
(* another; the two workflows share nothing but main, so here all do.         *)
EXTENDS Integers, Sequences, FiniteSets, SequencesExt

CONSTANTS
    Crashers,  \* inputs that fail a fuzz target, by hash
    Bumps,     \* gremlins versions
    MaxRuns,   \* bound: jobs
    MaxPush,   \* bound: pushes to main by others
    None

Items == Crashers \cup Bumps

\* A branch: the commit of main it starts at, and the input on it, if any.
Branches == [base : Nat, file : Items \cup {None}]

ASSUME FilingAssumption ==
    /\ Crashers \cap Bumps = {}
    /\ None \notin Items \cup Branches
    /\ IsFiniteSet(Crashers)
    /\ MaxRuns \in Nat /\ MaxPush \in Nat

VARIABLES
    tip,        \* commits on main
    merged,     \* items main carries
    branch,     \* item -> its branch, or None
    pr,         \* item -> its latest pull request: "none", "open", "closed", "merged"
    auto,       \* items whose merge is queued
    pushes,     \* pushes so far
    run,        \* the number of the latest job
    pc,         \* the step it is at; "done" between jobs
    todo,       \* what it has left to file, the one in hand first
    base,       \* base_sha
    rc,         \* the status it is going to return
    exit,       \* its exit status; "none" before, "killed" when it had no say
    \* History.
    found,      \* what this job found
    had,        \* items whose branch was there when it began
    marked,     \* items whose branch it made
    ever,       \* items a pull request was ever opened for
    disturbed   \* something failed, or somebody touched an item, during this job

github == <<tip, merged, branch, pr, auto, pushes>>
history == <<found, had, marked, ever>>
vars == <<github, run, pc, todo, base, rc, exit, history, disturbed>>

-----------------------------------------------------------------------------

Init ==
    /\ tip = 1 /\ merged = {} /\ auto = {} /\ pushes = 0
    /\ branch = [i \in Items |-> None] /\ pr = [i \in Items |-> "none"]
    /\ run = 0 /\ pc = "done" /\ todo = <<>> /\ base = 1 /\ rc = "0" /\ exit = "none"
    /\ found = {} /\ had = {} /\ marked = {} /\ ever = {} /\ disturbed = FALSE

\* The item in hand.
Item == Head(todo)

IsBump == Item \in Bumps

\* A job that found something: inputs main does not have yet, or a version.
Start ==
    /\ pc = "done" /\ run < MaxRuns
    /\ run' = run + 1
    /\ found' \in ((SUBSET (Crashers \ merged)) \ {{}}) \cup {{v} : v \in Bumps \ merged}
    /\ todo' = SetToSeq(found')
    /\ pc' = IF found' \subseteq Bumps THEN "look" ELSE "base"
    /\ rc' = "0" /\ exit' = "none" /\ disturbed' = FALSE
    /\ had' = {i \in Items : branch[i] # None} /\ marked' = {}
    /\ UNCHANGED <<github, base, ever>>

\* Somebody pushes to main.
Push == /\ pushes < MaxPush
        /\ pushes' = pushes + 1 /\ tip' = tip + 1
        /\ UNCHANGED <<merged, branch, pr, auto, run, pc, todo, base, rc, exit, history, disturbed>>

\* A queued merge fires, or the owner merges a crasher with its fix.
MergePR(i) ==
    /\ pr[i] = "open" /\ pr' = [pr EXCEPT ![i] = "merged"]
    /\ merged' = merged \cup {i} /\ auto' = auto \ {i} /\ tip' = tip + 1
    /\ disturbed' = TRUE
    /\ UNCHANGED <<branch, pushes, run, pc, todo, base, rc, exit, history>>

\* The owner closes a pull request.
Close(i) ==
    /\ pr[i] = "open" /\ pr' = [pr EXCEPT ![i] = "closed"]
    /\ auto' = auto \ {i} /\ disturbed' = TRUE
    /\ UNCHANGED <<tip, merged, branch, pushes, run, pc, todo, base, rc, exit, history>>

\* Or deletes the branch of one that is over.
Delete(i) ==
    /\ branch[i] # None /\ pr[i] \in {"closed", "merged"}
    /\ branch' = [branch EXCEPT ![i] = None] /\ disturbed' = TRUE
    /\ UNCHANGED <<tip, merged, pr, auto, pushes, run, pc, todo, base, rc, exit, history>>

\* The job's time is up.
Kill == /\ pc # "done"
        /\ pc' = "done" /\ exit' = "killed" /\ disturbed' = TRUE
        /\ UNCHANGED <<github, run, todo, base, rc, history>>

-----------------------------------------------------------------------------
(* How a script goes on. *)

Go(step) == pc' = step /\ UNCHANGED <<todo, rc, exit>>

Exit(code) == pc' = "done" /\ exit' = code /\ UNCHANGED <<todo, rc>>

\* Mutant: what file_crasher returned is not looked at.
FinishUnchecked(status) ==
    /\ todo' = Tail(todo) /\ UNCHANGED rc
    /\ IF Len(todo) = 1 THEN pc' = "done" /\ exit' = rc ELSE pc' = "look" /\ UNCHANGED exit

\* file_crasher returns: `|| rc=1`, and on to the next.
Finish(status) ==
    /\ todo' = Tail(todo)
    /\ rc' = IF status = "0" THEN rc ELSE "1"
    /\ IF Len(todo) = 1 THEN pc' = "done" /\ exit' = rc' ELSE pc' = "look" /\ UNCHANGED exit

\* Mutant: errexit is off for the bump as well.
FailOn(step) == Go(step)

\* A failed call ends the gremlins script.  In file_crasher errexit is off,
\* because the function is called on the left of `||`: it goes on.
FailTo(step) == IF IsBump THEN Exit("1") ELSE Go(step)

\* The answer of a call that took effect may be lost.
Lost(step) == FailTo(step) /\ disturbed' = TRUE
Sure(step) == Go(step) /\ UNCHANGED disturbed
Refused(step) == FailTo(step) /\ UNCHANGED disturbed

-----------------------------------------------------------------------------
(* The calls. *)

ReadBase ==
    /\ pc = "base"
    /\ \/ base' = tip /\ Sure(IF IsBump THEN "post" ELSE "look")
       \/ Exit("1") /\ disturbed' = TRUE /\ UNCHANGED base
    /\ UNCHANGED <<github, run, history>>

\* Is the branch there?  A call that fails reads as no.
Look ==
    /\ pc = "look"
    /\ \/ branch[Item] # None /\ Finish("0") /\ UNCHANGED disturbed
       \/ branch[Item] = None /\ Sure(IF IsBump THEN "base" ELSE "post")
       \/ Go(IF IsBump THEN "base" ELSE "post") /\ disturbed' = TRUE
    /\ UNCHANGED <<github, run, base, history>>

\* Mutant: the branch is pointed at the base whether it is there or not.
PostForced ==
    /\ pc = "post"
    /\ branch' = [branch EXCEPT ![Item] = [base |-> base, file |-> None]]
    /\ marked' = marked \cup {Item}
    /\ Sure("commit") \/ Lost("commit")
    /\ UNCHANGED <<tip, merged, pr, auto, pushes, run, base, found, had, ever>>

\* POST makes the branch, and is refused when there is one.
Post ==
    /\ pc = "post"
    /\ \/ /\ branch[Item] = None
          /\ branch' = [branch EXCEPT ![Item] = [base |-> base, file |-> None]]
          /\ marked' = marked \cup {Item}
          /\ Sure("commit") \/ Lost("commit")
       \/ branch[Item] # None /\ Refused("commit") /\ UNCHANGED <<branch, marked>>
       \/ Lost("commit") /\ UNCHANGED <<branch, marked>>
    /\ UNCHANGED <<tip, merged, pr, auto, pushes, run, base, found, had, ever>>

\* createCommitOnBranch, at expectedHeadOid alone.  Preparing its body can fail too.
Commit ==
    /\ pc = "commit"
    /\ \/ /\ branch[Item] = [base |-> base, file |-> None]
          /\ branch' = [branch EXCEPT ![Item].file = Item]
          /\ Sure("create") \/ Lost("create")
       \/ branch[Item] # [base |-> base, file |-> None] /\ Refused("create") /\ UNCHANGED branch
       \/ Lost("create") /\ UNCHANGED branch
    /\ UNCHANGED <<tip, merged, pr, auto, pushes, run, base, history>>

\* What gh pr create asks for: a branch with something on it, no open pull request.
Creatable(i) == branch[i] # None /\ branch[i].file # None /\ pr[i] # "open"

\* The script's last word on a crasher; the bump's merge is still to come.
Created == IF IsBump THEN Go("merge") ELSE Finish("0")
NotCreated == IF IsBump THEN Exit("1") ELSE Finish("1")

Create ==
    /\ pc = "create"
    /\ \/ /\ Creatable(Item)
          /\ pr' = [pr EXCEPT ![Item] = "open"] /\ ever' = ever \cup {Item}
          /\ \/ Created /\ UNCHANGED disturbed
             \/ NotCreated /\ disturbed' = TRUE
       \/ ~Creatable(Item) /\ NotCreated /\ UNCHANGED <<pr, ever, disturbed>>
       \/ NotCreated /\ disturbed' = TRUE /\ UNCHANGED <<pr, ever>>
    /\ UNCHANGED <<tip, merged, branch, auto, pushes, run, base, found, had, marked>>

\* Mutant: the bump is left for somebody to merge.
MergeLeft ==
    /\ pc = "merge"
    /\ Exit("0") /\ UNCHANGED <<disturbed, auto>>
    /\ UNCHANGED <<tip, merged, branch, pr, pushes, run, base, history>>

\* enable_auto_merge: queued, or merged at once when the checks have reported.
Merge ==
    /\ pc = "merge"
    /\ \/ /\ pr[Item] = "open" /\ auto' = auto \cup {Item}
          /\ UNCHANGED <<tip, merged, pr>>
          /\ (Exit("0") /\ UNCHANGED disturbed) \/ (Exit("1") /\ disturbed' = TRUE)
       \/ /\ pr[Item] = "open" /\ pr' = [pr EXCEPT ![Item] = "merged"]
          /\ merged' = merged \cup {Item} /\ tip' = tip + 1 /\ UNCHANGED auto
          /\ (Exit("0") /\ UNCHANGED disturbed) \/ (Exit("1") /\ disturbed' = TRUE)
       \/ /\ pr[Item] = "merged" /\ Exit("0") /\ UNCHANGED <<tip, merged, pr, auto, disturbed>>
       \/ /\ Exit("1") /\ disturbed' = TRUE /\ UNCHANGED <<tip, merged, pr, auto>>
    /\ UNCHANGED <<branch, pushes, run, base, history>>

Script == ReadBase \/ Look \/ Post \/ Commit \/ Create \/ Merge

Next ==
    \/ Start \/ Push \/ Kill \/ Script
    \/ \E i \in Items : MergePR(i) \/ Close(i) \/ Delete(i)

Spec == Init /\ [][Next]_vars

-----------------------------------------------------------------------------
(* Properties. *)

TypeOK ==
    /\ tip \in Nat /\ pushes \in 0 .. MaxPush /\ run \in 0 .. MaxRuns /\ base \in Nat
    /\ merged \subseteq Items /\ auto \subseteq Items
    /\ branch \in [Items -> Branches \cup {None}]
    /\ pr \in [Items -> {"none", "open", "closed", "merged"}]
    /\ pc \in {"base", "look", "post", "commit", "create", "merge", "done"}
    /\ todo \in Seq(Items) /\ (pc # "done" => todo # <<>>)
    /\ pc = "merge" => IsBump
    /\ rc \in {"0", "1"} /\ exit \in {"none", "0", "1", "killed"}
    /\ found \subseteq Items /\ had \subseteq Items /\ marked \subseteq Items /\ ever \subseteq Items
    /\ disturbed \in BOOLEAN

\* Nothing moves the branch of an open pull request: not a later run that finds
\* the same input, not one whose look at the branch failed, on whatever base.
NotClobbered ==
    [][\A i \in Items : pr[i] = "open" => branch'[i] = branch[i]]_vars

\* A bump's pull request is opened only by the run that made its branch: one the
\* owner closed is not filed again behind a look that failed.
BumpFiledByItsMaker ==
    [][\A v \in Bumps : pr[v] # "open" /\ pr'[v] = "open" => v \in marked]_vars

\* Status 0: whatever this run found was opened as a pull request at some time,
\* or had its branch before the run began.
ZeroTells == pc = "done" /\ exit = "0" => \A i \in found : i \in ever \cup had

\* A run nothing disturbs succeeds, and what had no branch before it is now an
\* open pull request with that input on it; a bump is merged or queued.
UndisturbedFiles ==
    pc = "done" /\ run # 0 /\ ~disturbed =>
        /\ exit = "0"
        /\ \A i \in found \ had :
              /\ branch[i] # None /\ branch[i].file = i
              /\ i \in Crashers => pr[i] = "open"
              /\ i \in Bumps => pr[i] = "merged" \/ (pr[i] = "open" /\ i \in auto)

\* As the scripts' exit codes have it: 0 is every new crasher filed, the bump filed.
ZeroIsFiled == pc = "done" /\ exit = "0" => found \subseteq ever
=============================================================================
