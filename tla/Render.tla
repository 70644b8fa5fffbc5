------------------------------- MODULE Render -------------------------------
(* One working directory and the render runs made in it, one after another:   *)
(* runRender loads the configuration, reads GitHub (prepare, collect), splices *)
(* the report into README.md and hands both files to WriteFiles.  A run can   *)
(* fail, be interrupted or be killed at every step, and the owner edits       *)
(* README.md meanwhile.                                                       *)
EXTENDS Integers

CONSTANTS
    MaxRuns,   \* bound: renders made
    MaxEdits   \* bound: edits the owner makes to README.md

ASSUME RenderAssumption == MaxRuns \in Nat /\ MaxEdits \in Nat

VARIABLES
    run,        \* the number of the latest run
    pc,         \* the step it is at; "done" between runs
    signalled,  \* its context is done
    call,       \* its call to GitHub: "none", "live", or "doomed" from the start
    copy,       \* README.md as it was read
    spliced,    \* the README it is going to write
    temps,      \* its temp files: {}, or some of "README.md", "audit.json"
    exit,       \* its exit status; "none" before, "killed" when it had no say
    readme,     \* README.md: the edit its prose is from, the run its block is from
    json,       \* audit.json: the run it is from
    edits,      \* edits made so far
    \* History.
    found,      \* the runs README.md and audit.json were from when this run began
    failedAt,   \* the step this run failed at, or "none"
    early,      \* the signal came before the repositories were asked for
    late        \* an edit fell between a run's reading README.md and its end

vars == <<run, pc, signalled, call, copy, spliced, temps, exit, readme, json, edits,
          found, failedAt, early, late>>

-----------------------------------------------------------------------------

\* Mutant: README.md is read first, before GitHub.
FollowingReadFirst ==
    [load |-> "read", read |-> "viewer", viewer |-> "discover", discover |-> "compare",
     compare |-> "collect", collect |-> "validate", validate |-> "marketplace",
     marketplace |-> "block", block |-> "splice", splice |-> "stageReadme",
     stageReadme |-> "stageJson", stageJson |-> "commitJson",
     commitJson |-> "commitReadme", commitReadme |-> "cleanup"]

\* Mutant: the README a reader sees goes first.
FollowingReadmeFirst ==
    [load |-> "viewer", viewer |-> "discover", discover |-> "compare",
     compare |-> "collect", collect |-> "validate", validate |-> "marketplace",
     marketplace |-> "block", block |-> "read", read |-> "splice",
     splice |-> "stageReadme", stageReadme |-> "stageJson", stageJson |-> "commitReadme",
     commitReadme |-> "commitJson", commitJson |-> "cleanup"]

\* The steps of a render, in the order of the code.
Following ==
    [load |-> "viewer", viewer |-> "discover", discover |-> "compare",
     compare |-> "collect", collect |-> "validate", validate |-> "marketplace",
     marketplace |-> "block", block |-> "read", read |-> "splice",
     splice |-> "stageReadme", stageReadme |-> "stageJson", stageJson |-> "commitJson",
     commitJson |-> "commitReadme", commitReadme |-> "cleanup"]

Steps == DOMAIN Following

\* The steps that talk to GitHub.  The marketplace is one repos.toml may leave out.
Calls == {"viewer", "discover", "collect", "marketplace"}

\* The steps that only compute, and can only fail or pass: config.Load and
\* ValidateOffline, Coverage, rules.Validate, Evaluate and Block.
Checks == {"load", "compare", "validate", "block"}

\* From reading README.md to replacing it.
Window == {"splice", "stageReadme", "stageJson", "commitJson", "commitReadme"}

-----------------------------------------------------------------------------

Init ==
    /\ run = 0 /\ pc = "done" /\ signalled = FALSE /\ call = "none"
    /\ copy = [prose |-> 0, report |-> 0] /\ spliced = copy
    /\ temps = {} /\ exit = "none"
    /\ readme = [prose |-> 0, report |-> 0] /\ json = 0
    /\ edits = 0
    /\ found = <<0, 0>> /\ failedAt = "none" /\ early = FALSE /\ late = FALSE

\* A run begins; what a killed one left behind stays where it is.
Start == /\ pc = "done" /\ run < MaxRuns
         /\ run' = run + 1
         /\ pc' = "load"
         /\ signalled' = FALSE /\ exit' = "none" /\ temps' = {}
         /\ found' = <<readme.report, json>> /\ failedAt' = "none" /\ early' = FALSE
         /\ UNCHANGED <<call, copy, spliced, readme, json, edits, late>>

\* The owner edits the prose around the block.
Edit == /\ edits < MaxEdits
        /\ edits' = edits + 1
        /\ readme' = [readme EXCEPT !.prose = edits + 1]
        /\ late' = (late \/ pc \in Window)
        /\ UNCHANGED <<run, pc, signalled, call, copy, spliced, temps, exit, json,
                       found, failedAt, early>>

\* The first SIGINT or SIGTERM ends the context.
Signal == /\ pc # "done" /\ ~signalled
          /\ signalled' = TRUE
          /\ early' = \/ pc \in {"load", "viewer", "discover", "compare"}
                      \/ pc = "collect" /\ call = "none"
          /\ UNCHANGED <<run, pc, call, copy, spliced, temps, exit, readme, json, edits,
                         found, failedAt, late>>

\* A second one, or the end of the job, kills the process where it stands.
Kill == /\ pc # "done"
        /\ pc' = "done" /\ exit' = "killed" /\ call' = "none"
        /\ UNCHANGED <<run, signalled, copy, spliced, temps, readme, json, edits,
                       found, failedAt, early, late>>

Advance == pc' = Following[pc]

\* Mutant: the temp files are removed only on the way out of a success.
FailLittering(code) ==
    /\ pc' = "done"
    /\ exit' = code
    /\ failedAt' = pc

\* The error returns through the deferred removals.
Fail(code) ==
    /\ pc' = "cleanup"
    /\ exit' = code
    /\ failedAt' = pc

Check == /\ pc \in Checks
         /\ \/ Advance /\ UNCHANGED <<exit, failedAt>>
            \/ Fail("1")
         /\ UNCHANGED <<run, signalled, call, copy, spliced, temps, readme, json, edits,
                        found, early, late>>

\* No marketplace in repos.toml: nothing is asked.
NoMarketplace == /\ pc = "marketplace" /\ call = "none"
                 /\ Advance
                 /\ UNCHANGED <<run, signalled, call, copy, spliced, temps, exit, readme, json,
                                edits, found, failedAt, early, late>>

Ask == /\ pc \in Calls /\ call = "none"
       /\ call' = IF signalled THEN "doomed" ELSE "live"
       /\ UNCHANGED <<run, pc, signalled, copy, spliced, temps, exit, readme, json, edits,
                      found, failedAt, early, late>>

\* Mutant: an interrupted read counts as one with nothing in it.
AnsweredAnyway == /\ call # "none"
                  /\ call' = "none"
                  /\ Advance
                  /\ UNCHANGED <<run, signalled, copy, spliced, temps, exit, readme, json, edits,
                                 found, failedAt, early, late>>

Answered == /\ call = "live"
            /\ call' = "none"
            /\ Advance
            /\ UNCHANGED <<run, signalled, copy, spliced, temps, exit, readme, json, edits,
                           found, failedAt, early, late>>

\* The call ends in an error of its own, or in the context's (exit 130).
CallFails == /\ call # "none"
             /\ \/ call = "live" /\ Fail("1")
                \/ signalled /\ Fail("130")
             /\ call' = "none"
             /\ UNCHANGED <<run, signalled, copy, spliced, temps, readme, json, edits,
                            found, early, late>>

\* os.ReadFile of README.md.
Read == /\ pc = "read"
        /\ \/ Advance /\ copy' = readme /\ UNCHANGED <<exit, failedAt>>
           \/ Fail("1") /\ UNCHANGED copy
        /\ UNCHANGED <<run, signalled, call, spliced, temps, readme, json, edits,
                       found, early, late>>

\* Splice keeps the prose and replaces the block; JSON marshals the snapshot.
Splice == /\ pc = "splice"
          /\ \/ /\ Advance
                /\ spliced' = [copy EXCEPT !.report = run]
                /\ UNCHANGED <<exit, failedAt>>
             \/ Fail("1") /\ UNCHANGED spliced
          /\ UNCHANGED <<run, signalled, call, copy, temps, readme, json, edits,
                         found, early, late>>

\* stage writes a temp file, or removes what it wrote of it and fails.
Stage(step, file) ==
    /\ pc = step
    /\ \/ Advance /\ temps' = temps \cup {file} /\ UNCHANGED <<exit, failedAt>>
       \/ Fail("1") /\ UNCHANGED temps
    /\ UNCHANGED <<run, signalled, call, copy, spliced, readme, json, edits,
                   found, early, late>>

\* commit renames a temp file onto its destination, or cannot.
CommitJson ==
    /\ pc = "commitJson"
    /\ \/ /\ Advance
          /\ json' = run /\ temps' = temps \ {"audit.json"}
          /\ UNCHANGED <<exit, failedAt>>
       \/ Fail("1") /\ UNCHANGED <<json, temps>>
    /\ UNCHANGED <<run, signalled, call, copy, spliced, readme, edits, found, early, late>>

\* Mutant: the second rename's error is dropped.
CommitReadmeUnchecked ==
    /\ pc = "commitReadme"
    /\ \/ readme' = spliced /\ temps' = temps \ {"README.md"}
       \/ UNCHANGED <<readme, temps>>
    /\ Advance
    /\ exit' = "0"
    /\ UNCHANGED <<run, signalled, call, copy, spliced, json, edits, found, failedAt, early, late>>

CommitReadme ==
    /\ pc = "commitReadme"
    /\ \/ /\ Advance
          /\ readme' = spliced /\ temps' = temps \ {"README.md"}
          /\ exit' = "0" /\ UNCHANGED failedAt
       \/ Fail("1") /\ UNCHANGED <<readme, temps>>
    /\ UNCHANGED <<run, signalled, call, copy, spliced, json, edits, found, early, late>>

\* The deferred removals of WriteFiles; then the process exits.
Cleanup == /\ pc = "cleanup"
           /\ pc' = "done" /\ temps' = {}
           /\ UNCHANGED <<run, signalled, call, copy, spliced, exit, readme, json, edits,
                          found, failedAt, early, late>>

Process ==
    \/ Check \/ NoMarketplace \/ Ask \/ Answered \/ CallFails
    \/ Read \/ Splice \/ Stage("stageReadme", "README.md") \/ Stage("stageJson", "audit.json")
    \/ CommitJson \/ CommitReadme \/ Cleanup

Next == Start \/ Edit \/ Signal \/ Kill \/ Process

Spec == Init /\ [][Next]_vars

-----------------------------------------------------------------------------
(* Properties. *)

Contents == [prose : 0 .. MaxEdits, report : 0 .. MaxRuns]
Codes == {"0", "1", "130"}

TypeOK ==
    /\ run \in 0 .. MaxRuns /\ json \in 0 .. MaxRuns /\ edits \in 0 .. MaxEdits
    /\ pc \in Steps \cup {"cleanup", "done"}
    /\ call \in {"none", "live", "doomed"}
    /\ call # "none" => pc \in Calls
    /\ copy \in Contents /\ spliced \in Contents /\ readme \in Contents
    /\ temps \subseteq {"README.md", "audit.json"}
    /\ exit \in Codes \cup {"none", "killed"}
    /\ found \in (0 .. MaxRuns) \X (0 .. MaxRuns)
    /\ failedAt \in Steps \cup {"none"}
    /\ signalled \in BOOLEAN /\ early \in BOOLEAN /\ late \in BOOLEAN

\* A reader never finds a README.md that is newer than the audit.json it rests
\* on, wherever a run fails or is killed.
ReadmeNeverAhead == readme.report <= json

\* The status tells what is on disk: 0, both files are this run's; any other,
\* neither is, save where WriteFiles accepts it: README.md could not be renamed.
ExitTellsDisk ==
    pc = "done" /\ exit \in Codes =>
        /\ exit = "0" => readme.report = run /\ json = run
        /\ exit # "0" /\ failedAt # "commitReadme" => <<readme.report, json>> = found

\* A run that ends by itself leaves no temp file in the directory.
NoLitter == pc = "done" /\ exit # "killed" => temps = {}

\* An edit to README.md is lost only in the moment between a run's reading the
\* file and replacing it; never one made in the minutes it reads GitHub.
EditsKept == ~late => readme.prose = edits

\* A signal that comes before the repositories are asked for leaves the report
\* as it was, and the run does not succeed.
InterruptLeavesReport == early => <<readme.report, json>> = found /\ exit # "0"
=============================================================================
