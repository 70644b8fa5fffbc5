---------------------------- MODULE RenderProofs ----------------------------
(* What Render promises about the two files on disk, for every number of runs *)
(* and edits.                                                                 *)
EXTENDS Render, TLAPS

\* Before anything is renamed the disk is as the run found it; the README about
\* to be committed carries this run's block, and by then audit.json is this run's.
DiskInv ==
    /\ readme.report <= json /\ json <= run
    /\ pc \in {"stageReadme", "stageJson", "commitJson", "commitReadme"} => spliced.report = run
    /\ pc = "commitReadme" => json = run
    /\ pc \notin {"commitReadme", "cleanup", "done"} => <<readme.report, json>> = found
    /\ pc \notin {"cleanup", "done"} => exit = "none"
    /\ exit = "0" => readme.report = run /\ json = run
    /\ exit \in {"1", "130"} /\ failedAt # "commitReadme" => <<readme.report, json>> = found

\* A lost edit is noticed: short of one, every copy of README.md the run still
\* uses carries the owner's latest prose.
ProseInv ==
    ~late =>
        /\ readme.prose = edits
        /\ pc \in Window => copy.prose = edits
        /\ pc \in Window \ {"splice"} => spliced.prose = edits

\* A run signalled early never gets past the reading of the repositories: its
\* call is doomed from the start, and every way out is a failure.
InterruptInv ==
    early =>
        /\ signalled
        /\ pc \in {"load", "viewer", "discover", "compare", "collect", "cleanup", "done"}
        /\ pc = "collect" => call # "live"
        /\ exit # "0"
        /\ <<readme.report, json>> = found

IInv == TypeOK /\ DiskInv

\* With what the edits, the signals and the temp files need on top of it.
FullInv == IInv /\ NoLitter /\ ProseInv /\ InterruptInv

\* The order of the steps, one by one.
LEMMA Order ==
    /\ Following["load"] = "viewer" /\ Following["viewer"] = "discover"
    /\ Following["discover"] = "compare" /\ Following["compare"] = "collect"
    /\ Following["collect"] = "validate" /\ Following["validate"] = "marketplace"
    /\ Following["marketplace"] = "block" /\ Following["block"] = "read"
    /\ Following["read"] = "splice" /\ Following["splice"] = "stageReadme"
    /\ Following["stageReadme"] = "stageJson" /\ Following["stageJson"] = "commitJson"
    /\ Following["commitJson"] = "commitReadme" /\ Following["commitReadme"] = "cleanup"
BY DEF Following

LEMMA StepNames ==
    Steps = {"load", "viewer", "discover", "compare", "collect", "validate", "marketplace",
             "block", "read", "splice", "stageReadme", "stageJson", "commitJson", "commitReadme"}
BY DEF Steps, Following

\* A step before the files leads to a step before the files.
LEMMA EarlySteps ==
    ASSUME NEW p \in Checks \cup Calls
    PROVE  /\ Following[p] \in Checks \cup Calls \cup {"read"}
           /\ p \in Steps
BY Order, StepNames DEF Checks, Calls

LEMMA InitHolds == Init => IInv
<1> SUFFICES ASSUME Init
             PROVE  IInv
    OBVIOUS
<1> USE RenderAssumption DEF RenderAssumption
<1>1. copy \in Contents /\ spliced \in Contents /\ readme \in Contents
    BY DEF Init, Contents
<1>2. TypeOK
    <2>1. 0 \in 0 .. MaxRuns /\ 0 \in 0 .. MaxEdits
        OBVIOUS
    <2>2. found \in (0 .. MaxRuns) \X (0 .. MaxRuns)
        BY <2>1 DEF Init
    <2> QED
        BY <1>1, <2>1, <2>2 DEF Init, TypeOK, Codes
<1>3. readme.report = 0 /\ <<readme.report, json>> = found
    BY DEF Init
<1>4. DiskInv
    BY <1>3 DEF Init, DiskInv
<1> QED
    BY <1>2, <1>4 DEF IInv

LEMMA StepHolds == IInv /\ [Next]_vars => IInv'
<1> SUFFICES ASSUME IInv, [Next]_vars
             PROVE  IInv'
    OBVIOUS
<1> USE RenderAssumption DEF RenderAssumption
<1>s. /\ pc \in Checks \cup Calls => Following[pc] \in Checks \cup Calls \cup {"read"} /\ pc \in Steps
    BY EarlySteps
<1>1. CASE Start
    <2>1. /\ run' \in 0 .. MaxRuns /\ run' = run + 1
          /\ readme.report \in 0 .. MaxRuns /\ json \in 0 .. MaxRuns
        BY <1>1 DEF Start, IInv, TypeOK, Contents
    <2>2. found' \in (0 .. MaxRuns) \X (0 .. MaxRuns) /\ found' = <<readme'.report, json'>>
        BY <1>1, <2>1 DEF Start
    <2>3. readme'.report <= json' /\ json' <= run'
        BY <1>1, <2>1 DEF Start, IInv, TypeOK, DiskInv
    <2>4. pc' = "load" /\ exit' = "none" /\ call' = "none"
        BY <1>1, StepNames DEF Start, IInv, TypeOK, Calls
    <2>5. TypeOK'
        BY <1>1, <2>1, <2>2, <2>4, StepNames DEF Start, IInv, TypeOK
    <2>6. DiskInv'
        BY <2>2, <2>3, <2>4 DEF DiskInv
    <2> QED
        BY <2>5, <2>6 DEF IInv
<1>2. CASE Edit
    <2>1. readme'.report = readme.report /\ readme' \in Contents
        BY <1>2 DEF Edit, IInv, TypeOK, Contents
    <2>2. edits' \in 0 .. MaxEdits
        BY <1>2 DEF Edit, IInv, TypeOK
    <2> QED
        BY <1>2, <2>1, <2>2 DEF Edit, IInv, TypeOK, DiskInv, Window
<1>3. CASE Signal
    BY <1>3 DEF Signal, IInv, TypeOK, DiskInv
<1>4. CASE Kill
    BY <1>4 DEF Kill, IInv, TypeOK, DiskInv, Codes
<1>5. CASE Check
    BY <1>5, <1>s, StepNames DEF Check, Advance, Fail, Checks, Calls, IInv, TypeOK, DiskInv, Codes
<1>6. CASE NoMarketplace
    BY <1>6, Order, StepNames DEF NoMarketplace, Advance, IInv, TypeOK, DiskInv
<1>7. CASE Ask
    BY <1>7 DEF Ask, IInv, TypeOK, DiskInv
<1>8. CASE Answered
    BY <1>8, <1>s, StepNames DEF Answered, Advance, Checks, Calls, IInv, TypeOK, DiskInv
<1>9. CASE CallFails
    BY <1>9, <1>s, StepNames DEF CallFails, Fail, Checks, Calls, IInv, TypeOK, DiskInv, Codes
<1>10. CASE Read
    <2>1. pc = "read" /\ call = "none" /\ pc' \in {"splice", "cleanup"}
        BY <1>10, Order DEF Read, Advance, Fail, Calls, IInv, TypeOK
    <2>2. /\ copy' \in Contents
          /\ exit' \in {exit, "1"} /\ failedAt' \in {failedAt, "read"}
          /\ pc' = "splice" => exit' = exit
        BY <1>10, Order DEF Read, Advance, Fail, IInv, TypeOK
    <2> QED
        BY <1>10, <2>1, <2>2, StepNames DEF Read, IInv, TypeOK, DiskInv, Codes
<1>11. CASE Splice
    <2>1. pc = "splice" /\ call = "none" /\ pc' \in {"stageReadme", "cleanup"}
        BY <1>11, Order DEF Splice, Advance, Fail, Calls, IInv, TypeOK
    <2>a. ASSUME spliced' = [copy EXCEPT !.report = run]
          PROVE  spliced' \in Contents /\ spliced'.report = run
        BY <2>a DEF IInv, TypeOK, Contents
    <2>2. /\ spliced' \in Contents
          /\ pc' = "stageReadme" => spliced'.report = run
        BY <1>11, <2>1, <2>a DEF Splice, Fail, IInv, TypeOK
    <2>3. exit' \in {exit, "1"} /\ failedAt' \in {failedAt, "splice"}
          /\ (pc' = "stageReadme" => exit' = exit)
        BY <1>11, Order DEF Splice, Advance, Fail
    <2> QED
        BY <1>11, <2>1, <2>2, <2>3, StepNames DEF Splice, IInv, TypeOK, DiskInv, Codes
<1>12. CASE Stage("stageReadme", "README.md")
    BY <1>12, Order, StepNames DEF Stage, Advance, Fail, Calls, IInv, TypeOK, DiskInv, Codes
<1>13. CASE Stage("stageJson", "audit.json")
    BY <1>13, Order, StepNames DEF Stage, Advance, Fail, Calls, IInv, TypeOK, DiskInv, Codes
<1>14. CASE CommitJson
    <2>1. pc = "commitJson" /\ call = "none"
        BY <1>14 DEF CommitJson, Calls, IInv, TypeOK
    <2>2. CASE Fail("1") /\ UNCHANGED <<json, temps>>
        BY <1>14, <2>1, <2>2, StepNames DEF CommitJson, Fail, IInv, TypeOK, DiskInv, Codes
    <2>3. CASE Advance /\ json' = run /\ temps' = temps \ {"audit.json"} /\ UNCHANGED <<exit, failedAt>>
        <3>1. pc' = "commitReadme" /\ exit' = "none"
            BY <2>1, <2>3, Order DEF Advance, IInv, DiskInv
        <3>2. readme.report <= run
            BY DEF IInv, TypeOK, DiskInv, Contents
        <3> QED
            BY <1>14, <2>1, <2>3, <3>1, <3>2, StepNames DEF CommitJson, IInv, TypeOK, DiskInv
    <2> QED
        BY <1>14, <2>2, <2>3 DEF CommitJson
<1>15. CASE CommitReadme
    BY <1>15, Order, StepNames DEF CommitReadme, Advance, Fail, Calls, IInv, TypeOK, DiskInv, Codes
<1>16. CASE Cleanup
    BY <1>16 DEF Cleanup, Calls, IInv, TypeOK, DiskInv
<1>17. CASE UNCHANGED vars
    BY <1>17 DEF vars, IInv, TypeOK, DiskInv
<1> QED
    BY <1>1, <1>2, <1>3, <1>4, <1>5, <1>6, <1>7, <1>8, <1>9, <1>10, <1>11, <1>12, <1>13,
       <1>14, <1>15, <1>16, <1>17 DEF Next, Process

\* The inductive invariant holds in every behaviour.
LEMMA Invariance == Spec => []IInv
<1>1. Init => IInv
    BY InitHolds
<1>2. IInv /\ [Next]_vars => IInv'
    BY StepHolds
<1> QED
    BY <1>1, <1>2, PTL DEF Spec

\* The state of every run is well typed.
THEOREM TypeCorrect == Spec => []TypeOK
<1>1. IInv => TypeOK
    BY DEF IInv
<1> QED
    BY <1>1, Invariance, PTL

\* README.md is never newer than the audit.json beside it: wherever a run of
\* WriteFiles stops.
THEOREM ReadmeIsNeverAhead == Spec => []ReadmeNeverAhead
<1>1. IInv => ReadmeNeverAhead
    BY DEF IInv, DiskInv, ReadmeNeverAhead
<1> QED
    BY <1>1, Invariance, PTL

\* The exit status of a run that ended by itself tells what it wrote.
THEOREM StatusTellsDisk == Spec => []ExitTellsDisk
<1>1. IInv => ExitTellsDisk
    BY DEF IInv, TypeOK, DiskInv, ExitTellsDisk, Codes
<1> QED
    BY <1>1, Invariance, PTL

-----------------------------------------------------------------------------
(* Temp files, the owner's edits, and the early signal. *)

LEMMA MoreInitHolds == Init => FullInv
<1> SUFFICES ASSUME Init
             PROVE  FullInv
    OBVIOUS
<1>1. IInv
    BY InitHolds
<1>2. NoLitter /\ ProseInv /\ InterruptInv
    BY DEF Init, NoLitter, ProseInv, InterruptInv, Window
<1> QED
    BY <1>1, <1>2 DEF FullInv

\* Only the removals at the end, and a kill, lead to the end of a run.
LEMMA LitterStep == IInv /\ NoLitter /\ [Next]_vars => NoLitter'
<1> SUFFICES ASSUME IInv, NoLitter, [Next]_vars
             PROVE  NoLitter'
    OBVIOUS
<1>s. pc \in Checks \cup Calls => Following[pc] \in Checks \cup Calls \cup {"read"} /\ pc \in Steps
    BY EarlySteps
<1>1. ASSUME Advance, pc \in Steps
      PROVE  pc' # "done"
    BY <1>1, Order, StepNames DEF Advance
<1>2. CASE Start \/ Edit \/ Signal \/ Kill \/ Cleanup \/ UNCHANGED vars
    BY <1>2 DEF Start, Edit, Signal, Kill, Cleanup, NoLitter, vars
<1>3. CASE Check \/ NoMarketplace \/ Answered \/ CallFails
    BY <1>3, <1>s, <1>1, StepNames
       DEF Check, NoMarketplace, Answered, CallFails, Fail, NoLitter, Checks, Calls, IInv, TypeOK
<1>4. CASE Ask
    BY <1>4 DEF Ask, Calls, NoLitter
<1>5. CASE \/ Read \/ Splice \/ Stage("stageReadme", "README.md")
           \/ Stage("stageJson", "audit.json") \/ CommitJson \/ CommitReadme
    BY <1>5, <1>1, StepNames
       DEF Read, Splice, Stage, CommitJson, CommitReadme, Fail, NoLitter
<1> QED
    BY <1>2, <1>3, <1>4, <1>5 DEF Next, Process

LEMMA ProseStep == IInv /\ ProseInv /\ [Next]_vars => ProseInv'
<1> SUFFICES ASSUME IInv, ProseInv, [Next]_vars
             PROVE  ProseInv'
    OBVIOUS
<1>s. /\ pc \in Checks \cup Calls => Following[pc] \in Checks \cup Calls \cup {"read"}
      /\ pc \in Checks \cup Calls \cup {"read", "load", "cleanup", "done"} => pc \notin Window
    BY EarlySteps DEF Window, Checks, Calls
<1>f. ASSUME NEW p \in Checks \cup Calls \cup {"read", "load", "cleanup", "done"}
      PROVE  p \notin Window
    BY DEF Window, Checks, Calls
<1>1. CASE Start
    BY <1>1 DEF Start, ProseInv, Window
<1>2. CASE Edit
    <2>1. readme'.prose = edits'
        BY <1>2 DEF Edit, IInv, TypeOK, Contents
    <2> QED
        BY <1>2, <2>1 DEF Edit, ProseInv
<1>3. CASE Signal \/ Kill \/ Ask \/ Cleanup \/ UNCHANGED vars
    BY <1>3 DEF Signal, Kill, Ask, Cleanup, ProseInv, Window, vars
<1>4. CASE Check \/ NoMarketplace \/ Answered \/ CallFails
    <2>1. pc' \in Checks \cup Calls \cup {"read", "load", "cleanup", "done"}
        BY <1>4, <1>s, StepNames
           DEF Check, NoMarketplace, Answered, CallFails, Advance, Fail, Checks, Calls, IInv, TypeOK
    <2>2. UNCHANGED <<late, readme, edits>>
        BY <1>4 DEF Check, NoMarketplace, Answered, CallFails
    <2> QED
        BY <2>1, <2>2, <1>f DEF ProseInv
<1>5. CASE Read
    BY <1>5, Order, StepNames DEF Read, Advance, Fail, ProseInv, Window
<1>6. CASE Splice
    <2>1. spliced' = [copy EXCEPT !.report = run] => spliced'.prose = copy.prose
        BY DEF IInv, TypeOK, Contents
    <2> QED
        BY <1>6, <2>1, Order, StepNames DEF Splice, Advance, Fail, ProseInv, Window
<1>7. CASE Stage("stageReadme", "README.md") \/ Stage("stageJson", "audit.json") \/ CommitJson
    BY <1>7, Order, StepNames DEF Stage, CommitJson, Advance, Fail, ProseInv, Window
<1>8. CASE CommitReadme
    BY <1>8, Order, StepNames DEF CommitReadme, Advance, Fail, ProseInv, Window
<1> QED
    BY <1>1, <1>2, <1>3, <1>4, <1>5, <1>6, <1>7, <1>8 DEF Next, Process

LEMMA InterruptStep == IInv /\ InterruptInv /\ [Next]_vars => InterruptInv'
<1> SUFFICES ASSUME IInv, InterruptInv, [Next]_vars
             PROVE  InterruptInv'
    OBVIOUS
<1>1. CASE Start
    BY <1>1 DEF Start, InterruptInv
<1>2. CASE Edit
    <2>1. readme'.report = readme.report
        BY <1>2 DEF Edit, IInv, TypeOK, Contents
    <2> QED
        BY <1>2, <2>1 DEF Edit, InterruptInv
<1>3. CASE Signal
    BY <1>3 DEF Signal, InterruptInv, IInv, DiskInv
<1>4. CASE Kill
    BY <1>4 DEF Kill, InterruptInv
<1>5. CASE Check
    BY <1>5, Order DEF Check, Advance, Fail, Checks, Calls, InterruptInv, IInv, TypeOK
<1>6. CASE NoMarketplace
    BY <1>6 DEF NoMarketplace, InterruptInv
<1>7. CASE Ask
    BY <1>7 DEF Ask, InterruptInv
<1>8. CASE Answered
    BY <1>8, Order DEF Answered, Advance, Calls, InterruptInv, IInv, TypeOK
<1>9. CASE CallFails
    BY <1>9 DEF CallFails, Fail, InterruptInv
<1>10. CASE \/ Read \/ Splice \/ Stage("stageReadme", "README.md")
            \/ Stage("stageJson", "audit.json") \/ CommitJson \/ CommitReadme
    BY <1>10 DEF Read, Splice, Stage, CommitJson, CommitReadme, InterruptInv
<1>11. CASE Cleanup \/ UNCHANGED vars
    BY <1>11 DEF Cleanup, InterruptInv, vars
<1> QED
    BY <1>1, <1>2, <1>3, <1>4, <1>5, <1>6, <1>7, <1>8, <1>9, <1>10, <1>11 DEF Next, Process

LEMMA FullInvariance == Spec => []FullInv
<1>1. Init => FullInv
    BY MoreInitHolds
<1>2. FullInv /\ [Next]_vars => FullInv'
    BY StepHolds, LitterStep, ProseStep, InterruptStep DEF FullInv
<1> QED
    BY <1>1, <1>2, PTL DEF Spec

\* Whatever failed, a run that ended by itself removed the temp files it staged:
\* the deferred removals of WriteFiles.
THEOREM NothingLeftBehind == Spec => []NoLitter
<1>1. FullInv => NoLitter
    BY DEF FullInv
<1> QED
    BY <1>1, FullInvariance, PTL

\* No edit of README.md is lost to the minutes a run spends on GitHub, only to
\* the moment between os.ReadFile and the rename.
THEOREM EditsAreKept == Spec => []EditsKept
<1>1. FullInv => EditsKept
    BY DEF FullInv, ProseInv, EditsKept
<1> QED
    BY <1>1, FullInvariance, PTL

\* A run signalled before it asks for the repositories neither succeeds nor
\* changes what is on disk, at whatever step it ends.
THEOREM InterruptedLeavesReport == Spec => []InterruptLeavesReport
<1>1. FullInv => InterruptLeavesReport
    BY DEF FullInv, InterruptInv, InterruptLeavesReport
<1> QED
    BY <1>1, FullInvariance, PTL
=============================================================================
