------------------------------ MODULE Release ------------------------------
(* This repository's own releases: release.yml, one run at a time as its      *)
(* concurrency group keeps them, its propose job (.ci/release-pull-request)   *)
(* and its publish job (.ci/release-publish) side by side, and around them    *)
(* the owner, who pushes, merges, withdraws, tags, drafts, starts runs by     *)
(* hand and runs old ones again.  A call can fail before or after its effect, *)
(* and a job can be killed between any two.                                   *)
(* A version is a number; a commit of main is its place on it.                *)
EXTENDS Integers, FiniteSets, SequencesExt

CONSTANTS
    Versions,    \* 1..n
    Picked,      \* versions somebody tags, drafts or gives a run by hand
    MaxDrafts,   \* MAX_DRAFTS
    MaxCommits,  \* bound: commits of main
    MaxRuns,     \* bound: runs the group lets through
    MaxFaults,   \* bound: calls that fail, jobs killed
    MaxHand      \* bound: tags, drafts, runs and re-runs by hand

ASSUME ReleaseAssumption == Versions \subseteq Nat \ {0} /\ Picked \subseteq Versions /\ MaxDrafts \in Nat

VARIABLES
    main,      \* commits, each the versions its changelog lists, newest first, and
               \* whether it calls for a release; 0 is a heading that is no version
    tags,      \* [version -> the commit it is tagged at, or 0]
    releases,  \* releases and drafts, whose names need not differ
    attested,  \* the commits whose build has a provenance attestation
    branches,  \* [staging, release]: what each branch is at
    pr,        \* the release pull request
    group,     \* [active, waiting]: the runs of the concurrency group
    propose,   \* the active run's propose job
    publish,   \* its publish job
    byHand,    \* history: versions tagged by hand
    spent      \* how much of each bound is used

github == <<main, tags, releases, attested, branches, pr, group>>
vars == <<github, propose, publish, byHand, spent>>

-----------------------------------------------------------------------------
(* The changelog and its commits. *)

Commits == 1..Len(main)

\* The version at the top of a commit's changelog, 0 when it names none.
Top(n) == IF main[n].log = <<>> THEN 0 ELSE Head(main[n].log)

Unreadable(n) == main[n].log # <<>> /\ Top(n) = 0

\* The oldest commit counting back from one for as long as they name the
\* version: the one that brought it in, whatever corrected it since.
ReleaseCommit(v, from) == Min({n \in 1..from : \A m \in n..from : Top(m) = v})

Tagged(known) == {v \in Versions : known[v] # 0}

Named(v) == {i \in DOMAIN releases : releases[i].version = v}

Drafts(v) == {i \in Named(v) : releases[i].draft}

Published(v) == Named(v) \ Drafts(v)

\* What a build of a commit is, stored whole or not.
Bytes(n, whole) == [built |-> n, whole |-> whole]

Draft(v, n, bytes) == [version |-> v, draft |-> TRUE, target |-> n, bytes |-> bytes, current |-> FALSE]

-----------------------------------------------------------------------------
(* The group: one run in progress, one waiting, whose place a newer one takes. *)

NoRun == [commit |-> 0, event |-> "none", version |-> 0]

Idle == propose.pc = "done" /\ publish.pc = "done"

\* A run waits only while another is in progress.
Waits(n, event, v) ==
    /\ Idle => group.waiting = NoRun
    /\ group' = [group EXCEPT !.waiting = [commit |-> n, event |-> event, version |-> v]]

Proposing ==
    [pc |-> "done", exit |-> "none", head |-> 0, disturbed |-> FALSE,
     tags |-> [v \in Versions |-> 0], existing |-> FALSE, version |-> 0]

Publishing ==
    [pc |-> "done", exit |-> "none", head |-> 0, disturbed |-> FALSE,
     reach |-> 0, deleted |-> 0, current |-> FALSE, due |-> FALSE]

Init ==
    /\ main = <<[log |-> <<>>, rel |-> TRUE]>>
    /\ tags = [v \in Versions |-> 0] /\ releases = <<>> /\ attested = {}
    /\ branches = [staging |-> 0, release |-> [base |-> 0, log |-> <<>>]]
    /\ pr = [open |-> FALSE, title |-> 0]
    /\ group = [active |-> NoRun, waiting |-> [commit |-> 1, event |-> "push", version |-> 0]]
    /\ propose = Proposing /\ publish = Publishing
    /\ byHand = {} /\ spent = [runs |-> 0, faults |-> 0, hand |-> 0]

Bound == [runs |-> MaxRuns, faults |-> MaxFaults, hand |-> MaxHand]

Spend(what) == spent[what] < Bound[what] /\ spent' = [spent EXCEPT ![what] = @ + 1]

\* The waiting run goes ahead; only a push has a publish job.
Start ==
    /\ Idle /\ group.waiting # NoRun /\ Spend("runs")
    /\ group' = [active |-> group.waiting, waiting |-> NoRun]
    /\ LET head == group.waiting.commit
       IN /\ propose' = [Proposing EXCEPT !.pc = "checkout", !.head = head]
          /\ publish' = IF group.waiting.event = "push" THEN [Publishing EXCEPT !.pc = "checkout", !.head = head]
                        ELSE Publishing
    /\ UNCHANGED <<main, tags, releases, attested, branches, pr, byHand>>

Kill ==
    /\ Spend("faults")
    /\ \/ /\ propose.pc # "done" /\ UNCHANGED publish
          /\ propose' = [propose EXCEPT !.pc = "done", !.exit = "killed", !.disturbed = TRUE]
       \/ /\ publish.pc # "done" /\ UNCHANGED propose
          /\ publish' = [publish EXCEPT !.pc = "done", !.exit = "killed", !.disturbed = TRUE]
    /\ UNCHANGED <<github, byHand>>

-----------------------------------------------------------------------------
(* The owner. *)

Asking == {"askTag", "askRelease", "askHead"}

Pushed(log, rel) ==
    /\ Len(main) < MaxCommits
    /\ main' = Append(main, [log |-> log, rel |-> rel])
    /\ Waits(Len(main) + 1, "push", 0)
    /\ propose' = [propose EXCEPT !.disturbed = TRUE]
    /\ publish' = [publish EXCEPT !.disturbed = @ \/ publish.pc \in Asking]
    /\ UNCHANGED <<tags, releases, attested, branches, byHand, spent>>

TipLog == main[Len(main)].log

\* A commit that calls for a release, or not; a heading that is no version.
Push == UNCHANGED pr /\ \/ \E rel \in BOOLEAN : Pushed(TipLog, rel)
                        \/ TipLog # <<>> /\ Pushed(<<0>> \o TipLog, FALSE)

\* A version that has no tag, or such a heading, is taken out again.
Withdraw ==
    /\ TipLog # <<>> /\ Head(TipLog) \notin Tagged(tags)
    /\ UNCHANGED pr /\ Pushed(Tail(TipLog), FALSE)

\* A pull request has to be up to date with main.
Merge ==
    /\ pr.open /\ branches.release.base = Len(main)
    /\ pr' = [pr EXCEPT !.open = FALSE]
    /\ Pushed(branches.release.log, FALSE)

Disturb ==
    /\ propose' = [propose EXCEPT !.disturbed = TRUE]
    /\ publish' = [publish EXCEPT !.disturbed = TRUE]

Tag ==
    /\ Spend("hand") /\ Disturb
    /\ \E v \in Picked, n \in Commits :
         /\ tags[v] = 0 /\ tags' = [tags EXCEPT ![v] = n]
         /\ byHand' = byHand \cup {v}
    /\ UNCHANGED <<main, releases, attested, branches, pr, group>>

\* A draft of a version's name, not while a job has begun to make its own.
MakeDraft ==
    /\ publish.pc \in {"done", "checkout", "build"} \cup Asking /\ Spend("hand") /\ Disturb
    /\ \E v \in Picked : releases' = Append(releases, Draft(v, Len(main), Bytes(0, FALSE)))
    /\ UNCHANGED <<main, tags, attested, branches, pr, group, byHand>>

\* A run by hand, of the default branch's head, with or without a version.
Dispatch ==
    /\ Spend("hand")
    /\ \E v \in Picked \cup {0} : Waits(Len(main), "dispatch", v)
    /\ UNCHANGED <<main, tags, releases, attested, branches, pr, propose, publish, byHand>>

\* A push's run that is over, or was dropped, is run again.
Rerun ==
    /\ Spend("hand")
    /\ \E n \in Commits :
         /\ n # group.waiting.commit /\ (Idle \/ n # group.active.commit)
         /\ Waits(n, "push", 0)
    /\ UNCHANGED <<main, tags, releases, attested, branches, pr, propose, publish, byHand>>

Owner == Push \/ Withdraw \/ Merge \/ Tag \/ MakeDraft \/ Dispatch \/ Rerun

-----------------------------------------------------------------------------
(* The propose job. *)

ProposeTo(step) == propose' = [propose EXCEPT !.pc = step]

ProposeEnds(code) == propose' = [propose EXCEPT !.pc = "done", !.exit = code]

\* A call fails; what it changed on GitHub is the caller's to say.
ProposeBreaks == Spend("faults") /\ propose' = [propose EXCEPT !.pc = "done", !.exit = "1", !.disturbed = TRUE]

\* Every tag there is comes with the checkout.
CheckoutToPropose ==
    /\ propose.pc = "checkout"
    /\ propose' = [propose EXCEPT !.pc = "base", !.tags = tags]
    /\ UNCHANGED <<github, publish, byHand, spent>>

Known(job) == Tagged(job.tags)

\* last-tag: the highest version tagged on the way to the head, 0 for none.
LastTag == Max({v \in Known(propose) : propose.tags[v] <= propose.head} \cup {0})

\* next: the version the commits since the last tag call for, 0 for none.
Computed ==
    LET since == (IF LastTag = 0 THEN 1 ELSE propose.tags[LastTag] + 1)..propose.head
    IN IF \E n \in since : main[n].rel THEN LastTag + 1 ELSE 0

Given == group.active.version

Impossible(v) == v # 0 /\ (v <= LastTag \/ v \in Known(propose))

\* Mutant: an untagged version at the top is no reason to wait.
BeingPublishedNever == FALSE

\* A merged proposal whose release is still to be made.
BeingPublished == Top(propose.head) # 0 /\ Top(propose.head) \notin Known(propose)

\* base_sha is read, and what is wrong with the checkout or the version told.
ReadBase ==
    /\ propose.pc = "base"
    /\ IF propose.head # Len(main) THEN ProposeEnds(IF group.active.event = "push" THEN "0" ELSE "1")
       ELSE IF Impossible(Given) \/ Unreadable(propose.head) THEN ProposeEnds("1")
       ELSE IF BeingPublished THEN ProposeEnds("0")
       ELSE ProposeTo("list")
    /\ UNCHANGED <<github, publish, byHand, spent>>

\* The version to propose: the one given, or the higher of what the commits
\* call for and what the open pull request says, unless that one is past.
Chosen ==
    IF Given # 0 THEN Given
    ELSE Max({Computed} \cup {v \in {pr.title} : pr.open /\ v > LastTag})

\* Bound: no version past the last.
List ==
    /\ propose.pc = "list" /\ Chosen \in Versions \cup {0}
    /\ IF Chosen = 0 THEN ProposeEnds("0")
       ELSE IF Chosen \in Known(propose) THEN ProposeEnds("1")
       ELSE propose' = [propose EXCEPT !.pc = "staging", !.existing = pr.open, !.version = Chosen]
    /\ UNCHANGED <<github, publish, byHand, spent>>

\* A write takes effect; or it fails, and may have had it.
Writes(effect, next) ==
    \/ effect /\ next /\ UNCHANGED spent
    \/ effect /\ ProposeBreaks

\* A call fails that changed nothing.
ProposeCallFails ==
    /\ propose.pc \in {"base", "list", "staging", "commit", "branch", "clean", "pr"} /\ ProposeBreaks
    /\ UNCHANGED <<github, publish, byHand>>

\* The staging branch is pointed at the base, and the commit made there.
PointStaging ==
    /\ propose.pc = "staging"
    /\ Writes(branches' = [branches EXCEPT !.staging = propose.head], ProposeTo("commit"))
    /\ UNCHANGED <<main, tags, releases, attested, pr, group, publish, byHand>>

\* expectedHeadOid: the branch has to be where it was put.
MakeCommit ==
    /\ propose.pc = "commit" /\ branches.staging = propose.head
    /\ Writes(branches' = [branches EXCEPT !.staging = -1], ProposeTo("branch"))
    /\ UNCHANGED <<main, tags, releases, attested, pr, group, publish, byHand>>

Proposal == [base |-> propose.head, log |-> <<propose.version>> \o main[propose.head].log]

PointBranch ==
    /\ propose.pc = "branch"
    /\ Writes(branches' = [branches EXCEPT !.release = Proposal], ProposeTo("clean"))
    /\ UNCHANGED <<main, tags, releases, attested, pr, group, publish, byHand>>

DeleteStaging ==
    /\ propose.pc = "clean"
    /\ Writes(branches' = [branches EXCEPT !.staging = 0], ProposeTo("pr"))
    /\ UNCHANGED <<main, tags, releases, attested, pr, group, publish, byHand>>

\* The pull request found open is edited, whatever became of it, or one is opened.
PullRequest ==
    /\ propose.pc = "pr"
    /\ Writes(pr' = IF propose.existing THEN [pr EXCEPT !.title = propose.version]
                    ELSE [open |-> TRUE, title |-> propose.version], ProposeEnds("0"))
    /\ UNCHANGED <<main, tags, releases, attested, branches, group, publish, byHand>>

Propose ==
    \/ CheckoutToPropose \/ ReadBase \/ List \/ ProposeCallFails
    \/ PointStaging \/ MakeCommit \/ PointBranch \/ DeleteStaging \/ PullRequest

-----------------------------------------------------------------------------
(* The publish job: pending, build-release, sign, the attestation, release. *)

PublishTo(step) == publish' = [publish EXCEPT !.pc = step]

PublishEnds(code) == publish' = [publish EXCEPT !.pc = "done", !.exit = code]

PublishBreaks == Spend("faults") /\ publish' = [publish EXCEPT !.pc = "done", !.exit = "1", !.disturbed = TRUE]

Version == Top(publish.head)

Out(v) == tags[v] # 0 \/ Published(v) # {}

\* The version is looked for in the checkout, and its tag among those there.
CheckoutToPublish ==
    /\ publish.pc = "checkout"
    /\ LET here == Version # 0 /\ Top(Len(main)) = Version /\ ReleaseCommit(Version, Len(main)) = publish.head
           nothing == Version = 0 \/ tags[Version] # 0
       IN publish' = [publish EXCEPT
                        !.pc = IF nothing THEN "done" ELSE "askTag", !.exit = IF nothing THEN "0" ELSE @,
                        !.reach = Len(main), !.current = here,
                        !.due = here /\ ~Out(Version) /\ Cardinality(Drafts(Version)) <= MaxDrafts]
    /\ UNCHANGED <<github, propose, byHand, spent>>

AskTag ==
    /\ publish.pc = "askTag"
    /\ IF tags[Version] # 0 THEN PublishEnds("0") ELSE PublishTo("askRelease")
    /\ UNCHANGED <<github, propose, byHand, spent>>

\* A draft is what a failed run leaves behind.
Announced == Published(Version) # {}

AskRelease ==
    /\ publish.pc = "askRelease"
    /\ IF Announced THEN PublishEnds("0") ELSE PublishTo("askHead")
    /\ UNCHANGED <<github, propose, byHand, spent>>

\* Mutant: the release commit is looked for from the checkout.
FromCheckout == publish.head

\* The release commit is looked for from the default branch as it is now.
From == Len(main)

\* Mutant: another commit's run has nothing to publish.
NotMineZero == "0"

\* An unpublished version seen from a run that may not publish it.
NotMine == "1"

AskHead ==
    /\ publish.pc = "askHead"
    /\ IF From > publish.reach \/ Top(From) # Version \/ ReleaseCommit(Version, From) # publish.head
       THEN PublishEnds(NotMine) ELSE PublishTo("build")
    /\ UNCHANGED <<github, propose, byHand, spent>>

\* The assets are built and signed, and the binaries attested.
Build ==
    /\ publish.pc = "build" /\ attested' = attested \cup {publish.head}
    /\ \/ PublishTo("tag") /\ UNCHANGED spent
       \/ PublishBreaks
    /\ UNCHANGED <<main, tags, releases, branches, pr, group, propose, byHand>>

\* A release is never published onto a tag that is there.
AskTagAgain ==
    /\ publish.pc = "tag"
    /\ IF tags[Version] # 0 THEN PublishEnds("1") ELSE PublishTo("state")
    /\ UNCHANGED <<github, propose, byHand, spent>>

\* Mutant: the new draft is made beside an old one.
NoneLeftBeside == Published(Version) = {}

NoneLeft == Named(Version) = {}

State ==
    /\ publish.pc = "state"
    /\ IF NoneLeft THEN PublishTo("create")
       ELSE IF Announced \/ publish.deleted = MaxDrafts THEN PublishEnds("1")
       ELSE PublishTo("delete")
    /\ UNCHANGED <<github, propose, byHand, spent>>

\* gh takes some draft of the name.
Delete ==
    /\ publish.pc = "delete"
    /\ \E i \in Drafts(Version) : releases' = RemoveAt(releases, i)
    /\ \/ publish' = [publish EXCEPT !.pc = "state", !.deleted = @ + 1] /\ UNCHANGED spent
       \/ PublishBreaks
    /\ UNCHANGED <<main, tags, attested, branches, pr, group, propose, byHand>>

\* The draft and its assets: an upload may be cut, or the call fail half way.
Create ==
    /\ publish.pc = "create"
    /\ \E whole \in BOOLEAN :
         /\ releases' = Append(releases, Draft(Version, publish.head, Bytes(publish.head, whole)))
         /\ \/ whole /\ PublishTo("back") /\ UNCHANGED spent
            \/ ~whole /\ Spend("faults") /\ publish' = [publish EXCEPT !.pc = "back", !.disturbed = TRUE]
            \/ PublishBreaks
    /\ UNCHANGED <<main, tags, attested, branches, pr, group, propose, byHand>>

\* The draft is held to the bytes on disk.
ReadBack ==
    /\ publish.pc = "back"
    /\ \E i \in Drafts(Version) :
         IF releases[i].bytes = Bytes(publish.head, TRUE) THEN PublishTo("publish") ELSE PublishEnds("1")
    /\ UNCHANGED <<github, propose, byHand, spent>>

\* Publishing makes the tag, unless there is one.
PublishDraft ==
    /\ publish.pc = "publish"
    /\ \E i \in Drafts(Version) :
         /\ releases' = [releases EXCEPT ![i].draft = FALSE, ![i].current = publish.current]
         /\ tags' = IF tags[Version] = 0 THEN [tags EXCEPT ![Version] = releases[i].target] ELSE tags
    /\ \/ PublishTo("read") /\ UNCHANGED spent
       \/ PublishBreaks
    /\ UNCHANGED <<main, attested, branches, pr, group, propose, byHand>>

\* The tag is read until it is there, and has to be at the commit.
ReadTag ==
    /\ publish.pc = "read"
    /\ PublishEnds(IF tags[Version] = publish.head THEN "0" ELSE "1")
    /\ UNCHANGED <<github, propose, byHand, spent>>

\* A call fails that changed nothing, or a check of the files built.
PublishCallFails ==
    /\ publish.pc \notin {"done", "checkout"} /\ PublishBreaks
    /\ UNCHANGED <<github, propose, byHand>>

Publish ==
    \/ CheckoutToPublish \/ AskTag \/ AskRelease \/ AskHead \/ Build \/ AskTagAgain \/ State
    \/ Delete \/ Create \/ ReadBack \/ PublishDraft \/ ReadTag \/ PublishCallFails

-----------------------------------------------------------------------------

Next == Start \/ Kill \/ Owner \/ Propose \/ Publish

Spec == Init /\ [][Next]_vars

-----------------------------------------------------------------------------

\* What a published release says of itself is true for good: it is tagged at the
\* commit that brought its version in, and that main still proposed it from when
\* the job began, and it holds that commit's build, whole and attested
\* (pending, release).  A tag somebody else made is not the job's.
ReleasedFromItsCommit ==
    \A i \in DOMAIN releases :
      LET r == releases[i]
      IN ~r.draft /\ r.version \notin byHand =>
           /\ tags[r.version] = r.target
           /\ Top(r.target) = r.version /\ (r.target > 1 => Top(r.target - 1) # r.version)
           /\ r.bytes = Bytes(r.target, TRUE) /\ r.target \in attested /\ r.current

\* No version is put on top of one that is still to be published: under the
\* version main proposes, all are tagged (release-pull-request's pending).
OneReleaseAtATime ==
    TipLog # <<>> /\ Head(TipLog) # 0 =>
      \A i \in 2..Len(TipLog) : TipLog[i] \in {0} \cup Tagged(tags)

\* A publish job that is green has not passed a release over: the version its
\* commit names is tagged or released, whoever did it.
GreenIsOut == publish.pc = "done" /\ publish.exit = "0" /\ Version # 0 => Out(Version)

\* A job nothing disturbs does its work, whatever the ones before it left
\* behind: the release it was due to make is out, the pull request it proposes
\* is open, up to date, and says what its changelog says.
UndisturbedJobsDeliver ==
    /\ publish.pc = "done" /\ publish.due /\ ~publish.disturbed =>
         publish.exit = "0" /\ tags[Version] = publish.head /\ Published(Version) # {}
    /\ propose.pc = "done" /\ propose.version # 0 /\ ~propose.disturbed =>
         /\ propose.exit = "0" /\ branches.release = Proposal
         /\ pr = [open |-> TRUE, title |-> propose.version]
=============================================================================
