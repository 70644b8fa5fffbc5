--------------------------- MODULE ReleaseProofs ---------------------------
(* What the release pipeline and the fetching of a binary promise, for any    *)
(* versions and any number of commits, runs, faults, drafts and doings by     *)
(* hand.                                                                      *)
EXTENDS Fetch, FiniteSetTheorems, SequenceTheorems, WellFoundedInduction, TLAPS

Logs == Seq(Versions \cup {0})

Content == [built : Nat, whole : BOOLEAN]

Releases == [version : Versions, draft : BOOLEAN, target : Nat \ {0}, bytes : Content, current : BOOLEAN]

Runs == [commit : Nat, event : {"none", "push", "dispatch"}, version : Versions \cup {0}]

ProposeSteps == {"done", "checkout", "base", "list", "staging", "commit", "branch", "clean", "pr"}

PublishSteps ==
    {"done", "checkout", "askTag", "askRelease", "askHead", "build", "tag", "state", "delete",
     "create", "back", "publish", "read"}

Exits == {"none", "0", "1", "killed"}

GitHubOK ==
    /\ main \in Seq([log : Logs, rel : BOOLEAN]) /\ Len(main) > 0
    /\ tags \in [Versions -> Nat]
    /\ releases \in Seq(Releases)
    /\ branches \in [staging : Int, release : [base : Nat, log : Logs]]
    /\ pr \in [open : BOOLEAN, title : Versions \cup {0}]
    /\ group \in [active : Runs, waiting : Runs]
    /\ group.waiting # NoRun => group.waiting.commit \in Commits

Proposings ==
    [pc : ProposeSteps, exit : Exits, head : Nat, disturbed : BOOLEAN,
     tags : [Versions -> Nat], existing : BOOLEAN, version : Versions \cup {0}]

Publishings ==
    [pc : PublishSteps, exit : Exits, head : Nat, disturbed : BOOLEAN,
     reach : Nat, deleted : Nat, current : BOOLEAN, due : BOOLEAN]

ProposeOK ==
    /\ propose \in Proposings
    /\ propose.pc # "done" => propose.head \in Commits
    /\ propose.pc \in {"staging", "commit", "branch", "clean", "pr"} => propose.version \in Versions

PublishOK ==
    /\ publish \in Publishings
    /\ publish.pc # "done" \/ publish.exit = "0" => publish.head \in Commits
    /\ publish.pc \notin {"done", "checkout"} => Version \in Versions

TypeOK == GitHubOK /\ ProposeOK /\ PublishOK

\* What a published release is named after is tagged, and stays so.
PublishedIsTagged == \A i \in 1 .. Len(releases) : releases[i].draft \/ tags[releases[i].version] # 0

\* A green job has seen its version's tag.
GreenIsTagged == publish.pc = "done" /\ publish.exit = "0" /\ Version # 0 => tags[Version] # 0

\* Below any version of a log, and in a log a proposal may go on, all is tagged.
Behind(v) == v = 0 \/ tags[v] # 0

Ordered(log) == \A i, j \in 1 .. Len(log) : i < j /\ log[i] # 0 => Behind(log[j])

AllBehind(log) == \A j \in 1 .. Len(log) : Behind(log[j])

LogsOK == \A n \in 1 .. Len(main) : Ordered(main[n].log)

CheckedOK ==
    propose.pc \in {"list", "staging", "commit", "branch", "clean", "pr"} => AllBehind(main[propose.head].log)

BranchOK == \A j \in 2 .. Len(branches.release.log) : Behind(branches.release.log[j])

KnownOK == \A v \in Versions : propose.tags[v] # 0 => tags[v] # 0

OrderOK == LogsOK /\ CheckedOK /\ BranchOK /\ KnownOK

IInv == TypeOK /\ PublishedIsTagged /\ GreenIsTagged /\ OrderOK

Scripts ==
    [pc : {"idle", "download", "mode", "checksum", "attestation", "executable", "fetched", "left", "failed"},
     sha : Nat, tag : Versions \cup {0}, file : Content \cup {None}, sums : Nat \cup {None}, exec : BOOLEAN]

FetchOK ==
    /\ fetch \in Scripts
    /\ fetch.exec => fetch.pc \in {"mode", "left", "fetched"}
    /\ fetch.pc \in {"executable", "fetched"} => fetch.sha \in attested /\ fetch.file = Bytes(fetch.sha, TRUE)

-----------------------------------------------------------------------------
(* What changes and what does not. *)

LEMMA Types ==
    ASSUME TypeOK
    PROVE  /\ Commits = 1 .. Len(main) /\ Len(main) \in Nat /\ TipLog \in Logs
           /\ \A n \in Commits : main[n] \in [log : Logs, rel : BOOLEAN] /\ Top(n) \in Versions \cup {0}
<1>1. main \in Seq([log : Logs, rel : BOOLEAN]) /\ Len(main) > 0
  BY DEF TypeOK, GitHubOK
<1>2. Len(main) \in Nat /\ \A n \in 1 .. Len(main) : main[n] \in [log : Logs, rel : BOOLEAN]
  BY <1>1, ElementOfSeq, LenProperties
<1>3. \A log \in Logs : log # <<>> => Head(log) \in Versions \cup {0}
  BY HeadTailProperties DEF Logs
<1>. QED
  BY <1>1, <1>2, <1>3 DEF Commits, TipLog, Top

TagsStay == /\ tags' \in [Versions -> Nat]
            /\ \A v \in Versions : tags[v] # 0 => tags'[v] # 0

\* A publish job that stays where it is, or ends without being green.
LEMMA PublishStays ==
    ASSUME TypeOK, GreenIsTagged, UNCHANGED main, TagsStay,
           publish' \in Publishings, publish'.head = publish.head,
           \/ publish'.pc = publish.pc /\ publish'.exit = publish.exit
           \/ publish'.pc = "done" /\ publish'.exit \in {"1", "killed"}
    PROVE  PublishOK' /\ GreenIsTagged'
<1>1. Version' = Version
  BY DEF Version, Top
<1>2. publish.head \in Commits => Version \in Versions \cup {0}
  BY Types DEF Version
<1>. QED
  BY <1>1, <1>2 DEF TypeOK, PublishOK, GreenIsTagged, Commits, TagsStay

LEMMA PublishedStays ==
    ASSUME TypeOK, PublishedIsTagged, UNCHANGED releases, TagsStay
    PROVE  PublishedIsTagged'
<1>1. releases \in Seq(Releases)
  BY DEF TypeOK, GitHubOK
<1>2. \A i \in 1 .. Len(releases) : releases[i] \in Releases
  BY <1>1, ElementOfSeq
<1>. QED
  BY <1>2 DEF PublishedIsTagged, TagsStay, Releases

\* A propose job that stays where it is, or ends, with what it rests on as it was.
LEMMA ProposeStays ==
    ASSUME TypeOK, OrderOK, UNCHANGED <<main, branches>>, TagsStay,
           propose' \in Proposings, propose'.pc \in {propose.pc, "done"},
           propose'.head = propose.head, propose'.tags = propose.tags, propose'.version = propose.version
    PROVE  ProposeOK' /\ OrderOK'
<1>1. ProposeOK'
  BY DEF TypeOK, ProposeOK, Commits
<1>2. \A v \in Versions \cup {0} : Behind(v) => Behind(v)'
  BY DEF Behind, TagsStay
<1>3. \A n \in Commits : \A j \in 1 .. Len(main[n].log) : main[n].log[j] \in Versions \cup {0}
  <2>. TAKE n \in Commits
  <2>1. main[n].log \in Seq(Versions \cup {0})
    BY Types DEF Logs
  <2>. QED
    BY <2>1, ElementOfSeq
<1>4. LogsOK'
  BY <1>2, <1>3 DEF OrderOK, LogsOK, Ordered, Commits
<1>5. CheckedOK'
  BY <1>2, <1>3 DEF OrderOK, CheckedOK, AllBehind, TypeOK, ProposeOK
<1>6. BranchOK'
  <2>1. branches.release.log \in Seq(Versions \cup {0})
    BY DEF TypeOK, GitHubOK, Logs
  <2>2. \A j \in 2 .. Len(branches.release.log) : branches.release.log[j] \in Versions \cup {0}
    BY <2>1, ElementOfSeq, LenProperties, SMT
  <2>. QED
    BY <1>2, <2>2 DEF OrderOK, BranchOK
<1>7. KnownOK'
  BY DEF OrderOK, KnownOK, TagsStay
<1>. QED
  BY <1>1, <1>4, <1>5, <1>6, <1>7 DEF OrderOK

LEMMA DisturbStays ==
    ASSUME IInv, Disturb, UNCHANGED <<main, branches>>, TagsStay
    PROVE  ProposeOK' /\ OrderOK' /\ PublishOK' /\ GreenIsTagged'
<1>1. propose' \in Proposings /\ propose' = [propose EXCEPT !.disturbed = TRUE]
  BY DEF Disturb, IInv, TypeOK, ProposeOK, Proposings
<1>2. publish' \in Publishings /\ publish' = [publish EXCEPT !.disturbed = TRUE]
  BY DEF Disturb, IInv, TypeOK, PublishOK, Publishings
<1>3. ProposeOK' /\ OrderOK'
  <2>1. /\ propose'.pc = propose.pc /\ propose'.head = propose.head
        /\ propose'.tags = propose.tags /\ propose'.version = propose.version
    BY <1>1 DEF IInv, TypeOK, ProposeOK, Proposings
  <2>. QED
    BY <1>1, <2>1, ProposeStays DEF IInv
<1>4. PublishOK' /\ GreenIsTagged'
  <2>1. publish'.pc = publish.pc /\ publish'.head = publish.head /\ publish'.exit = publish.exit
    BY <1>2 DEF IInv, TypeOK, PublishOK, Publishings
  <2>. QED
    BY <1>2, <2>1, PublishStays DEF IInv
<1>. QED
  BY <1>3, <1>4

LEMMA GitHubStays ==
    ASSUME GitHubOK, UNCHANGED <<main, branches, pr, group>>, TagsStay, releases' \in Seq(Releases)
    PROVE  GitHubOK'
  BY DEF GitHubOK, TagsStay, Commits

\* What RemoveAt leaves was there, under a number of its own.
LEMMA OneLess ==
    ASSUME TypeOK, NEW k \in 1 .. Len(releases), releases' = RemoveAt(releases, k)
    PROVE  /\ Len(releases) \in Nat /\ Len(releases') = Len(releases) - 1
           /\ releases' \in Seq(Releases)
           /\ \A i \in 1 .. Len(releases) - 1 :
                releases'[i] = IF i < k THEN releases[i] ELSE releases[i + 1]
<1>1. releases \in Seq(Releases) /\ Len(releases) \in Nat
  BY LenProperties DEF TypeOK, GitHubOK
<1>. DEFINE Before == SubSeq(releases, 1, k - 1)
            After == SubSeq(releases, k + 1, Len(releases))
<1>2. /\ Before \in Seq(Releases) /\ Len(Before) = k - 1
      /\ \A i \in 1 .. k - 1 : Before[i] = releases[i]
  <2>1. \A i \in 1 .. k - 1 : releases[i] \in Releases
    BY <1>1, ElementOfSeq
  <2>. QED
    BY <1>1, <2>1, SubSeqProperties
<1>3. /\ After \in Seq(Releases) /\ Len(After) = Len(releases) - k
      /\ \A i \in 1 .. Len(releases) - k : After[i] = releases[k + i]
  <2>1. \A i \in k + 1 .. Len(releases) : releases[i] \in Releases
    BY <1>1, ElementOfSeq
  <2>. QED
    BY <1>1, <2>1, SubSeqProperties
<1>4. releases' = Before \o After
  BY DEF RemoveAt
<1>. HIDE DEF Before, After
<1>5. /\ Before \o After \in Seq(Releases) /\ Len(Before \o After) = Len(Before) + Len(After)
      /\ \A i \in 1 .. Len(Before) + Len(After) :
           (Before \o After)[i] = IF i <= Len(Before) THEN Before[i] ELSE After[i - Len(Before)]
  BY <1>2, <1>3, ConcatProperties
<1>6. Len(Before) + Len(After) = Len(releases) - 1
  BY <1>1, <1>2, <1>3
<1>7. ASSUME NEW i \in 1 .. Len(releases) - 1
      PROVE  (Before \o After)[i] = IF i < k THEN releases[i] ELSE releases[i + 1]
  <2>1. CASE i < k
    <3>1. i \in 1 .. k - 1 /\ i <= Len(Before)
      BY <1>1, <1>2, <2>1
    <3>. QED
      BY <1>2, <1>5, <1>6, <2>1, <3>1
  <2>2. CASE ~(i < k)
    <3>1. i - (k - 1) \in 1 .. Len(releases) - k /\ ~(i <= Len(Before)) /\ k + (i - (k - 1)) = i + 1
      BY <1>1, <1>2, <2>2
    <3>. QED
      BY <1>2, <1>3, <1>5, <1>6, <2>2, <3>1
  <2>. QED
    BY <2>1, <2>2
<1>. QED
  BY <1>1, <1>4, <1>5, <1>6, <1>7

LEMMA OneMore ==
    ASSUME TypeOK, NEW r, releases' = Append(releases, r), r \in Releases
    PROVE  /\ Len(releases) \in Nat /\ Len(releases') = Len(releases) + 1
           /\ \A i \in 1 .. Len(releases) : releases'[i] = releases[i]
           /\ releases'[Len(releases) + 1] = r
           /\ releases' \in Seq(Releases)
<1>1. releases \in Seq(Releases)
  BY DEF TypeOK, GitHubOK
<1>. QED
  BY <1>1, AppendProperties, LenProperties

\* A draft more, or a draft less, publishes nothing.
LEMMA DraftMore ==
    ASSUME TypeOK, PublishedIsTagged, UNCHANGED tags,
           NEW r \in Releases, r.draft, releases' = Append(releases, r)
    PROVE  releases' \in Seq(Releases) /\ PublishedIsTagged'
<1>1. /\ releases' \in Seq(Releases) /\ Len(releases') = Len(releases) + 1 /\ Len(releases) \in Nat
      /\ \A i \in 1 .. Len(releases) : releases'[i] = releases[i]
      /\ releases'[Len(releases) + 1] = r
  BY OneMore
<1>. QED
  BY <1>1 DEF PublishedIsTagged

LEMMA DraftLess ==
    ASSUME TypeOK, PublishedIsTagged, UNCHANGED tags,
           NEW k \in 1 .. Len(releases), releases' = RemoveAt(releases, k)
    PROVE  releases' \in Seq(Releases) /\ PublishedIsTagged'
<1>1. /\ Len(releases) \in Nat /\ Len(releases') = Len(releases) - 1 /\ releases' \in Seq(Releases)
      /\ \A i \in 1 .. Len(releases) - 1 : releases'[i] = IF i < k THEN releases[i] ELSE releases[i + 1]
  BY OneLess
<1>2. ASSUME NEW i \in 1 .. Len(releases) - 1
      PROVE  releases'[i].draft \/ tags'[releases'[i].version] # 0
  <2>1. i \in 1 .. Len(releases) /\ i + 1 \in 1 .. Len(releases)
    BY <1>1
  <2>2. releases'[i] = releases[i] \/ releases'[i] = releases[i + 1]
    BY <1>1
  <2>. QED
    BY <2>1, <2>2 DEF PublishedIsTagged
<1>. QED
  BY <1>1, <1>2 DEF PublishedIsTagged

\* With what the rest rests on as it was, so is the rest.
LEMMA SameJobs ==
    ASSUME IInv, GitHubOK', UNCHANGED <<main, tags, releases, branches, propose, publish>>
    PROVE  IInv'
<1>1. ProposeOK' /\ PublishOK'
  BY DEF IInv, TypeOK, ProposeOK, PublishOK, Commits, Version, Top
<1>2. PublishedIsTagged' /\ GreenIsTagged'
  BY DEF IInv, PublishedIsTagged, GreenIsTagged, Version, Top
<1>3. OrderOK'
  BY DEF IInv, OrderOK, LogsOK, Ordered, Behind, CheckedOK, AllBehind, BranchOK, KnownOK
<1>. QED
  BY <1>1, <1>2, <1>3 DEF IInv, TypeOK

\* The propose job moves on while main and the tags stay, with all it has learnt.
LEMMA Pushes ==
    ASSUME IInv, NEW log \in Logs, Ordered(log), NEW rel \in BOOLEAN, Pushed(log, rel),
           pr' \in [open : BOOLEAN, title : Versions \cup {0}]
    PROVE  IInv'
<1>. DEFINE Commit == [log |-> log, rel |-> rel]
<1>1. main \in Seq([log : Logs, rel : BOOLEAN]) /\ Commit \in [log : Logs, rel : BOOLEAN] /\ main' = Append(main, Commit)
  BY DEF Pushed, IInv, TypeOK, GitHubOK
<1>2. /\ main' \in Seq([log : Logs, rel : BOOLEAN]) /\ Len(main') = Len(main) + 1
      /\ \A n \in 1 .. Len(main) : main'[n] = main[n]
      /\ main'[Len(main) + 1] = Commit
  <2>. HIDE DEF Commit
  <2>. QED
    BY <1>1, AppendProperties
<1>3. UNCHANGED <<tags, releases, branches>>
  BY DEF Pushed
<1>4. propose' = [propose EXCEPT !.disturbed = TRUE] /\ propose'.disturbed \in BOOLEAN
  BY DEF Pushed, IInv, TypeOK, ProposeOK, Proposings
<1>5. publish' = [publish EXCEPT !.disturbed = publish.disturbed \/ publish.pc \in Asking]
  BY DEF Pushed
<1>6. Len(main) \in Nat /\ Len(main) > 0
  BY <1>1, LenProperties DEF IInv, TypeOK, GitHubOK
<1>7. Commits = 1 .. Len(main) /\ Commits' = 1 .. Len(main) + 1 /\ Commits \subseteq Commits'
  BY <1>2, <1>6 DEF Commits
<1>8. GitHubOK'
  <2>1. group' = [group EXCEPT !.waiting = [commit |-> Len(main) + 1, event |-> "push", version |-> 0]]
    BY DEF Pushed, Waits
  <2>2. group' \in [active : Runs, waiting : Runs] /\ group'.waiting.commit = Len(main) + 1
    <3>1. group \in [active : Runs, waiting : Runs]
      BY DEF IInv, TypeOK, GitHubOK
    <3>2. [commit |-> Len(main) + 1, event |-> "push", version |-> 0] \in Runs
      BY <1>6 DEF Runs
    <3>. QED
      BY <3>1, <3>2, <2>1
  <2>. QED
    BY <1>2, <1>3, <1>6, <1>7, <2>2 DEF GitHubOK, IInv, TypeOK
<1>9. ProposeOK'
  BY <1>4, <1>7 DEF ProposeOK, Proposings, IInv, TypeOK
<1>10. \A n \in Commits : Top(n)' = Top(n)
  BY <1>2, <1>7 DEF Top
<1>11. /\ publish' \in Publishings
       /\ publish'.pc = publish.pc /\ publish'.exit = publish.exit /\ publish'.head = publish.head
  BY <1>5 DEF PublishOK, IInv, TypeOK, Publishings
<1>12. PublishOK' /\ GreenIsTagged'
  <2>1. publish.head \in Commits => Version' = Version
    BY <1>10, <1>11 DEF Version
  <2>2. publish.pc # "done" \/ publish.exit = "0" => publish.head \in Commits
    BY DEF PublishOK, IInv, TypeOK
  <2>. QED
    BY <1>3, <1>7, <1>11, <2>1, <2>2 DEF PublishOK, GreenIsTagged, IInv, TypeOK
<1>13. PublishedIsTagged'
  BY <1>3 DEF PublishedIsTagged, IInv
<1>14. OrderOK'
  <2>1. LogsOK'
    <3>. SUFFICES ASSUME NEW n \in 1 .. Len(main) + 1 PROVE Ordered(main[n].log)'
      BY <1>2 DEF LogsOK
    <3>1. CASE n \in 1 .. Len(main)
      <4>1. Ordered(main[n].log) /\ main'[n] = main[n]
        BY <3>1, <1>2 DEF IInv, OrderOK, LogsOK
      <4>. QED
        BY <4>1, <1>3 DEF Ordered, Behind
    <3>2. CASE n = Len(main) + 1
      BY <3>2, <1>2, <1>3 DEF Ordered, Behind
    <3>. QED
      BY <3>1, <3>2, <1>6
  <2>2. CheckedOK'
    BY <1>2, <1>3, <1>4, <1>7 DEF CheckedOK, IInv, TypeOK, ProposeOK, Proposings, OrderOK, AllBehind, Behind
  <2>3. BranchOK' /\ KnownOK'
    BY <1>3, <1>4 DEF BranchOK, KnownOK, Behind, IInv, OrderOK, TypeOK, ProposeOK, Proposings
  <2>. QED
    BY <2>1, <2>2, <2>3 DEF OrderOK
<1>. QED
  BY <1>8, <1>9, <1>12, <1>13, <1>14 DEF IInv, TypeOK

\* What the owner may do next to a push keeps the order of the changelog.
LEMMA OwnerKeeps ==
    ASSUME IInv, Owner
    PROVE  IInv'
<1>0. TypeOK
  BY DEF IInv
<1>1. TipLog \in Seq(Versions \cup {0}) /\ Ordered(TipLog) /\ Len(main) \in Nat /\ Len(main) > 0
  <2>1. TipLog \in Seq(Versions \cup {0}) /\ Len(main) \in Nat /\ Len(main) > 0
    BY <1>0, Types DEF Logs, TypeOK, GitHubOK
  <2>2. LogsOK /\ Len(main) \in 1 .. Len(main)
    BY <2>1 DEF IInv, OrderOK
  <2>. QED
    BY <2>1, <2>2 DEF LogsOK, TipLog
<1>2. CASE Push
  <2>0. pr' \in [open : BOOLEAN, title : Versions \cup {0}]
    BY <1>0, <1>2 DEF TypeOK, GitHubOK, Push
  <2>1. CASE \E rel \in BOOLEAN : Pushed(TipLog, rel)
    BY <1>1, <2>0, <2>1, Pushes DEF Logs
  <2>2. CASE Pushed(<<0>> \o TipLog, FALSE)
    <3>1. /\ <<0>> \o TipLog \in Seq(Versions \cup {0})
          /\ Len(<<0>> \o TipLog) = Len(TipLog) + 1 /\ Len(TipLog) \in Nat
          /\ (<<0>> \o TipLog)[1] = 0
          /\ \A i \in 2 .. Len(TipLog) + 1 : (<<0>> \o TipLog)[i] = TipLog[i - 1]
      BY <1>1
    <3>2. Ordered(<<0>> \o TipLog)
      BY <3>1, <1>1 DEF Ordered
    <3>. QED
      BY <3>1, <3>2, <2>0, <2>2, Pushes DEF Logs
  <2>. QED
    BY <1>2, <2>1, <2>2 DEF Push
<1>3. CASE Withdraw
  <2>0. pr' \in [open : BOOLEAN, title : Versions \cup {0}]
    BY <1>0, <1>3 DEF TypeOK, GitHubOK, Withdraw
  <2>1. /\ Tail(TipLog) \in Seq(Versions \cup {0}) /\ Len(Tail(TipLog)) = Len(TipLog) - 1
        /\ \A i \in 1 .. Len(TipLog) - 1 : Tail(TipLog)[i] = TipLog[i + 1]
        /\ Len(TipLog) \in Nat
    BY <1>1, <1>3 DEF Withdraw
  <2>2. Ordered(Tail(TipLog))
    BY <2>1, <1>1 DEF Ordered
  <2>. QED
    BY <1>3, <2>0, <2>1, <2>2, Pushes DEF Logs, Withdraw
<1>4. CASE Merge
  <2>0. pr' \in [open : BOOLEAN, title : Versions \cup {0}]
    BY <1>0, <1>4 DEF TypeOK, GitHubOK, Merge
  <2>1. branches.release.log \in Logs
    BY <1>0 DEF TypeOK, GitHubOK
  <2>2. Ordered(branches.release.log)
    BY <2>1 DEF IInv, OrderOK, BranchOK, Ordered
  <2>. QED
    BY <1>4, <2>0, <2>1, <2>2, Pushes DEF Merge
<1>5. CASE Tag
  <2>1. PICK v \in Picked, n \in Commits : tags[v] = 0 /\ tags' = [tags EXCEPT ![v] = n]
    BY <1>5 DEF Tag
  <2>2. TagsStay
    BY <2>1, <1>0, <1>1, Types, ReleaseAssumption DEF TagsStay, TypeOK, GitHubOK
  <2>3. UNCHANGED <<main, releases, branches, pr, group>> /\ Disturb
    BY <1>5 DEF Tag
  <2>. QED
    BY <1>0, <2>2, <2>3, DisturbStays, GitHubStays, PublishedStays DEF IInv, TypeOK, GitHubOK
<1>6. CASE MakeDraft
  <2>1. PICK v \in Picked : releases' = Append(releases, Draft(v, Len(main), Bytes(0, FALSE)))
    BY <1>6 DEF MakeDraft
  <2>2. Draft(v, Len(main), Bytes(0, FALSE)) \in Releases
    BY <1>1, ReleaseAssumption DEF Draft, Bytes, Releases, Content
  <2>3. UNCHANGED <<main, tags, branches, pr, group>> /\ Disturb
    BY <1>6 DEF MakeDraft
  <2>4. TagsStay
    BY <1>0, <2>3 DEF TagsStay, TypeOK, GitHubOK
  <2>5. Draft(v, Len(main), Bytes(0, FALSE)).draft
    BY DEF Draft
  <2>6. releases' \in Seq(Releases) /\ PublishedIsTagged'
    BY <2>1, <2>2, <2>3, <2>5, DraftMore DEF IInv
  <2>. QED
    BY <2>3, <2>4, <2>6, DisturbStays, GitHubStays DEF IInv, TypeOK
<1>7. CASE Dispatch \/ Rerun
  <2>1. UNCHANGED <<main, tags, releases, branches, pr, propose, publish>>
    BY <1>7 DEF Dispatch, Rerun
  <2>2. PICK n \in Commits, event \in {"push", "dispatch"}, v \in Versions \cup {0} : Waits(n, event, v)
    BY <1>0, <1>1, <1>7, Types, ReleaseAssumption DEF Dispatch, Rerun
  <2>3. group' \in [active : Runs, waiting : Runs] /\ group'.waiting.commit = n
    <3>1. group \in [active : Runs, waiting : Runs]
      BY <1>0 DEF TypeOK, GitHubOK
    <3>2. [commit |-> n, event |-> event, version |-> v] \in Runs
      BY <1>1 DEF Runs, Commits
    <3>. QED
      BY <2>2, <3>1, <3>2 DEF Waits
  <2>4. GitHubOK'
    BY <1>0, <2>1, <2>3 DEF GitHubOK, Commits, TypeOK
  <2>. QED
    BY <1>0, <2>1, <2>4, SameJobs DEF IInv
<1>. QED
  BY <1>2, <1>3, <1>4, <1>5, <1>6, <1>7 DEF Owner

\* The next run, and a job that is killed.
LEMMA StartKeeps ==
    ASSUME IInv, Start
    PROVE  IInv'
<1>1. UNCHANGED <<main, tags, releases, branches, pr>> /\ TypeOK /\ group.waiting.commit \in Commits
  BY DEF Start, IInv, TypeOK, GitHubOK
<1>2. /\ propose' = [Proposing EXCEPT !.pc = "checkout", !.head = group.waiting.commit]
      /\ publish' \in {Publishing, [Publishing EXCEPT !.pc = "checkout", !.head = group.waiting.commit]}
      /\ group' = [active |-> group.waiting, waiting |-> NoRun]
  BY DEF Start
<1>3. GitHubOK'
  <2>1. NoRun \in Runs
    BY DEF NoRun, Runs
  <2>. QED
    BY <1>1, <1>2, <2>1 DEF TypeOK, GitHubOK
<1>. DEFINE n == group.waiting.commit
<1>4. n \in Nat /\ n \in Commits'
  BY <1>1 DEF Commits
<1>. HIDE DEF n
<1>5. ProposeOK' /\ propose'.pc = "checkout" /\ propose'.tags = [v \in Versions |-> 0]
  <2>1. [v \in Versions |-> 0] \in [Versions -> Nat]
    OBVIOUS
  <2>2. /\ propose' \in Proposings /\ propose'.head = n
        /\ propose'.pc = "checkout" /\ propose'.tags = [v \in Versions |-> 0]
    BY <1>2, <1>4, <2>1 DEF Proposings, Proposing, ProposeSteps, Exits, n
  <2>. QED
    BY <1>4, <2>2 DEF ProposeOK
<1>6. PublishOK' /\ GreenIsTagged'
  <2>. DEFINE Going == [Publishing EXCEPT !.pc = "checkout", !.head = n]
  <2>1. Publishing \in Publishings /\ Publishing.pc = "done" /\ Publishing.exit = "none"
    BY DEF Publishing, Publishings, PublishSteps, Exits
  <2>2. Going \in Publishings /\ Going.pc = "checkout" /\ Going.exit = "none" /\ Going.head = n
    BY <1>4 DEF Publishing, Publishings, PublishSteps, Exits
  <2>3. publish' \in {Publishing, Going}
    BY <1>2 DEF n
  <2>. QED
    BY <1>4, <2>1, <2>2, <2>3 DEF PublishOK, GreenIsTagged
<1>7. PublishedIsTagged'
  BY <1>1 DEF PublishedIsTagged, IInv
<1>8. OrderOK'
  BY <1>1, <1>5 DEF OrderOK, LogsOK, Ordered, Behind, CheckedOK, BranchOK, KnownOK, IInv
<1>. QED
  BY <1>3, <1>5, <1>6, <1>7, <1>8 DEF IInv, TypeOK

LEMMA KillKeeps ==
    ASSUME IInv, Kill
    PROVE  IInv'
<1>1. UNCHANGED <<main, tags, releases, branches, pr, group>> /\ TagsStay
  BY DEF Kill, github, IInv, TypeOK, GitHubOK, TagsStay
<1>2. GitHubOK' /\ PublishedIsTagged'
  BY <1>1, GitHubStays, PublishedStays DEF IInv, TypeOK, GitHubOK
<1>3. ProposeOK' /\ OrderOK'
  <2>1. \/ UNCHANGED propose
        \/ propose' = [propose EXCEPT !.pc = "done", !.exit = "killed", !.disturbed = TRUE]
    BY DEF Kill
  <2>2. /\ propose' \in Proposings /\ propose'.pc \in {propose.pc, "done"}
        /\ propose'.head = propose.head /\ propose'.tags = propose.tags /\ propose'.version = propose.version
    BY <2>1 DEF IInv, TypeOK, ProposeOK, Proposings, ProposeSteps, Exits
  <2>. QED
    BY <1>1, <2>2, ProposeStays DEF IInv
<1>4. PublishOK' /\ GreenIsTagged'
  <2>1. \/ UNCHANGED publish
        \/ publish' = [publish EXCEPT !.pc = "done", !.exit = "killed", !.disturbed = TRUE]
    BY DEF Kill
  <2>2. /\ publish' \in Publishings /\ publish'.head = publish.head
        /\ \/ publish'.pc = publish.pc /\ publish'.exit = publish.exit
           \/ publish'.pc = "done" /\ publish'.exit \in {"1", "killed"}
    BY <2>1 DEF IInv, TypeOK, PublishOK, Publishings, PublishSteps, Exits
  <2>. QED
    BY <1>1, <2>2, PublishStays DEF IInv
<1>. QED
  BY <1>2, <1>3, <1>4 DEF IInv, TypeOK

\* The propose job takes a step, and nothing else.
LEMMA AsBefore ==
    ASSUME IInv, UNCHANGED <<main, tags, releases, branches, pr, group, publish>>, ProposeOK', CheckedOK', KnownOK'
    PROVE  IInv'
<1>1. GitHubOK' /\ PublishOK'
  BY DEF IInv, TypeOK, GitHubOK, PublishOK, Commits, Version, Top
<1>2. PublishedIsTagged' /\ GreenIsTagged'
  BY DEF IInv, PublishedIsTagged, GreenIsTagged, Version, Top
<1>3. LogsOK' /\ BranchOK'
  BY DEF IInv, OrderOK, LogsOK, Ordered, Behind, BranchOK
<1>. QED
  BY <1>1, <1>2, <1>3 DEF IInv, TypeOK, OrderOK

Late == {"staging", "commit", "branch", "clean", "pr"}

\* The propose job goes on to a later step, or ends, whatever it has written.
LEMMA ProposeMoves ==
    ASSUME IInv, UNCHANGED <<main, tags, releases, group, publish>>,
           branches' \in [staging : Int, release : [base : Nat, log : Logs]], BranchOK',
           pr' \in [open : BOOLEAN, title : Versions \cup {0}],
           propose' \in Proposings,
           propose'.pc \in {propose.pc, "done"} \/ (propose.pc \in Late /\ propose'.pc \in Late),
           propose'.head = propose.head, propose'.tags = propose.tags, propose'.version = propose.version
    PROVE  IInv'
<1>1. GitHubOK'
  BY DEF IInv, TypeOK, GitHubOK, Commits
<1>2. ProposeOK'
  BY DEF IInv, TypeOK, ProposeOK, Late, Commits
<1>3. PublishOK' /\ GreenIsTagged'
  BY DEF IInv, TypeOK, PublishOK, GreenIsTagged, Commits, Version, Top
<1>4. PublishedIsTagged'
  BY DEF IInv, PublishedIsTagged
<1>5. OrderOK'
  BY DEF IInv, OrderOK, LogsOK, Ordered, Behind, CheckedOK, AllBehind, KnownOK, Late
<1>. QED
  BY <1>1, <1>2, <1>3, <1>4, <1>5 DEF IInv, TypeOK

OnTo(step) ==
    /\ propose' \in Proposings /\ propose'.pc \in {step, "done"}
    /\ propose'.head = propose.head /\ propose'.tags = propose.tags /\ propose'.version = propose.version

LEMMA OnToThem ==
    ASSUME IInv, NEW step \in ProposeSteps,
           ProposeTo(step) \/ ProposeBreaks \/ (\E code \in Exits : ProposeEnds(code))
    PROVE  OnTo(step)
<1>1. propose \in Proposings
  BY DEF IInv, TypeOK, ProposeOK
<1>2. CASE ProposeTo(step)
  BY <1>1, <1>2 DEF ProposeTo, OnTo, Proposings
<1>3. CASE ProposeBreaks
  BY <1>1, <1>3 DEF ProposeBreaks, OnTo, Proposings, ProposeSteps, Exits
<1>4. CASE \E code \in Exits : ProposeEnds(code)
  BY <1>1, <1>4 DEF ProposeEnds, OnTo, Proposings, ProposeSteps
<1>. QED
  BY <1>2, <1>3, <1>4

LEMMA StagingMoves ==
    ASSUME IInv, UNCHANGED <<main, tags, releases, pr, group, publish>>,
           NEW n \in Int, branches' \in {branches, [branches EXCEPT !.staging = n]},
           NEW step \in ProposeSteps, OnTo(step),
           step = propose.pc \/ (propose.pc \in Late /\ step \in Late)
    PROVE  IInv'
<1>1. /\ branches \in [staging : Int, release : [base : Nat, log : Logs]] /\ BranchOK
      /\ pr \in [open : BOOLEAN, title : Versions \cup {0}]
  BY DEF IInv, TypeOK, GitHubOK, OrderOK
<1>2. branches' \in [staging : Int, release : [base : Nat, log : Logs]] /\ branches'.release = branches.release
  BY <1>1
<1>3. BranchOK'
  BY <1>1, <1>2 DEF BranchOK, Behind
<1>4. propose'.pc \in {propose.pc, "done"} \/ (propose.pc \in Late /\ propose'.pc \in Late)
  BY DEF OnTo
<1>. QED
  BY <1>1, <1>2, <1>3, <1>4, ProposeMoves DEF OnTo

\* A step of the propose job: past ReadBase, all that its head's log lists is tagged.
LEMMA ProposeKeeps ==
    ASSUME IInv, Propose
    PROVE  IInv'
<1>0. /\ propose \in Proposings /\ propose.pc \in ProposeSteps /\ propose.head \in Int
      /\ pr \in [open : BOOLEAN, title : Versions \cup {0}]
      /\ branches \in [staging : Int, release : [base : Nat, log : Logs]]
      /\ tags \in [Versions -> Nat]
  BY DEF IInv, TypeOK, ProposeOK, GitHubOK, Proposings
<1>1. CASE CheckoutToPropose
  <2>1. /\ propose' \in Proposings /\ propose'.pc = "base" /\ propose'.tags = tags /\ propose'.head = propose.head
        /\ propose.pc # "done" /\ UNCHANGED <<main, tags, releases, branches, pr, group, publish>>
    BY <1>0, <1>1 DEF CheckoutToPropose, github, Proposings, ProposeSteps
  <2>2. ProposeOK' /\ CheckedOK' /\ KnownOK'
    BY <2>1 DEF ProposeOK, CheckedOK, KnownOK, IInv, TypeOK, Commits
  <2>. QED
    BY <2>1, <2>2, AsBefore DEF IInv
<1>2. CASE ReadBase
  <2>1. propose.pc = "base" /\ UNCHANGED <<main, tags, releases, branches, pr, group, publish>>
    BY <1>2 DEF ReadBase, github
  <2>2. CASE \E code \in Exits : ProposeEnds(code)
    <3>1. OnTo(propose.pc)
      BY <1>0, <2>2, OnToThem
    <3>. QED
      BY <1>0, <2>1, <3>1, StagingMoves
  <2>3. CASE ProposeTo("list") /\ ~Unreadable(propose.head) /\ ~BeingPublished
    <3>1. OnTo("list")
      BY <2>3, OnToThem DEF ProposeSteps
    <3>2. propose.head \in Commits /\ Top(propose.head) \in Versions \cup {0}
      BY <2>1, Types DEF IInv, TypeOK, ProposeOK
    <3>. DEFINE log == main[propose.head].log
    <3>3. log \in Seq(Versions \cup {0}) /\ Ordered(log) /\ Len(log) \in Nat
      BY <3>2, Types DEF Logs, IInv, OrderOK, LogsOK
    <3>4. log # <<>> => log[1] # 0 /\ Behind(log[1])
      BY <2>3, <3>2, <3>3 DEF Unreadable, BeingPublished, Top, Known, Tagged, Behind, IInv, OrderOK, KnownOK
    <3>5. AllBehind(log)
      <4>. SUFFICES ASSUME NEW j \in 1 .. Len(log) PROVE Behind(log[j])
        BY DEF AllBehind
      <4>1. log # <<>> /\ 1 \in 1 .. Len(log)
        BY <3>3
      <4>2. CASE j = 1
        BY <4>1, <4>2, <3>4
      <4>3. CASE j # 1
        BY <4>1, <4>3, <3>3, <3>4 DEF Ordered
      <4>. QED
        BY <4>2, <4>3
    <3>6. propose'.pc \in {"list", "done"} /\ propose'.head = propose.head /\ propose'.tags = propose.tags
          /\ propose' \in Proposings
      BY <3>1 DEF OnTo
    <3>7. ProposeOK' /\ CheckedOK' /\ KnownOK'
      BY <2>1, <3>2, <3>5, <3>6 DEF ProposeOK, CheckedOK, KnownOK, IInv, OrderOK, Commits, AllBehind, Behind
    <3>. QED
      BY <2>1, <3>7, AsBefore DEF IInv
  <2>. QED
    BY <1>2, <2>2, <2>3 DEF ReadBase, Exits
<1>3. CASE List
  <2>1. propose.pc = "list" /\ UNCHANGED <<main, tags, releases, branches, pr, group, publish>>
    BY <1>3 DEF List, github
  <2>2. CASE \E code \in Exits : ProposeEnds(code)
    <3>1. OnTo(propose.pc)
      BY <1>0, <2>2, OnToThem
    <3>. QED
      BY <1>0, <2>1, <3>1, StagingMoves
  <2>3. CASE /\ Chosen \in Versions
             /\ propose' = [propose EXCEPT !.pc = "staging", !.existing = pr.open, !.version = Chosen]
    <3>1. /\ propose' \in Proposings /\ propose'.pc = "staging" /\ propose'.head = propose.head
          /\ propose'.tags = propose.tags /\ propose'.version \in Versions
      BY <1>0, <2>3 DEF Proposings, ProposeSteps
    <3>2. ProposeOK' /\ CheckedOK' /\ KnownOK'
      BY <2>1, <3>1 DEF ProposeOK, CheckedOK, KnownOK, IInv, TypeOK, OrderOK, Commits, AllBehind, Behind
    <3>. QED
      BY <2>1, <3>2, AsBefore DEF IInv
  <2>. QED
    BY <1>3, <2>2, <2>3 DEF List, Exits
<1>4. CASE ProposeCallFails
  BY <1>0, <1>4, OnToThem, StagingMoves DEF ProposeCallFails, github
<1>5. CASE PointStaging
  <2>1. /\ UNCHANGED <<main, tags, releases, pr, group, publish>> /\ OnTo("commit") /\ propose.pc = "staging"
        /\ branches' = [branches EXCEPT !.staging = propose.head]
    BY <1>5, OnToThem DEF PointStaging, Writes, ProposeSteps
  <2>. QED
    BY <1>0, <2>1, StagingMoves DEF Late, ProposeSteps
<1>6. CASE MakeCommit
  <2>1. /\ UNCHANGED <<main, tags, releases, pr, group, publish>> /\ OnTo("branch") /\ propose.pc = "commit"
        /\ branches' = [branches EXCEPT !.staging = -1]
    BY <1>6, OnToThem DEF MakeCommit, Writes, ProposeSteps
  <2>. QED
    BY <2>1, StagingMoves DEF Late, ProposeSteps
<1>7. CASE PointBranch
  <2>1. /\ UNCHANGED <<main, tags, releases, pr, group, publish>> /\ OnTo("clean") /\ propose.pc = "branch"
        /\ branches' = [branches EXCEPT !.release = Proposal]
    BY <1>7, OnToThem DEF PointBranch, Writes, ProposeSteps
  <2>2. /\ propose.head \in Commits /\ propose.version \in Versions /\ main[propose.head].log \in Seq(Versions \cup {0})
        /\ AllBehind(main[propose.head].log)
    BY <2>1, Types DEF IInv, TypeOK, ProposeOK, OrderOK, CheckedOK, Logs
  <2>. DEFINE log == main[propose.head].log
  <2>3. /\ <<propose.version>> \o log \in Seq(Versions \cup {0})
        /\ Len(<<propose.version>> \o log) = Len(log) + 1 /\ Len(log) \in Nat
        /\ \A i \in 2 .. Len(log) + 1 : (<<propose.version>> \o log)[i] = log[i - 1]
    BY <2>2
  <2>4. /\ Proposal.base = propose.head /\ Proposal.log = <<propose.version>> \o log
        /\ Proposal \in [base : Nat, log : Logs]
    BY <2>2, <2>3, <1>0 DEF Proposal, Logs, Proposings
  <2>5. branches'.release = Proposal /\ branches' \in [staging : Int, release : [base : Nat, log : Logs]]
    BY <1>0, <2>1, <2>4
  <2>. DEFINE branch == <<propose.version>> \o log
  <2>6. branches'.release.log = branch /\ Len(branch) = Len(log) + 1
    BY <2>3, <2>4, <2>5
  <2>7. ASSUME NEW j \in 2 .. Len(branch)
        PROVE  Behind(branch[j])
    <3>1. j - 1 \in 1 .. Len(log) /\ branch[j] = log[j - 1]
      BY <2>3
    <3>. QED
      BY <2>2, <3>1 DEF AllBehind
  <2>. HIDE DEF branch
  <2>8. BranchOK'
    BY <2>1, <2>6, <2>7 DEF BranchOK, Behind
  <2>. QED
    BY <1>0, <2>1, <2>5, <2>8, ProposeMoves DEF OnTo, Late
<1>8. CASE DeleteStaging
  <2>1. /\ UNCHANGED <<main, tags, releases, pr, group, publish>> /\ OnTo("pr") /\ propose.pc = "clean"
        /\ branches' = [branches EXCEPT !.staging = 0]
    BY <1>8, OnToThem DEF DeleteStaging, Writes, ProposeSteps
  <2>. QED
    BY <2>1, StagingMoves DEF Late, ProposeSteps
<1>9. CASE PullRequest
  <2>1. /\ UNCHANGED <<main, tags, releases, branches, group, publish>> /\ OnTo("done") /\ propose.pc = "pr"
        /\ pr' = IF propose.existing THEN [pr EXCEPT !.title = propose.version]
                 ELSE [open |-> TRUE, title |-> propose.version]
    BY <1>9, OnToThem DEF PullRequest, Writes, ProposeSteps, Exits
  <2>2. pr' \in [open : BOOLEAN, title : Versions \cup {0}]
    BY <1>0, <2>1 DEF Proposings
  <2>3. BranchOK'
    BY <2>1 DEF IInv, OrderOK, BranchOK, Behind
  <2>. QED
    BY <1>0, <2>1, <2>2, <2>3, ProposeMoves DEF OnTo
<1>. QED
  BY <1>1, <1>2, <1>3, <1>4, <1>5, <1>6, <1>7, <1>8, <1>9 DEF Propose

\* The publish job takes a step that publishes nothing untagged, and ends green
\* only once its version is tagged.
LEMMA PublishMoves ==
    ASSUME IInv, UNCHANGED <<main, branches, pr, group, propose>>, TagsStay,
           releases' \in Seq(Releases), PublishedIsTagged',
           publish.pc \notin {"done", "checkout"},
           publish' \in Publishings, publish'.head = publish.head,
           publish'.pc = "done" /\ publish'.exit = "0" => tags'[Version] # 0
    PROVE  IInv'
<1>1. Version' = Version /\ Version \in Versions /\ publish.head \in Commits
  BY DEF Version, Top, IInv, TypeOK, PublishOK
<1>2. PublishOK' /\ GreenIsTagged'
  BY <1>1 DEF PublishOK, GreenIsTagged, Commits
<1>3. ProposeOK' /\ OrderOK'
  BY ProposeStays DEF IInv, TypeOK, ProposeOK
<1>4. GitHubOK'
  BY GitHubStays DEF IInv, TypeOK
<1>. QED
  BY <1>2, <1>3, <1>4 DEF IInv, TypeOK

GoesTo(step) ==
    /\ publish' \in Publishings /\ publish'.head = publish.head /\ publish'.pc \in {step, "done"}
    /\ publish'.pc = "done" => publish'.exit = "1"

LEMMA GoesThere ==
    ASSUME IInv, NEW step \in PublishSteps \ {"done"}, PublishTo(step) \/ PublishBreaks \/ PublishEnds("1")
    PROVE  GoesTo(step)
<1>1. publish \in Publishings
  BY DEF IInv, TypeOK, PublishOK
<1>2. CASE PublishTo(step)
  BY <1>1, <1>2 DEF PublishTo, GoesTo, Publishings
<1>3. CASE PublishBreaks
  BY <1>1, <1>3 DEF PublishBreaks, GoesTo, Publishings, PublishSteps, Exits
<1>4. CASE PublishEnds("1")
  BY <1>1, <1>4 DEF PublishEnds, GoesTo, Publishings, PublishSteps, Exits
<1>. QED
  BY <1>2, <1>3, <1>4

\* A step that only looks: on to the next one, red, or green with the tag there.
LEMMA LookingKeeps ==
    ASSUME IInv, UNCHANGED <<main, tags, releases, branches, pr, group, propose>>,
           publish.pc \notin {"done", "checkout"},
           \/ \E step \in PublishSteps \ {"done"} : PublishTo(step) \/ PublishBreaks \/ PublishEnds("1")
           \/ PublishEnds("0") /\ tags[Version] # 0
    PROVE  IInv'
<1>1. TagsStay /\ releases' \in Seq(Releases) /\ PublishedIsTagged' /\ publish \in Publishings
  BY DEF IInv, TypeOK, GitHubOK, PublishOK, PublishedIsTagged, TagsStay
<1>2. CASE \E step \in PublishSteps \ {"done"} : PublishTo(step) \/ PublishBreaks \/ PublishEnds("1")
  <2>1. PICK step \in PublishSteps \ {"done"} : GoesTo(step)
    BY <1>2, GoesThere
  <2>. QED
    BY <1>1, <2>1, PublishMoves DEF GoesTo
<1>3. CASE PublishEnds("0") /\ tags[Version] # 0
  <2>1. publish' \in Publishings /\ publish'.head = publish.head
    BY <1>1, <1>3 DEF PublishEnds, Publishings, PublishSteps, Exits
  <2>. QED
    BY <1>1, <1>3, <2>1, PublishMoves
<1>. QED
  BY <1>2, <1>3

\* A step of the publish job.
LEMMA PublishKeeps ==
    ASSUME IInv, Publish
    PROVE  IInv'
<1>0. /\ publish \in Publishings /\ releases \in Seq(Releases) /\ tags \in [Versions -> Nat]
      /\ publish.pc \in PublishSteps
      /\ publish.pc \notin {"done", "checkout"} =>
           Version \in Versions /\ publish.head \in Nat \ {0}
  BY DEF IInv, TypeOK, GitHubOK, PublishOK, Publishings, Commits
<1>1. CASE CheckoutToPublish
  <2>1. publish.pc = "checkout" /\ UNCHANGED <<main, tags, releases, branches, pr, group, propose>>
    BY <1>1 DEF CheckoutToPublish, github
  <2>. DEFINE nothing == Version = 0 \/ tags[Version] # 0
  <2>2. PICK here \in BOOLEAN, due \in BOOLEAN :
          publish' = [publish EXCEPT
                        !.pc = IF nothing THEN "done" ELSE "askTag", !.exit = IF nothing THEN "0" ELSE @,
                        !.reach = Len(main), !.current = here, !.due = due]
    BY <1>1 DEF CheckoutToPublish
  <2>3. publish.head \in Commits /\ Version \in Versions \cup {0} /\ Len(main) \in Nat
    BY <2>1, Types DEF Version, IInv, TypeOK, PublishOK
  <2>4. /\ publish' \in Publishings /\ publish'.head = publish.head
        /\ publish'.pc = IF nothing THEN "done" ELSE "askTag"
    BY <1>0, <2>2, <2>3 DEF Publishings, PublishSteps, Exits
  <2>5. PublishOK' /\ GreenIsTagged'
    <3>1. Version' = Version /\ Commits' = Commits
      BY <2>1, <2>4 DEF Version, Top, Commits
    <3>. QED
      BY <2>1, <2>3, <2>4, <3>1 DEF PublishOK, GreenIsTagged
  <2>6. TagsStay
    BY <1>0, <2>1 DEF TagsStay
  <2>7. ProposeOK' /\ OrderOK'
    BY <2>1, <2>6, ProposeStays DEF IInv, TypeOK, ProposeOK
  <2>8. GitHubOK' /\ PublishedIsTagged'
    BY <1>0, <2>1, <2>6, GitHubStays, PublishedStays DEF IInv, TypeOK
  <2>. QED
    BY <2>5, <2>7, <2>8 DEF IInv, TypeOK
<1>2. CASE AskTag
  BY <1>2, LookingKeeps DEF AskTag, github, PublishSteps
<1>3. CASE AskRelease
  <2>1. Announced => tags[Version] # 0
    BY DEF Announced, Published, Named, Drafts, IInv, PublishedIsTagged
  <2>. QED
    BY <1>3, <2>1, LookingKeeps DEF AskRelease, github, PublishSteps
<1>4. CASE AskHead
  BY <1>4, LookingKeeps DEF AskHead, NotMine, github, PublishSteps
<1>5. CASE Build
  BY <1>5, LookingKeeps DEF Build, PublishSteps
<1>6. CASE AskTagAgain
  BY <1>6, LookingKeeps DEF AskTagAgain, github, PublishSteps
<1>7. CASE State
  BY <1>7, LookingKeeps DEF State, github, PublishSteps
<1>8. CASE Delete
  <2>1. publish.pc = "delete" /\ UNCHANGED <<main, tags, branches, pr, group, propose>>
    BY <1>8 DEF Delete
  <2>2. releases' \in Seq(Releases) /\ PublishedIsTagged'
    <3>1. PICK i \in Drafts(Version) : releases' = RemoveAt(releases, i)
      BY <1>8 DEF Delete
    <3>2. i \in 1 .. Len(releases)
      BY <1>0, <3>1 DEF Drafts, Named
    <3>. QED
      BY <2>1, <3>1, <3>2, DraftLess DEF IInv
  <2>3. /\ publish' \in Publishings /\ publish'.head = publish.head
        /\ publish'.pc = "done" => publish'.exit = "1"
    <3>1. CASE publish' = [publish EXCEPT !.pc = "state", !.deleted = @ + 1]
      <4>1. publish.deleted + 1 \in Nat
        BY <1>0 DEF Publishings
      <4>. QED
        BY <1>0, <3>1, <4>1 DEF Publishings, PublishSteps
    <3>2. CASE PublishBreaks
      BY <3>2, GoesThere DEF GoesTo, PublishSteps
    <3>. QED
      BY <1>8, <3>1, <3>2 DEF Delete
  <2>. QED
    BY <1>0, <2>1, <2>2, <2>3, PublishMoves DEF TagsStay
<1>9. CASE Create
  <2>1. publish.pc = "create" /\ UNCHANGED <<main, tags, branches, pr, group, propose>>
    BY <1>9 DEF Create
  <2>2. PICK whole \in BOOLEAN :
          /\ releases' = Append(releases, Draft(Version, publish.head, Bytes(publish.head, whole)))
          /\ \/ PublishTo("back") \/ PublishBreaks
             \/ publish' = [publish EXCEPT !.pc = "back", !.disturbed = TRUE]
    BY <1>9 DEF Create
  <2>3. releases' \in Seq(Releases) /\ PublishedIsTagged'
    <3>. DEFINE r == Draft(Version, publish.head, Bytes(publish.head, whole))
    <3>1. r \in Releases /\ r.draft
      BY <1>0, <2>1 DEF Draft, Bytes, Releases, Content
    <3>. HIDE DEF r
    <3>2. releases' = Append(releases, r)
      BY <2>2 DEF r
    <3>. QED
      BY <2>1, <3>1, <3>2, DraftMore DEF IInv
  <2>4. /\ publish' \in Publishings /\ publish'.head = publish.head
        /\ publish'.pc = "done" => publish'.exit = "1"
    <3>1. CASE publish' = [publish EXCEPT !.pc = "back", !.disturbed = TRUE]
      BY <1>0, <3>1 DEF Publishings, PublishSteps
    <3>2. CASE PublishTo("back") \/ PublishBreaks
      BY <3>2, GoesThere DEF GoesTo, PublishSteps
    <3>. QED
      BY <2>2, <3>1, <3>2
  <2>. QED
    BY <1>0, <2>1, <2>3, <2>4, PublishMoves DEF TagsStay
<1>10. CASE ReadBack
  BY <1>10, LookingKeeps DEF ReadBack, github, PublishSteps
<1>11. CASE PublishDraft
  <2>1. publish.pc = "publish" /\ UNCHANGED <<main, branches, pr, group, propose>>
    BY <1>11 DEF PublishDraft
  <2>2. PICK i \in Drafts(Version) :
          /\ releases' = [releases EXCEPT ![i].draft = FALSE, ![i].current = publish.current]
          /\ tags' = IF tags[Version] = 0 THEN [tags EXCEPT ![Version] = releases[i].target] ELSE tags
    BY <1>11 DEF PublishDraft
  <2>3. /\ i \in 1 .. Len(releases) /\ releases[i].version = Version
        /\ \A k \in 1 .. Len(releases) : releases[k] \in Releases
    BY <1>0, ElementOfSeq DEF Drafts, Named
  <2>4. TagsStay /\ tags'[Version] # 0
    BY <1>0, <2>1, <2>2, <2>3 DEF TagsStay, Releases
  <2>. DEFINE out == [releases[i] EXCEPT !.draft = FALSE, !.current = publish.current]
  <2>5. out \in Releases /\ out.version = Version
    BY <1>0, <2>3 DEF Releases, Publishings
  <2>6. releases' = [releases EXCEPT ![i] = out]
    BY <1>0, <2>2, <2>3
  <2>. HIDE DEF out
  <2>7. /\ releases' \in Seq(Releases) /\ Len(releases') = Len(releases)
        /\ \A k \in 1 .. Len(releases) : releases'[k] = IF k = i THEN out ELSE releases[k]
    BY <1>0, <2>3, <2>5, <2>6, ExceptSeq
  <2>8. PublishedIsTagged'
    BY <2>3, <2>4, <2>5, <2>7 DEF PublishedIsTagged, IInv, TagsStay, Releases
  <2>9. GoesTo("read")
    BY <1>11, GoesThere DEF PublishDraft, PublishSteps
  <2>. QED
    BY <2>1, <2>4, <2>7, <2>8, <2>9, PublishMoves DEF GoesTo
<1>12. CASE ReadTag
  BY <1>0, <1>12, LookingKeeps DEF ReadTag, github, PublishSteps
<1>13. CASE PublishCallFails
  BY <1>0, <1>13, LookingKeeps DEF PublishCallFails, github
<1>. QED
  BY <1>1, <1>2, <1>3, <1>4, <1>5, <1>6, <1>7, <1>8, <1>9, <1>10, <1>11, <1>12, <1>13 DEF Publish

LEMMA InitIInv ==
    ASSUME Init
    PROVE  IInv
<1>1. /\ main = <<[log |-> <<>>, rel |-> TRUE]>> /\ main \in Seq([log : Logs, rel : BOOLEAN])
      /\ Len(main) = 1 /\ main[1].log = <<>>
  BY DEF Init, Logs
<1>2. GitHubOK
  <2>1. group \in [active : Runs, waiting : Runs] /\ group.waiting.commit = 1
    BY DEF Init, Runs, NoRun
  <2>2. branches \in [staging : Int, release : [base : Nat, log : Logs]]
    BY DEF Init, Logs
  <2>3. releases \in Seq(Releases) /\ tags \in [Versions -> Nat] /\ pr \in [open : BOOLEAN, title : Versions \cup {0}]
    BY DEF Init
  <2>. QED
    BY <1>1, <2>1, <2>2, <2>3 DEF GitHubOK, Commits
<1>3. ProposeOK /\ propose.pc = "done" /\ propose.tags = [v \in Versions |-> 0]
  BY DEF Init, Proposing, Proposings, ProposeOK, ProposeSteps, Exits
<1>4. PublishOK /\ GreenIsTagged
  BY DEF Init, Publishing, Publishings, PublishOK, GreenIsTagged, PublishSteps, Exits
<1>5. PublishedIsTagged
  BY DEF Init, PublishedIsTagged
<1>6. OrderOK
  BY <1>1, <1>3 DEF Init, OrderOK, LogsOK, Ordered, CheckedOK, BranchOK, KnownOK
<1>. QED
  BY <1>2, <1>3, <1>4, <1>5, <1>6 DEF IInv, TypeOK

LEMMA NextIInv ==
    ASSUME IInv, [Next]_vars
    PROVE  IInv'
<1>1. CASE Next
  BY <1>1, StartKeeps, KillKeeps, OwnerKeeps, ProposeKeeps, PublishKeeps DEF Next
<1>2. CASE UNCHANGED vars
  <2>1. GitHubOK' /\ UNCHANGED <<main, tags, releases, branches, propose, publish>>
    BY <1>2 DEF vars, github, IInv, TypeOK, GitHubOK, Commits
  <2>. QED
    BY <2>1, SameJobs
<1>. QED
  BY <1>1, <1>2

\* No build's attestation is ever taken back.
LEMMA AttestedStays ==
    ASSUME [Next]_vars
    PROVE  attested \subseteq attested'
<1>1. CASE Start \/ Kill \/ UNCHANGED vars
  BY <1>1 DEF Start, Kill, github, vars
<1>2. CASE Owner
  BY <1>2 DEF Owner, Push, Withdraw, Merge, Pushed, Tag, MakeDraft, Dispatch, Rerun
<1>3. CASE Propose
  BY <1>3 DEF Propose, CheckoutToPropose, ReadBase, List, ProposeCallFails, PointStaging, MakeCommit,
              PointBranch, DeleteStaging, PullRequest, github
<1>4. CASE Publish
  BY <1>4 DEF Publish, CheckoutToPublish, AskTag, AskRelease, AskHead, Build, AskTagAgain, State, Delete,
              Create, ReadBack, PublishDraft, ReadTag, PublishCallFails, github
<1>. QED
  BY <1>1, <1>2, <1>3, <1>4 DEF Next

\* The release pipeline's state has its type, and what it promises rests on:
\* published versions are tagged, and below a version of a changelog all are.
THEOREM TypeCorrect == FetchSpec => []IInv
<1>1. FetchInit => IInv
  BY InitIInv DEF FetchInit
<1>2. IInv /\ [FetchNext]_fetchVars => IInv'
  <2>1. [FetchNext]_fetchVars => [Next]_vars
    BY DEF FetchNext, fetchVars, FindTag, Download, ClearMode, VerifyChecksum, VerifyAttestation,
           MakeExecutable, FetchBreaks
  <2>. QED
    BY <2>1, NextIInv
<1>. QED
  BY <1>1, <1>2, PTL DEF FetchSpec

\* A publish job that is green has not passed a release over (release-publish):
\* whatever the owner does by hand, whatever fails, the version its commit names
\* is tagged, and stays so.
THEOREM GreenIsOutHolds == FetchSpec => []GreenIsOut
<1>1. IInv => GreenIsOut
  BY DEF IInv, GreenIsTagged, GreenIsOut, Out
<1>. QED
  BY <1>1, TypeCorrect, PTL

\* No version is put on main above one that is still to be published
\* (release-pull-request), with any number of pushes, merges and re-runs.
THEOREM OneReleaseAtATimeHolds == FetchSpec => []OneReleaseAtATime
<1>1. IInv => OneReleaseAtATime
  <2>. SUFFICES ASSUME IInv, TipLog # <<>>, Head(TipLog) # 0, NEW i \in 2 .. Len(TipLog)
                PROVE  TipLog[i] \in {0} \cup Tagged(tags)
    BY DEF OneReleaseAtATime
  <2>1. TipLog \in Seq(Versions \cup {0}) /\ Len(main) \in Nat /\ Len(main) > 0
    BY Types DEF IInv, TypeOK, GitHubOK, Logs
  <2>2. Ordered(TipLog)
    BY <2>1 DEF IInv, OrderOK, LogsOK, TipLog
  <2>3. Len(TipLog) \in Nat /\ TipLog[1] # 0 /\ i \in 1 .. Len(TipLog) /\ 1 \in 1 .. Len(TipLog) /\ 1 < i
    BY <2>1
  <2>4. Behind(TipLog[i]) /\ TipLog[i] \in Versions \cup {0}
    BY <2>1, <2>2, <2>3, ElementOfSeq DEF Ordered
  <2>. QED
    BY <2>4 DEF Behind, Tagged
<1>. QED
  BY <1>1, TypeCorrect, PTL

\* What the fetching script makes executable, or leaves so, is the build of the
\* commit that was pinned, whole and attested (fetch-release-binary).
THEOREM ExecutableIsProvedHolds == FetchSpec => []ExecutableIsProved
<1>1. FetchInit => FetchOK
  BY DEF FetchInit, FetchOK, Scripts
<1>2. IInv /\ FetchOK /\ [FetchNext]_fetchVars => FetchOK'
  <2>. SUFFICES ASSUME IInv, FetchOK, [FetchNext]_fetchVars PROVE FetchOK'
    OBVIOUS
  <2>0. fetch \in Scripts
    BY DEF FetchOK
  <2>1. CASE UNCHANGED fetch /\ [Next]_vars
    BY <2>1, AttestedStays DEF FetchOK
  <2>2. CASE FetchFails /\ fetch.pc \in {"download", "mode", "checksum", "attestation", "executable"}
    <3>1. fetch' \in Scripts /\ fetch'.exec = fetch.exec
          /\ fetch'.pc = IF fetch.pc \in {"download", "mode"} THEN "left" ELSE "failed"
      BY <2>0, <2>2 DEF FetchFails, Scripts
    <3>. QED
      BY <2>2, <3>1 DEF FetchOK
  <2>3. CASE FindTag
    <3>1. PICK n \in Commits, v \in Versions : fetch' = [fetch EXCEPT !.pc = "download", !.sha = n, !.tag = v]
      BY <2>3 DEF FindTag, TagsAt
    <3>2. n \in Nat /\ fetch.pc = "idle"
      BY <2>3, Types DEF IInv, FindTag
    <3>3. fetch' \in Scripts /\ fetch'.exec = fetch.exec /\ fetch'.pc = "download"
      BY <2>0, <3>1, <3>2 DEF Scripts
    <3>. QED
      BY <3>2, <3>3 DEF FetchOK
  <2>4. CASE Download
    <3>1. CASE FetchFails
      BY <2>2, <2>4, <3>1 DEF Download
    <3>2. CASE \E i \in Published(fetch.tag) : \E a \in Arrives(releases[i].bytes) :
                 fetch' = [fetch EXCEPT !.pc = "mode", !.file = a.file, !.sums = a.sums, !.exec = TRUE]
      <4>1. PICK i \in Published(fetch.tag) : \E a \in Arrives(releases[i].bytes) :
              fetch' = [fetch EXCEPT !.pc = "mode", !.file = a.file, !.sums = a.sums, !.exec = TRUE]
        BY <3>2
      <4>2. PICK a \in Arrives(releases[i].bytes) :
              fetch' = [fetch EXCEPT !.pc = "mode", !.file = a.file, !.sums = a.sums, !.exec = TRUE]
        BY <4>1
      <4>3. releases[i].bytes \in Content
        <5>1. releases \in Seq(Releases) /\ i \in 1 .. Len(releases)
          BY DEF Published, Named, IInv, TypeOK, GitHubOK
        <5>2. releases[i] \in Releases
          BY <5>1, ElementOfSeq
        <5>. QED
          BY <5>2 DEF Releases
      <4>4. a.file \in Content \cup {None} /\ a.sums \in Nat \cup {None}
        <5>1. Damaged \in Content /\ releases[i].bytes.built \in Nat
          BY <4>3 DEF Damaged, Bytes, Content
        <5>2. \/ \E f \in {releases[i].bytes, Damaged, None} : a = [file |-> f, sums |-> releases[i].bytes.built]
              \/ a = [file |-> releases[i].bytes, sums |-> None]
          BY DEF Arrives
        <5>. QED
          BY <4>3, <5>1, <5>2
      <4>5. fetch' \in Scripts /\ fetch'.pc = "mode"
        BY <2>0, <4>2, <4>4 DEF Scripts
      <4>. QED
        BY <4>5 DEF FetchOK
    <3>. QED
      BY <2>4, <3>1, <3>2 DEF Download
  <2>5. CASE ClearMode
    BY <2>0, <2>2, <2>5 DEF ClearMode, FetchOK, Scripts
  <2>6. CASE VerifyChecksum
    BY <2>0, <2>2, <2>6 DEF VerifyChecksum, FetchOK, Scripts, To
  <2>7. CASE VerifyAttestation
    BY <2>0, <2>2, <2>7 DEF VerifyAttestation, FetchOK, Scripts, To, Proved, vars, github
  <2>8. CASE MakeExecutable
    BY <2>0, <2>8 DEF MakeExecutable, FetchOK, Scripts, vars, github
  <2>9. CASE FetchBreaks
    BY <2>2, <2>9 DEF FetchBreaks
  <2>. QED
    BY <2>1, <2>3, <2>4, <2>5, <2>6, <2>7, <2>8, <2>9 DEF FetchNext, fetchVars
<1>3. FetchOK => ExecutableIsProved
  BY DEF FetchOK, ExecutableIsProved
<1>. QED
  BY <1>1, <1>2, <1>3, TypeCorrect, PTL DEF FetchSpec

-----------------------------------------------------------------------------
(* What a release holds, and what a job nothing disturbs does. *)

\* The commit that brought a version in.
Brought(n, v) == n \in Commits /\ Top(n) = v /\ (n > 1 => Top(n - 1) # v)

Truthful(r) ==
    r.draft \/ r.version \in byHand \/
      /\ tags[r.version] = r.target /\ Brought(r.target, r.version)
      /\ r.bytes = Bytes(r.target, TRUE) /\ r.target \in attested /\ r.current

ReleasesOK == \A i \in 1 .. Len(releases) : Truthful(releases[i])

\* From AskHead on, from the build on, and from the second look at the tag on.
Building == {"build", "tag", "state", "delete", "create", "back", "publish"}
Built == {"tag", "state", "delete", "create", "back", "publish"}
Making == {"state", "delete", "create", "back", "publish"}

\* What AskHead will have found if main is still as it was at the checkout.
Foreseen ==
    /\ publish.reach \in Commits
    /\ publish.current <=> Top(publish.reach) = Version /\ ReleaseCommit(Version, publish.reach) = publish.head

Sourced == publish.current /\ Brought(publish.head, Version)

\* Until AskHead has looked, current says what it may find; from there on the
\* commit is the one that brought the version in.
SourceOK ==
    /\ publish.pc \in Asking => Foreseen
    /\ publish.pc \in Building => Sourced
    /\ publish.pc \in Built => publish.head \in attested
    /\ publish.pc \in Making => tags[Version] = 0 \/ Version \in byHand

\* The draft the job made is the only one of its name.
DraftsOK ==
    /\ publish.pc = "create" => Named(Version) = {}
    /\ publish.pc \in {"back", "publish"} =>
         /\ \A i \in Drafts(Version) : releases[i].target = publish.head
         /\ \A i, j \in Drafts(Version) : releases[i] = releases[j]
    /\ publish.pc = "publish" => \A i \in Drafts(Version) : releases[i].bytes = Bytes(publish.head, TRUE)

\* A job that was due to make a release and that nothing disturbed has still all
\* it needs, drafts it can clear included, or is done with it.
DueOK ==
    /\ publish.pc = "checkout" => publish.deleted = 0
    /\ publish.due /\ ~publish.disturbed =>
        /\ publish.pc # "checkout" /\ publish.head \in Commits /\ Version \in Versions
        /\ publish.pc \in Asking => publish.reach = Len(main) /\ publish.current
        /\ publish.pc \in Asking \cup Building => tags[Version] = 0 /\ Published(Version) = {}
        /\ publish.pc \in Asking \cup {"build", "tag", "state", "delete"} =>
             publish.deleted + Cardinality(Drafts(Version)) <= MaxDrafts
        /\ publish.pc = "back" => \A i \in Drafts(Version) : releases[i].bytes = Bytes(publish.head, TRUE)
        /\ publish.pc \in {"read", "done"} => tags[Version] = publish.head /\ Published(Version) # {}
        /\ publish.pc = "done" => publish.exit = "0"

\* A proposal nothing disturbed is on the branch once it is put there, and the
\* pull request it found open still is.
ProposalOK ==
    /\ propose.version # 0 => propose.pc \in Late \cup {"done"}
    /\ propose.version # 0 /\ ~propose.disturbed =>
         /\ propose.pc \in Late /\ propose.existing => pr.open
         /\ propose.pc \in {"clean", "pr", "done"} => branches.release = Proposal
         /\ propose.pc = "done" => propose.exit = "0" /\ pr = [open |-> TRUE, title |-> propose.version]

DeliveryOK == ReleasesOK /\ SourceOK /\ DraftsOK /\ DueOK /\ ProposalOK

LEMMA SmallestIsThere ==
    ASSUME NEW S, S \subseteq Nat, S # {}
    PROVE  Min(S) \in S /\ \A y \in S : Min(S) <= y
<1>. DEFINE Less == OpToRel(<, Nat)
<1>1. \A x, y \in Nat : y < x => <<y, x>> \in Less
  <2>. TAKE x, y \in Nat
  <2>1. <<y, x>> \in Nat \X Nat /\ <<y, x>>[1] = y /\ <<y, x>>[2] = x
    OBVIOUS
  <2>. QED
    BY <2>1 DEF OpToRel
<1>2. \E x \in S : \A y \in S : ~(<<y, x>> \in Less)
  BY NatLessThanWellFounded, WFMin
<1>. HIDE DEF Less
<1>3. PICK x \in S : \A y \in S : ~(<<y, x>> \in Less)
  BY <1>2
<1>4. \A y \in S : x <= y
  <2>. TAKE y \in S
  <2>1. ~(y < x)
    BY <1>1, <1>3
  <2>. QED
    BY <2>1
<1>. QED
  BY <1>4 DEF Min

\* A commit found for a version is the one that brought it in.
LEMMA FoundIsBrought ==
    ASSUME TypeOK, NEW v \in Versions, NEW from \in Commits, Top(from) = v
    PROVE  Brought(ReleaseCommit(v, from), v)
<1>. DEFINE Since(n) == \A m \in n .. from : Top(m) = v
            S == {n \in 1 .. from : Since(n)}
<1>1. Commits = 1 .. Len(main) /\ Len(main) \in Nat
  BY Types
<1>2. from \in Nat /\ from \in 1 .. from
  BY <1>1
<1>3. from \in S
  BY <1>2
<1>4. Min(S) \in S /\ \A y \in S : Min(S) <= y
  BY <1>2, <1>3, SmallestIsThere
<1>. DEFINE n == ReleaseCommit(v, from)
<1>5. n = Min(S)
  BY DEF ReleaseCommit
<1>6. n \in 1 .. from /\ Since(n)
  BY <1>4, <1>5
<1>7. n > 1 => n - 1 \notin S
  BY <1>4, <1>5, <1>6, <1>2
<1>. HIDE DEF n, S
<1>8. n \in Commits /\ Top(n) = v
  BY <1>1, <1>2, <1>6
<1>9. ASSUME n > 1, Top(n - 1) = v
      PROVE  FALSE
  <2>1. n - 1 \in 1 .. from
    BY <1>2, <1>6, <1>9
  <2>2. \A m \in n - 1 .. from : m = n - 1 \/ m \in n .. from
    BY <1>2, <1>6
  <2>3. Since(n - 1)
    BY <1>6, <1>9, <2>2
  <2>. QED
    BY <1>7, <1>9, <2>1, <2>3 DEF S
<1>. QED
  BY <1>8, <1>9 DEF Brought, n

\* main only grows, a tag and an attestation stay, and so does what is by hand.
WorldMoves ==
    /\ \A n \in Commits : n \in Commits' /\ Top(n)' = Top(n)
    /\ \A v \in Versions : tags[v] # 0 => tags'[v] = tags[v]
    /\ attested \subseteq attested' /\ byHand \subseteq byHand'

LEMMA MainGrows ==
    ASSUME TypeOK, NEW log \in Logs, NEW rel \in BOOLEAN, Pushed(log, rel)
    PROVE  \A n \in Commits : n \in Commits' /\ Top(n)' = Top(n) /\ main'[n] = main[n]
<1>. DEFINE c == [log |-> log, rel |-> rel]
<1>1. main \in Seq([log : Logs, rel : BOOLEAN]) /\ c \in [log : Logs, rel : BOOLEAN] /\ main' = Append(main, c)
  BY DEF Pushed, TypeOK, GitHubOK
<1>. HIDE DEF c
<1>2. /\ Len(main') = Len(main) + 1
      /\ \A n \in 1 .. Len(main) : main'[n] = main[n]
  BY <1>1, AppendProperties
<1>3. Len(main) \in Nat
  BY Types
<1>. QED
  BY <1>2, <1>3 DEF Commits, Top

\* The logs the owner pushes are logs.
LEMMA OwnerPushes ==
    ASSUME TypeOK, Push \/ Withdraw \/ Merge
    PROVE  \E log \in Logs, rel \in BOOLEAN : Pushed(log, rel)
<1>1. TipLog \in Seq(Versions \cup {0})
  BY Types DEF Logs
<1>2. CASE Push
  <2>1. <<0>> \o TipLog \in Seq(Versions \cup {0})
    BY <1>1
  <2>. QED
    BY <1>1, <1>2, <2>1 DEF Push, Logs
<1>3. CASE Withdraw
  <2>1. Tail(TipLog) \in Seq(Versions \cup {0})
    BY <1>1, <1>3, HeadTailProperties DEF Withdraw
  <2>. QED
    BY <1>3, <2>1 DEF Withdraw, Logs
<1>4. CASE Merge
  BY <1>4 DEF Merge, TypeOK, GitHubOK
<1>. QED
  BY <1>2, <1>3, <1>4

LEMMA WorldMovesHolds ==
    ASSUME IInv, [Next]_vars
    PROVE  WorldMoves
<1>0. TypeOK /\ tags \in [Versions -> Nat] /\ Commits = 1 .. Len(main) /\ attested \subseteq attested'
  BY Types, AttestedStays DEF IInv, TypeOK, GitHubOK
<1>1. CASE UNCHANGED <<main, tags, byHand>>
  BY <1>0, <1>1 DEF WorldMoves, Commits, Top
<1>2. CASE Push \/ Withdraw \/ Merge
  <2>1. UNCHANGED <<tags, byHand>> /\ \A n \in Commits : n \in Commits' /\ Top(n)' = Top(n)
    BY <1>0, <1>2, OwnerPushes, MainGrows DEF Pushed
  <2>. QED
    BY <1>0, <2>1 DEF WorldMoves
<1>3. CASE Tag
  BY <1>0, <1>3 DEF Tag, WorldMoves, Commits, Top
<1>4. CASE PublishDraft
  BY <1>0, <1>4 DEF PublishDraft, WorldMoves, Commits, Top
<1>. QED
  <2>1. CASE Start \/ Kill \/ UNCHANGED vars
    BY <1>1, <2>1 DEF Start, Kill, github, vars
  <2>2. CASE Owner
    BY <1>1, <1>2, <1>3, <2>2 DEF Owner, MakeDraft, Dispatch, Rerun
  <2>3. CASE Propose
    BY <1>1, <2>3 DEF Propose, CheckoutToPropose, ReadBase, List, ProposeCallFails, PointStaging, MakeCommit,
                      PointBranch, DeleteStaging, PullRequest, github
  <2>4. CASE Publish
    BY <1>1, <1>4, <2>4 DEF Publish, CheckoutToPublish, AskTag, AskRelease, AskHead, Build, AskTagAgain, State,
                            Delete, Create, ReadBack, ReadTag, PublishCallFails, github
  <2>. QED
    BY <2>1, <2>2, <2>3, <2>4 DEF Next

\* A commit that brought a version in goes on having done so.
LEMMA BroughtStays ==
    ASSUME TypeOK, WorldMoves
    PROVE  \A n, v : Brought(n, v) => /\ n \in Commits' /\ Top(n)' = v
                                      /\ n > 1 => Top(n - 1)' # v
<1>1. Commits = 1 .. Len(main) /\ Len(main) \in Nat
  BY Types
<1>2. SUFFICES ASSUME NEW n, NEW v, Brought(n, v)
               PROVE  /\ n \in Commits' /\ Top(n)' = v
                      /\ n > 1 => Top(n - 1)' # v
  OBVIOUS
<1>3. n > 1 => n - 1 \in Commits
  BY <1>1, <1>2 DEF Brought
<1>. QED
  BY <1>2, <1>3 DEF Brought, WorldMoves

LEMMA ReleaseCommitStays ==
    ASSUME TypeOK, WorldMoves, NEW v, NEW from \in Commits
    PROVE  ReleaseCommit(v, from)' = ReleaseCommit(v, from)
<1>1. Commits = 1 .. Len(main) /\ Len(main) \in Nat
  BY Types
<1>2. \A n \in 1 .. from : \A m \in n .. from : m \in Commits
  BY <1>1
<1>. DEFINE S == {n \in 1 .. from : \A m \in n .. from : Top(m) = v}
<1>3. S' = S
  BY <1>2 DEF WorldMoves
<1>. HIDE DEF S
<1>4. Min(S)' = Min(S)
  BY <1>3 DEF Min
<1>. QED
  BY <1>4 DEF ReleaseCommit, S

\* The releases there were, drafts, and what is true of itself.
LEMMA ReleasesStay ==
    ASSUME TypeOK, WorldMoves, ReleasesOK,
           \A i \in 1 .. Len(releases') :
             \/ \E j \in 1 .. Len(releases) : releases'[i] = releases[j]
             \/ releases'[i].draft \/ Truthful(releases[i])'
    PROVE  ReleasesOK'
<1>1. ASSUME NEW i \in 1 .. Len(releases'), NEW j \in 1 .. Len(releases), releases'[i] = releases[j]
      PROVE  Truthful(releases[i])'
  <2>0. PICK r : r = releases[j]
    OBVIOUS
  <2>1. Truthful(r) /\ r.version \in Versions /\ r.target # 0
    <3>1. releases \in Seq(Releases)
      BY DEF TypeOK, GitHubOK
    <3>2. releases[j] \in Releases
      BY <3>1, ElementOfSeq
    <3>. QED
      BY <2>0, <3>2 DEF ReleasesOK, Releases
  <2>2. Brought(r.target, r.version) =>
          /\ r.target \in Commits' /\ Top(r.target)' = r.version
          /\ r.target > 1 => Top(r.target - 1)' # r.version
    BY BroughtStays
  <2>3. releases'[i] = r
    BY <1>1, <2>0
  <2>4. Truthful(r)'
    BY <2>1, <2>2 DEF Truthful, Brought, WorldMoves
  <2>. QED
    BY <2>3, <2>4 DEF Truthful, Brought, Top
<1>. QED
  BY <1>1 DEF ReleasesOK, Truthful

\* Where nothing had the name, what is appended has it alone.
LEMMA OneAlone ==
    ASSUME TypeOK, Named(Version) = {}, Version' = Version,
           NEW r \in Releases, r.draft, r.version = Version, releases' = Append(releases, r)
    PROVE  (\A i \in Drafts(Version)' : releases'[i] = r) /\ Published(Version)' = {}
<1>1. /\ Len(releases) \in Nat /\ Len(releases') = Len(releases) + 1
      /\ \A i \in 1 .. Len(releases) : releases'[i] = releases[i]
      /\ releases'[Len(releases) + 1] = r
  BY OneMore
<1>2. releases \in Seq(Releases) /\ releases' \in Seq(Releases)
  BY OneMore DEF TypeOK, GitHubOK
<1>3. \A i \in 1 .. Len(releases) : releases[i].version # Version
  BY <1>2 DEF Named
<1>4. \A i \in 1 .. Len(releases') : releases'[i].version = Version => releases'[i] = r
  BY <1>1, <1>3
<1>5. \A i \in Named(Version)' : i \in 1 .. Len(releases') /\ releases'[i].version = Version
  BY <1>2 DEF Named
<1>. QED
  BY <1>4, <1>5 DEF Drafts, Published

LEMMA OneReplaced ==
    ASSUME TypeOK, NEW i \in 1 .. Len(releases), NEW r \in Releases, releases' = [releases EXCEPT ![i] = r]
    PROVE  /\ Len(releases') = Len(releases) /\ Len(releases) \in Nat
           /\ \A k \in 1 .. Len(releases) : releases'[k] = IF k = i THEN r ELSE releases[k]
<1>1. releases \in Seq(Releases)
  BY DEF TypeOK, GitHubOK
<1>. QED
  BY <1>1, ExceptSeq, LenProperties

\* The job publishes its draft.
LEMMA OnePublished ==
    ASSUME TypeOK, NEW i \in Drafts(Version),
           releases' = [releases EXCEPT ![i].draft = FALSE, ![i].current = publish.current]
    PROVE  /\ i \in 1 .. Len(releases) /\ Len(releases') = Len(releases) /\ Len(releases) \in Nat
           /\ \A k \in 1 .. Len(releases) :
                releases'[k] = IF k = i THEN [releases[i] EXCEPT !.draft = FALSE, !.current = publish.current]
                               ELSE releases[k]
           /\ releases[i] \in Releases
<1>1. releases \in Seq(Releases) /\ i \in 1 .. Len(releases) /\ publish.current \in BOOLEAN
  BY DEF TypeOK, GitHubOK, PublishOK, Publishings, Drafts, Named
<1>2. releases[i] \in Releases
  BY <1>1, ElementOfSeq
<1>. DEFINE out == [releases[i] EXCEPT !.draft = FALSE, !.current = publish.current]
<1>3. out \in Releases /\ releases' = [releases EXCEPT ![i] = out]
  BY <1>1, <1>2 DEF Releases
<1>. HIDE DEF out
<1>4. /\ Len(releases') = Len(releases) /\ Len(releases) \in Nat
      /\ \A k \in 1 .. Len(releases) : releases'[k] = IF k = i THEN out ELSE releases[k]
  BY <1>1, <1>3, OneReplaced
<1>. QED
  BY <1>1, <1>2, <1>4 DEF out

LEMMA ReleasesStep ==
    ASSUME IInv, SourceOK, DraftsOK, ReleasesOK, [Next]_vars
    PROVE  ReleasesOK'
<1>0. TypeOK /\ WorldMoves
  BY WorldMovesHolds DEF IInv
<1>1. CASE UNCHANGED releases
  BY <1>0, <1>1, ReleasesStay
<1>2. CASE MakeDraft
  <2>1. PICK v \in Picked : releases' = Append(releases, Draft(v, Len(main), Bytes(0, FALSE)))
    BY <1>2 DEF MakeDraft
  <2>. DEFINE r == Draft(v, Len(main), Bytes(0, FALSE))
  <2>2. r \in Releases /\ r.draft
    <3>1. Len(main) \in Nat \ {0}
      BY <1>0, Types DEF TypeOK, GitHubOK
    <3>. QED
      BY <3>1, ReleaseAssumption DEF Draft, Bytes, Releases, Content
  <2>3. releases' = Append(releases, r)
    BY <2>1
  <2>. HIDE DEF r
  <2>. QED
    BY <1>0, <2>2, <2>3, OneMore, ReleasesStay
<1>3. CASE Create
  <2>1. PICK whole \in BOOLEAN : releases' = Append(releases, Draft(Version, publish.head, Bytes(publish.head, whole)))
    BY <1>3 DEF Create
  <2>. DEFINE r == Draft(Version, publish.head, Bytes(publish.head, whole))
  <2>2. r \in Releases /\ r.draft
    <3>1. Version \in Versions /\ publish.head \in Nat \ {0}
      BY <1>0, <1>3, Types DEF TypeOK, PublishOK, Create
    <3>. QED
      BY <3>1 DEF Draft, Bytes, Releases, Content
  <2>3. releases' = Append(releases, r)
    BY <2>1
  <2>. HIDE DEF r
  <2>. QED
    BY <1>0, <2>2, <2>3, OneMore, ReleasesStay
<1>4. CASE Delete
  <2>1. PICK k \in Drafts(Version) : releases' = RemoveAt(releases, k)
    BY <1>4 DEF Delete
  <2>2. k \in 1 .. Len(releases)
    BY <1>0, ElementOfSeq DEF TypeOK, GitHubOK, Drafts, Named
  <2>3. \A i \in 1 .. Len(releases') : \E j \in 1 .. Len(releases) : releases'[i] = releases[j]
    BY <1>0, <2>1, <2>2, OneLess
  <2>. QED
    BY <1>0, <2>3, ReleasesStay
<1>5. CASE PublishDraft
  <2>1. PICK k \in Drafts(Version) :
          /\ releases' = [releases EXCEPT ![k].draft = FALSE, ![k].current = publish.current]
          /\ tags' = IF tags[Version] = 0 THEN [tags EXCEPT ![Version] = releases[k].target] ELSE tags
    BY <1>5 DEF PublishDraft
  <2>2. /\ k \in 1 .. Len(releases) /\ Len(releases') = Len(releases)
        /\ \A i \in 1 .. Len(releases) :
             releases'[i] = IF i = k THEN [releases[k] EXCEPT !.draft = FALSE, !.current = publish.current]
                            ELSE releases[i]
        /\ releases[k] \in Releases
    BY <1>0, <2>1, OnePublished
  <2>3. /\ publish.pc = "publish" /\ UNCHANGED <<main, attested>> /\ byHand' = byHand /\ Version \in Versions
        /\ tags \in [Versions -> Nat]
    BY <1>0, <1>5 DEF PublishDraft, TypeOK, PublishOK, GitHubOK
  <2>4. /\ publish.current /\ Brought(publish.head, Version) /\ publish.head \in attested
        /\ tags[Version] = 0 \/ Version \in byHand
        /\ releases[k].target = publish.head /\ releases[k].bytes = Bytes(publish.head, TRUE)
    BY <2>1, <2>3 DEF SourceOK, Sourced, DraftsOK, Building, Built, Making
  <2>5. releases[k].version = Version
    BY <2>1 DEF Drafts, Named
  <2>. DEFINE out == releases'[k]
  <2>6. /\ ~out.draft /\ out.version = Version /\ out.target = publish.head
        /\ out.bytes = Bytes(publish.head, TRUE) /\ out.current
    BY <2>2, <2>4, <2>5 DEF Releases
  <2>7. Version \in byHand \/ tags'[Version] = publish.head
    BY <2>1, <2>3, <2>4
  <2>8. Truthful(releases[k])'
    <3>1. \A n \in Nat : Top(n)' = Top(n)
      BY <2>3 DEF Top
    <3>2. Commits' = Commits /\ Commits \subseteq Nat /\ \A n \in Commits : n > 1 => n - 1 \in Nat
      BY <2>3 DEF Commits
    <3>. QED
      BY <2>3, <2>4, <2>6, <2>7, <3>1, <3>2 DEF Truthful, Brought
  <2>. QED
    BY <1>0, <2>2, <2>8, ReleasesStay
<1>. QED
  <2>1. CASE Start \/ Kill \/ UNCHANGED vars
    BY <1>1, <2>1 DEF Start, Kill, github, vars
  <2>2. CASE Owner
    BY <1>1, <1>2, <2>2 DEF Owner, Push, Withdraw, Merge, Pushed, Tag, Dispatch, Rerun
  <2>3. CASE Propose
    BY <1>1, <2>3 DEF Propose, CheckoutToPropose, ReadBase, List, ProposeCallFails, PointStaging, MakeCommit,
                      PointBranch, DeleteStaging, PullRequest, github
  <2>4. CASE Publish
    BY <1>1, <1>3, <1>4, <1>5, <2>4 DEF Publish, CheckoutToPublish, AskTag, AskRelease, AskHead, Build,
                            AskTagAgain, State, ReadBack, ReadTag, PublishCallFails, github
  <2>. QED
    BY <2>1, <2>2, <2>3, <2>4 DEF Next

\* A step that leaves a job its commit leaves it what it knows of it.
LEMMA SourceStays ==
    ASSUME IInv, WorldMoves, publish.pc \notin {"done", "checkout"}, publish'.head = publish.head,
           publish'.reach = publish.reach, publish'.current = publish.current
    PROVE  /\ Version' = Version /\ publish.head \in Commits /\ Version \in Versions
           /\ Foreseen => Foreseen'
           /\ Sourced => Sourced'
<1>1. publish.head \in Commits /\ Version \in Versions /\ TypeOK
  BY DEF IInv, TypeOK, PublishOK
<1>2. Version' = Version
  BY <1>1 DEF Version, WorldMoves, Top
<1>3. ASSUME Foreseen
      PROVE  Foreseen'
  <2>0. PICK v, from, n : v = Version /\ from = publish.reach /\ n = publish.head
    OBVIOUS
  <2>1. v = Version /\ from = publish.reach /\ n = publish.head /\ from \in Commits
    BY <1>3, <2>0 DEF Foreseen
  <2>2. from \in Commits' /\ Top(from)' = Top(from) /\ ReleaseCommit(v, from)' = ReleaseCommit(v, from)
    BY <1>1, <2>1, ReleaseCommitStays DEF WorldMoves
  <2>3. publish.current <=> Top(from) = v /\ ReleaseCommit(v, from) = n
    BY <1>3, <2>1 DEF Foreseen
  <2>4. v = Version' /\ from = publish'.reach /\ n = publish'.head
    BY <1>2, <2>1
  <2>5. publish'.current <=> Top(from)' = v /\ ReleaseCommit(v, from)' = n
    BY <2>2, <2>3
  <2>. QED
    BY <2>2, <2>4, <2>5 DEF Foreseen
<1>4. ASSUME Sourced
      PROVE  Sourced'
  <2>1. PICK v, n : v = Version /\ n = publish.head
    OBVIOUS
  <2>2. Brought(n, v)'
    BY <1>1, <1>4, <2>1, BroughtStays DEF Sourced, Brought
  <2>3. v = Version' /\ n = publish'.head
    BY <1>2, <2>1
  <2>. QED
    BY <1>4, <2>2, <2>3 DEF Sourced
<1>. QED
  BY <1>1, <1>2, <1>3, <1>4

\* A step that is not the publish job's.
LEMMA SourceSame ==
    ASSUME IInv, WorldMoves, SourceOK, DraftsOK, publish'.pc = publish.pc, publish'.head = publish.head,
           publish'.reach = publish.reach, publish'.current = publish.current,
           UNCHANGED releases \/ publish.pc \notin {"create", "back", "publish"},
           \A v \in Versions : tags'[v] = tags[v] \/ v \in byHand'
    PROVE  SourceOK' /\ DraftsOK'
<1>1. CASE publish.pc \in {"done", "checkout"}
  BY <1>1 DEF SourceOK, DraftsOK, Asking, Building, Built, Making
<1>2. CASE publish.pc \notin {"done", "checkout"}
  <2>1. /\ Version' = Version /\ publish.head \in Commits /\ Version \in Versions
        /\ Foreseen => Foreseen'
        /\ Sourced => Sourced'
    BY <1>2, SourceStays
  <2>2. SourceOK'
    BY <2>1 DEF SourceOK, WorldMoves, Asking
  <2>3. DraftsOK'
    <3>1. CASE UNCHANGED releases
      <4>1. Named(Version)' = Named(Version) /\ Drafts(Version)' = Drafts(Version)
        BY <2>1, <3>1 DEF Drafts, Named
      <4>. QED
        BY <3>1, <4>1 DEF DraftsOK, Bytes
    <3>2. CASE publish.pc \notin {"create", "back", "publish"}
      BY <3>2 DEF DraftsOK
    <3>. QED
      BY <3>1, <3>2
  <2>. QED
    BY <2>2, <2>3
<1>. QED
  BY <1>1, <1>2

LEMMA SourceStep ==
    ASSUME IInv, SourceOK, DraftsOK, [Next]_vars
    PROVE  SourceOK' /\ DraftsOK'
<1>0. /\ TypeOK /\ WorldMoves /\ publish \in Publishings
      /\ publish.pc # "done" => publish.head \in Commits
  BY WorldMovesHolds DEF IInv, TypeOK, PublishOK
<1>1. CASE publish'.pc \in {"done", "checkout", "read"}
  BY <1>1 DEF SourceOK, DraftsOK, Asking, Building, Built, Making
<1>2. CASE UNCHANGED <<releases, tags, publish>>
  BY <1>0, <1>2, SourceSame
<1>3. CASE Owner
  <2>1. /\ publish'.pc = publish.pc /\ publish'.head = publish.head
        /\ publish'.reach = publish.reach /\ publish'.current = publish.current
    BY <1>0, <1>3 DEF Owner, Push, Withdraw, Merge, Pushed, Tag, MakeDraft, Disturb, Dispatch, Rerun, Publishings
  <2>2. UNCHANGED releases \/ publish.pc \notin {"create", "back", "publish"}
    BY <1>3 DEF Owner, Push, Withdraw, Merge, Pushed, Tag, MakeDraft, Dispatch, Rerun, Asking
  <2>3. \A v \in Versions : tags'[v] = tags[v] \/ v \in byHand'
    <3>1. tags \in [Versions -> Nat]
      BY <1>0 DEF TypeOK, GitHubOK
    <3>. QED
      BY <1>3, <3>1 DEF Owner, Push, Withdraw, Merge, Pushed, Tag, MakeDraft, Dispatch, Rerun
  <2>. QED
    BY <1>0, <2>1, <2>2, <2>3, SourceSame
<1>4. CASE Publish /\ publish'.pc \notin {"done", "checkout", "read"}
  <2>0. UNCHANGED <<main, byHand>>
    BY <1>4 DEF Publish, CheckoutToPublish, AskTag, AskRelease, AskHead, Build, AskTagAgain, State, Delete,
                Create, ReadBack, PublishDraft, ReadTag, PublishCallFails, github
  <2>1. CASE CheckoutToPublish
    <3>1. /\ publish.pc = "checkout" /\ publish'.pc = "askTag" /\ publish'.head = publish.head
          /\ publish'.reach = Len(main)
          /\ publish'.current <=> Version # 0 /\ Top(Len(main)) = Version
                                  /\ ReleaseCommit(Version, Len(main)) = publish.head
          /\ Version # 0
      BY <1>0, <1>4, <2>1 DEF CheckoutToPublish, Publishings
    <3>2. Len(main) \in Commits
      BY <1>0, Types DEF TypeOK, GitHubOK
    <3>3. Foreseen'
      BY <2>0, <3>1, <3>2 DEF Foreseen, Version, Top, ReleaseCommit, Commits
    <3>. QED
      BY <3>1, <3>3 DEF SourceOK, DraftsOK, Asking, Building, Built, Making
  <2>2. CASE publish.pc # "checkout"
    <3>1. /\ publish.pc \notin {"done", "checkout"} /\ publish'.head = publish.head
          /\ publish'.reach = publish.reach /\ publish'.current = publish.current
      BY <1>0, <1>4, <2>2 DEF Publish, CheckoutToPublish, AskTag, AskRelease, AskHead, Build, AskTagAgain, State,
               Delete, Create, ReadBack, PublishDraft, ReadTag, PublishCallFails, PublishTo, PublishEnds,
               PublishBreaks, Publishings, Asking
    <3>2. /\ Version' = Version /\ publish.head \in Commits /\ Version \in Versions
          /\ Foreseen => Foreseen'
          /\ Sourced => Sourced'
      BY <1>0, <3>1, SourceStays
    <3>3. CASE AskTag \/ AskRelease
      <4>1. publish.pc \in Asking /\ publish'.pc \in Asking
        BY <1>0, <1>4, <3>3 DEF AskTag, AskRelease, PublishTo, PublishEnds, Asking, Publishings
      <4>. QED
        BY <3>2, <4>1 DEF SourceOK, DraftsOK, Asking, Building, Built, Making
    <3>4. CASE AskHead
      <4>1. /\ publish.pc = "askHead" /\ publish'.pc = "build"
            /\ ~(Len(main) > publish.reach) /\ Top(Len(main)) = Version
            /\ ReleaseCommit(Version, Len(main)) = publish.head
        BY <1>0, <1>4, <3>4 DEF AskHead, From, PublishTo, PublishEnds, Publishings
      <4>2. Foreseen /\ publish.reach \in Commits /\ Len(main) \in Commits
        BY <1>0, <4>1, Types DEF SourceOK, Foreseen, Asking, TypeOK, GitHubOK
      <4>3. publish.reach = Len(main)
        BY <1>0, <4>1, <4>2, Types
      <4>4. Sourced
        BY <1>0, <3>2, <4>1, <4>2, <4>3, FoundIsBrought DEF Sourced, Foreseen
      <4>. QED
        BY <3>2, <4>1, <4>4 DEF SourceOK, DraftsOK, Asking, Building, Built, Making
    <3>5. CASE Build
      <4>1. publish.pc = "build" /\ publish'.pc = "tag" /\ publish.head \in attested'
        BY <1>0, <1>4, <3>5 DEF Build, PublishTo, PublishBreaks, Publishings
      <4>. QED
        BY <3>1, <3>2, <4>1 DEF SourceOK, DraftsOK, Asking, Building, Built, Making
    <3>6. CASE AskTagAgain
      <4>1. publish.pc = "tag" /\ publish'.pc = "state" /\ tags[Version] = 0 /\ UNCHANGED <<tags, attested>>
        BY <1>0, <1>4, <3>6 DEF AskTagAgain, PublishTo, PublishEnds, Publishings, github
      <4>. QED
        BY <3>1, <3>2, <4>1 DEF SourceOK, DraftsOK, Asking, Building, Built, Making
    <3>7. CASE State
      <4>1. /\ publish.pc = "state" /\ publish'.pc \in {"create", "delete"} /\ UNCHANGED <<tags, attested, releases>>
            /\ publish'.pc = "create" => Named(Version) = {}
        BY <1>0, <1>4, <3>7 DEF State, NoneLeft, PublishTo, PublishEnds, Publishings, github
      <4>2. SourceOK'
        BY <2>0, <3>1, <3>2, <4>1 DEF SourceOK, Asking, Building, Built, Making
      <4>3. DraftsOK'
        BY <3>2, <4>1 DEF DraftsOK, Named
      <4>. QED
        BY <4>2, <4>3
    <3>8. CASE Delete
      <4>1. publish.pc = "delete" /\ publish'.pc = "state" /\ UNCHANGED <<tags, attested>>
        BY <1>0, <1>4, <3>8 DEF Delete, PublishTo, PublishBreaks, Publishings
      <4>. QED
        BY <2>0, <3>1, <3>2, <4>1 DEF SourceOK, DraftsOK, Asking, Building, Built, Making
    <3>9. CASE Create
      <4>1. PICK whole \in BOOLEAN :
              releases' = Append(releases, Draft(Version, publish.head, Bytes(publish.head, whole)))
        BY <3>9 DEF Create
      <4>2. publish.pc = "create" /\ publish'.pc = "back" /\ UNCHANGED <<tags, attested>>
        BY <1>0, <1>4, <3>9 DEF Create, PublishTo, PublishBreaks, Publishings
      <4>3. SourceOK'
        BY <2>0, <3>1, <3>2, <4>2 DEF SourceOK, Asking, Building, Built, Making
      <4>. DEFINE r == Draft(Version, publish.head, Bytes(publish.head, whole))
      <4>4. r \in Releases /\ r.draft /\ r.version = Version /\ r.target = publish.head
        <5>1. publish.head \in Nat \ {0}
          BY <1>0, <3>2, Types
        <5>. QED
          BY <3>2, <5>1 DEF Draft, Bytes, Releases, Content
      <4>5. releases' = Append(releases, r)
        BY <4>1
      <4>. HIDE DEF r
      <4>9. \A i \in Drafts(Version)' : releases'[i] = r
        BY <1>0, <3>2, <4>2, <4>4, <4>5, OneAlone DEF DraftsOK
      <4>10. DraftsOK'
        BY <3>1, <4>2, <4>4, <4>9 DEF DraftsOK
      <4>. QED
        BY <4>3, <4>10
    <3>10. CASE ReadBack
      <4>1. /\ publish.pc = "back" /\ publish'.pc = "publish" /\ UNCHANGED <<tags, attested, releases>>
            /\ \E i \in Drafts(Version) : releases[i].bytes = Bytes(publish.head, TRUE)
        BY <1>0, <1>4, <3>10 DEF ReadBack, PublishTo, PublishEnds, Publishings, github
      <4>2. SourceOK'
        BY <2>0, <3>1, <3>2, <4>1 DEF SourceOK, Asking, Building, Built, Making
      <4>3. \A i \in Drafts(Version) : releases[i].bytes = Bytes(publish.head, TRUE)
        BY <4>1 DEF DraftsOK
      <4>4. DraftsOK'
        BY <3>1, <3>2, <4>1, <4>3 DEF DraftsOK, Drafts, Named, Bytes
      <4>. QED
        BY <4>2, <4>4
    <3>11. CASE PublishDraft \/ ReadTag \/ PublishCallFails
      BY <1>0, <1>4, <3>11 DEF PublishDraft, ReadTag, PublishCallFails, PublishTo, PublishEnds, PublishBreaks, Publishings
    <3>. QED
      BY <1>4, <2>2, <3>3, <3>4, <3>5, <3>6, <3>7, <3>8, <3>9, <3>10, <3>11 DEF Publish, CheckoutToPublish
  <2>3. CheckoutToPublish \/ publish.pc # "checkout"
    BY <1>4 DEF Publish, AskTag, AskRelease, AskHead, Build, AskTagAgain, State, Delete,
                Create, ReadBack, PublishDraft, ReadTag, PublishCallFails, Asking
  <2>. QED
    BY <2>1, <2>2, <2>3
<1>. QED
  <2>1. CASE UNCHANGED vars
    BY <1>2, <2>1 DEF github, vars
  <2>2. CASE Kill
    BY <1>1, <1>2, <2>2, <1>0 DEF Kill, github, Publishings
  <2>3. CASE Start
    BY <1>1, <2>3 DEF Start, Publishing
  <2>4. CASE Propose
    BY <1>2, <2>4 DEF Propose, CheckoutToPropose, ReadBase, List, ProposeCallFails, PointStaging, MakeCommit,
                      PointBranch, DeleteStaging, PullRequest, github
  <2>. QED
    BY <1>1, <1>3, <1>4, <2>1, <2>2, <2>3, <2>4 DEF Next

LEMMA DraftsAreFinite ==
    ASSUME TypeOK, NEW v
    PROVE  IsFiniteSet(Drafts(v)) /\ Cardinality(Drafts(v)) \in Nat
<1>1. releases \in Seq(Releases)
  BY DEF TypeOK, GitHubOK
<1>2. IsFiniteSet(1 .. Len(releases))
  BY <1>1, FS_Interval, LenProperties
<1>3. Drafts(v) \subseteq 1 .. Len(releases)
  BY <1>1 DEF Drafts, Named
<1>4. IsFiniteSet(Drafts(v))
  BY <1>2, <1>3, FS_Subset
<1>. QED
  BY <1>4, FS_CardinalityType

\* A draft less is a draft less.
LEMMA DraftGone ==
    ASSUME TypeOK, NEW v, NEW k \in Drafts(v), releases' = RemoveAt(releases, k), Published(v) = {}
    PROVE  /\ Cardinality(Drafts(v)) \in Nat /\ Cardinality(Drafts(v)') \in Nat
           /\ Cardinality(Drafts(v)') + 1 <= Cardinality(Drafts(v))
           /\ Published(v)' = {}
<1>1. releases \in Seq(Releases) /\ k \in 1 .. Len(releases)
  BY DEF TypeOK, GitHubOK, Drafts, Named
<1>2. /\ Len(releases) \in Nat /\ Len(releases') = Len(releases) - 1
      /\ \A i \in 1 .. Len(releases) - 1 : releases'[i] = IF i < k THEN releases[i] ELSE releases[i + 1]
  BY <1>1, OneLess
<1>3. releases' \in Seq(Releases)
  BY <1>1, OneLess
<1>4. /\ \A i : i \in Drafts(v) <=> i \in 1 .. Len(releases) /\ releases[i].version = v /\ releases[i].draft
      /\ \A i : i \in Drafts(v)' <=> i \in 1 .. Len(releases') /\ releases'[i].version = v /\ releases'[i].draft
  BY <1>1, <1>3 DEF Drafts, Named
<1>5. \A i \in 1 .. Len(releases) : releases[i].version = v => releases[i].draft
  BY <1>1 DEF Published, Drafts, Named
<1>. DEFINE D == Drafts(v)
            E == Drafts(v)'
            old == [i \in E |-> IF i < k THEN i ELSE i + 1]
<1>6. IsFiniteSet(D) /\ Cardinality(D) \in Nat
  BY DraftsAreFinite
<1>7. IsFiniteSet(D \ {k}) /\ Cardinality(D \ {k}) = Cardinality(D) - 1
  BY <1>6, FS_RemoveElement
<1>8. ASSUME NEW i \in E
      PROVE  i \in Int /\ (IF i < k THEN i ELSE i + 1) \in D \ {k}
  <2>1. /\ i \in 1 .. Len(releases) - 1 /\ releases'[i].version = v /\ releases'[i].draft
        /\ releases'[i] = IF i < k THEN releases[i] ELSE releases[i + 1]
    BY <1>2, <1>4
  <2>2. CASE i < k
    <3>1. i \in 1 .. Len(releases) /\ i # k
      BY <1>1, <1>2, <2>1, <2>2
    <3>. QED
      BY <1>4, <2>1, <2>2, <3>1
  <2>3. CASE ~(i < k)
    <3>1. i + 1 \in 1 .. Len(releases) /\ i + 1 # k
      BY <1>1, <1>2, <2>1, <2>3
    <3>. QED
      BY <1>4, <2>1, <2>3, <3>1
  <2>. QED
    BY <2>2, <2>3
<1>9. old \in Injection(E, D \ {k})
  <2>1. old \in [E -> D \ {k}]
    BY <1>8
  <2>2. \A i, j \in E : old[i] = old[j] => i = j
    BY <1>1, <1>8
  <2>. QED
    BY <2>1, <2>2 DEF Injection, IsInjective
<1>10. IsFiniteSet(E) /\ Cardinality(E) <= Cardinality(D \ {k})
  BY <1>7, <1>9, FS_Injection
<1>11. Cardinality(E) \in Nat
  BY <1>10, FS_CardinalityType
<1>12. Published(v)' = {}
  <2>1. \A i \in 1 .. Len(releases') : releases'[i].version = v => releases'[i].draft
    <3>. TAKE i \in 1 .. Len(releases')
    <3>1. i \in 1 .. Len(releases) /\ i + 1 \in 1 .. Len(releases) /\ i \in 1 .. Len(releases) - 1
      BY <1>2
    <3>. QED
      BY <1>2, <1>5, <3>1
  <2>. QED
    BY <1>3, <2>1 DEF Published, Drafts, Named
<1>. QED
  BY <1>6, <1>7, <1>10, <1>11, <1>12

\* A step that is not the publish job's disturbs it, or leaves it what it needs.
LEMMA DueSame ==
    ASSUME IInv, WorldMoves, DueOK, publish'.pc = publish.pc, publish'.exit = publish.exit,
           publish'.head = publish.head, publish'.reach = publish.reach, publish'.current = publish.current,
           publish'.deleted = publish.deleted, publish'.due = publish.due,
           \/ publish'.disturbed
           \/ /\ ~publish.disturbed /\ UNCHANGED <<tags, releases>>
              /\ publish.pc \in Asking => UNCHANGED main
    PROVE  DueOK'
<1>1. CASE publish.due /\ ~publish.disturbed /\ UNCHANGED <<tags, releases>>
  <2>1. publish.head \in Commits /\ Version \in Versions /\ publish.head \in Commits'
    BY <1>1 DEF DueOK, WorldMoves
  <2>2. Version' = Version
    BY <2>1 DEF Version, WorldMoves, Top
  <2>3. Drafts(Version)' = Drafts(Version) /\ Published(Version)' = Published(Version)
    BY <1>1, <2>2 DEF Drafts, Named, Published
  <2>4. \A i \in Drafts(Version) : releases'[i].bytes = releases[i].bytes
    BY <1>1
  <2>5. Bytes(publish.head, TRUE)' = Bytes(publish.head, TRUE)
    BY DEF Bytes
  <2>. QED
    BY <1>1, <2>1, <2>2, <2>3, <2>4, <2>5 DEF DueOK
<1>2. CASE publish'.disturbed
  BY <1>2 DEF DueOK
<1>3. CASE ~publish.due
  BY <1>3 DEF DueOK
<1>. QED
  BY <1>1, <1>2, <1>3

\* A job not due to make a release, or disturbed, or about to begin.
LEMMA NotDue ==
    ASSUME publish'.pc # "checkout", ~publish'.due \/ publish'.disturbed
    PROVE  DueOK'
  BY DEF DueOK

\* A job due to make a release that is disturbed by nothing goes on to do so.
LEMMA DueOn ==
    ASSUME IInv, WorldMoves, SourceOK, DraftsOK, DueOK, Publish, publish.pc # "checkout",
           publish'.due, ~publish'.disturbed
    PROVE  DueOK'
<1>0. /\ TypeOK /\ publish \in Publishings /\ publish.pc # "done" /\ UNCHANGED main
      /\ tags \in [Versions -> Nat] /\ releases \in Seq(Releases)
  BY DEF IInv, TypeOK, GitHubOK, PublishOK, Publish, CheckoutToPublish, AskTag, AskRelease, AskHead, Build,
         AskTagAgain, State, Delete, Create, ReadBack, PublishDraft, ReadTag, PublishCallFails, github, Asking
<1>1. /\ publish'.head = publish.head /\ publish'.reach = publish.reach /\ publish'.current = publish.current
      /\ publish.due /\ ~publish.disturbed
  BY <1>0 DEF Publish, CheckoutToPublish, AskTag, AskRelease, AskHead, Build, AskTagAgain, State, Delete,
              Create, ReadBack, PublishDraft, ReadTag, PublishCallFails, PublishTo, PublishEnds, PublishBreaks,
              Publishings
<1>2. /\ Version' = Version /\ publish.head \in Commits /\ Version \in Versions /\ Commits' = Commits
      /\ publish.head \in Nat \ {0} /\ Len(main') = Len(main)
  BY <1>0, <1>1, SourceStays, Types DEF Commits
<1>3. /\ UNCHANGED releases => /\ Named(Version)' = Named(Version) /\ Drafts(Version)' = Drafts(Version)
                               /\ Published(Version)' = Published(Version)
      /\ Bytes(publish.head, TRUE)' = Bytes(publish.head, TRUE)
  BY <1>1, <1>2 DEF Drafts, Named, Published, Bytes
<1>4. ~PublishBreaks
  BY <1>0 DEF PublishBreaks, Publishings
<1>5. CASE AskTag
  <2>1. publish.pc = "askTag" /\ tags[Version] = 0 /\ UNCHANGED <<tags, releases>>
    BY <1>1, <1>5 DEF AskTag, DueOK, Asking, github
  <2>2. publish'.pc = "askRelease" /\ publish'.deleted = publish.deleted
    BY <1>0, <1>5, <2>1 DEF AskTag, PublishTo, Publishings
  <2>. QED
    BY <1>1, <1>2, <1>3, <2>1, <2>2 DEF DueOK, Asking
<1>6. CASE AskRelease
  <2>1. publish.pc = "askRelease" /\ ~Announced /\ UNCHANGED <<tags, releases>>
    BY <1>1, <1>6 DEF AskRelease, DueOK, Asking, Announced, github
  <2>2. publish'.pc = "askHead" /\ publish'.deleted = publish.deleted
    BY <1>0, <1>6, <2>1 DEF AskRelease, PublishTo, Publishings
  <2>. QED
    BY <1>1, <1>2, <1>3, <2>1, <2>2 DEF DueOK, Asking
<1>7. CASE AskHead
  <2>1. publish.pc = "askHead" /\ publish.reach = Len(main) /\ publish.current /\ UNCHANGED <<tags, releases>>
    BY <1>1, <1>7 DEF AskHead, DueOK, Asking, github
  <2>2. Top(Len(main)) = Version /\ ReleaseCommit(Version, Len(main)) = publish.head /\ ~(Len(main) > publish.reach)
    <3>1. Len(main) \in Nat
      BY <1>0, Types
    <3>. QED
      BY <2>1, <3>1 DEF SourceOK, Foreseen, Asking
  <2>3. publish'.pc = "build" /\ publish'.deleted = publish.deleted
    BY <1>0, <1>7, <2>2 DEF AskHead, From, PublishTo, Publishings
  <2>. QED
    BY <1>1, <1>2, <1>3, <2>1, <2>3 DEF DueOK, Asking, Building
<1>8. CASE Build
  <2>1. publish.pc = "build" /\ publish'.pc = "tag" /\ publish'.deleted = publish.deleted /\ UNCHANGED <<tags, releases>>
    BY <1>0, <1>4, <1>8 DEF Build, PublishTo, Publishings
  <2>. QED
    BY <1>1, <1>2, <1>3, <2>1 DEF DueOK, Asking, Building
<1>9. CASE AskTagAgain
  <2>1. publish.pc = "tag" /\ tags[Version] = 0 /\ UNCHANGED <<tags, releases>>
    BY <1>1, <1>9 DEF AskTagAgain, DueOK, Building, github
  <2>2. publish'.pc = "state" /\ publish'.deleted = publish.deleted
    BY <1>0, <1>9, <2>1 DEF AskTagAgain, PublishTo, Publishings
  <2>. QED
    BY <1>1, <1>2, <1>3, <2>1, <2>2 DEF DueOK, Asking, Building
<1>10. CASE State
  <2>1. /\ publish.pc = "state" /\ ~Announced /\ UNCHANGED <<tags, releases>>
        /\ publish.deleted + Cardinality(Drafts(Version)) <= MaxDrafts
    BY <1>1, <1>10 DEF State, DueOK, Building, Announced, github
  <2>2. ~NoneLeft => publish.deleted # MaxDrafts
    <3>. SUFFICES ASSUME ~NoneLeft PROVE publish.deleted # MaxDrafts
      OBVIOUS
    <3>1. Drafts(Version) # {}
      BY <2>1 DEF NoneLeft, Announced, Published
    <3>2. IsFiniteSet(Drafts(Version)) /\ Cardinality(Drafts(Version)) \in Nat
      BY <1>0, DraftsAreFinite
    <3>3. Cardinality(Drafts(Version)) # 0
      BY <3>1, <3>2, FS_EmptySet
    <3>4. publish.deleted \in Nat /\ MaxDrafts \in Nat
      BY <1>0, ReleaseAssumption DEF Publishings
    <3>. QED
      BY <2>1, <3>2, <3>3, <3>4
  <2>3. publish'.pc \in {"create", "delete"} /\ publish'.deleted = publish.deleted
    BY <1>0, <1>10, <2>1, <2>2 DEF State, PublishTo, Publishings
  <2>. QED
    BY <1>1, <1>2, <1>3, <2>1, <2>3 DEF DueOK, Asking, Building
<1>11. CASE Delete
  <2>1. /\ publish.pc = "delete" /\ Published(Version) = {} /\ tags[Version] = 0 /\ UNCHANGED tags
        /\ publish.deleted + Cardinality(Drafts(Version)) <= MaxDrafts
    BY <1>1, <1>11 DEF Delete, DueOK, Building
  <2>2. publish'.pc = "state" /\ publish'.deleted = publish.deleted + 1
    BY <1>0, <1>4, <1>11 DEF Delete, Publishings
  <2>3. PICK v : v = Version
    OBVIOUS
  <2>4. /\ Cardinality(Drafts(v)) \in Nat /\ Cardinality(Drafts(v)') \in Nat
        /\ Cardinality(Drafts(v)') + 1 <= Cardinality(Drafts(v))
        /\ Published(v)' = {}
    BY <1>0, <1>11, <2>1, <2>3, DraftGone DEF Delete
  <2>5. publish.deleted \in Nat /\ MaxDrafts \in Nat
    BY <1>0, ReleaseAssumption DEF Publishings
  <2>6. v = Version' /\ Drafts(v)' = Drafts(Version)' /\ Published(v)' = Published(Version)'
    BY <1>2, <2>3 DEF Drafts, Named, Published
  <2>7. publish'.deleted + Cardinality(Drafts(Version)') <= MaxDrafts /\ Published(Version)' = {}
    BY <2>1, <2>2, <2>3, <2>4, <2>5, <2>6
  <2>. QED
    BY <1>1, <1>2, <2>1, <2>2, <2>7 DEF DueOK, Asking, Building
<1>12. CASE Create
  <2>1. publish.pc = "create" /\ Named(Version) = {} /\ tags[Version] = 0 /\ UNCHANGED tags
    BY <1>1, <1>12 DEF Create, DueOK, DraftsOK, Building
  <2>. DEFINE r == Draft(Version, publish.head, Bytes(publish.head, TRUE))
  <2>2. publish'.pc = "back" /\ releases' = Append(releases, r)
    BY <1>0, <1>4, <1>12 DEF Create, PublishTo, Publishings
  <2>3. r \in Releases /\ r.draft /\ r.version = Version /\ r.bytes = Bytes(publish.head, TRUE)
    BY <1>2 DEF Draft, Bytes, Releases, Content
  <2>. HIDE DEF r
  <2>4. (\A i \in Drafts(Version)' : releases'[i] = r) /\ Published(Version)' = {}
    BY <1>0, <1>2, <2>1, <2>2, <2>3, OneAlone
  <2>. QED
    BY <1>1, <1>2, <1>3, <2>1, <2>2, <2>3, <2>4 DEF DueOK, Asking, Building
<1>13. CASE ReadBack
  <2>1. publish.pc = "back" /\ UNCHANGED <<tags, releases>>
    BY <1>13 DEF ReadBack, github
  <2>2. publish'.pc = "publish"
    BY <1>0, <1>1, <1>13, <2>1 DEF ReadBack, DueOK, PublishTo, Publishings
  <2>. QED
    BY <1>1, <1>2, <1>3, <2>1, <2>2 DEF DueOK, Asking, Building
<1>14. CASE PublishDraft
  <2>1. PICK k \in Drafts(Version) :
          /\ releases' = [releases EXCEPT ![k].draft = FALSE, ![k].current = publish.current]
          /\ tags' = IF tags[Version] = 0 THEN [tags EXCEPT ![Version] = releases[k].target] ELSE tags
    BY <1>14 DEF PublishDraft
  <2>2. publish.pc = "publish" /\ publish'.pc = "read" /\ tags[Version] = 0 /\ releases[k].target = publish.head
    BY <1>0, <1>1, <1>4, <1>14, <2>1 DEF PublishDraft, PublishTo, Publishings, DueOK, DraftsOK, Building
  <2>3. tags'[Version] = publish.head
    BY <1>0, <1>2, <2>1, <2>2
  <2>4. /\ k \in 1 .. Len(releases) /\ Len(releases') = Len(releases)
        /\ releases'[k] = [releases[k] EXCEPT !.draft = FALSE, !.current = publish.current]
        /\ releases[k] \in Releases /\ releases[k].version = Version
    BY <1>0, <2>1, OnePublished DEF Drafts, Named
  <2>5. releases'[k].version = Version /\ ~releases'[k].draft
    BY <2>4 DEF Releases
  <2>6. k \in DOMAIN releases'
    BY <1>0, <2>1, <2>4
  <2>7. Published(Version)' # {}
    BY <1>2, <2>5, <2>6 DEF Published, Drafts, Named
  <2>. QED
    BY <1>1, <1>2, <2>2, <2>3, <2>7 DEF DueOK, Asking, Building
<1>15. CASE ReadTag
  <2>1. publish.pc = "read" /\ UNCHANGED <<tags, releases>> /\ tags[Version] = publish.head
    BY <1>1, <1>15 DEF ReadTag, DueOK, github
  <2>2. publish'.pc = "done" /\ publish'.exit = "0"
    BY <1>0, <1>15, <2>1 DEF ReadTag, PublishEnds, Publishings
  <2>. QED
    BY <1>1, <1>2, <1>3, <2>1, <2>2 DEF DueOK, Asking, Building
<1>. QED
  BY <1>4, <1>5, <1>6, <1>7, <1>8, <1>9, <1>10, <1>11, <1>12, <1>13, <1>14, <1>15
     DEF Publish, CheckoutToPublish, PublishCallFails

LEMMA DueStep ==
    ASSUME IInv, SourceOK, DraftsOK, DueOK, [Next]_vars
    PROVE  DueOK'
<1>0. TypeOK /\ WorldMoves /\ publish \in Publishings
  BY WorldMovesHolds DEF IInv, TypeOK, PublishOK
<1>1. CASE UNCHANGED <<main, tags, releases, publish>>
  <2>1. CASE publish.disturbed
    BY <1>0, <1>1, <2>1, DueSame
  <2>2. CASE ~publish.disturbed
    BY <1>0, <1>1, <2>2, DueSame
  <2>. QED
    BY <2>1, <2>2
<1>2. CASE Kill
  <2>1. CASE publish' = [publish EXCEPT !.pc = "done", !.exit = "killed", !.disturbed = TRUE]
    <3>1. publish'.pc = "done" /\ publish'.disturbed
      BY <1>0, <2>1 DEF Publishings
    <3>. QED
      BY <3>1, NotDue
  <2>. QED
    BY <1>1, <1>2, <2>1 DEF Kill, github
<1>3. CASE Start
  <2>1. ~publish'.due /\ publish'.deleted = 0
    BY <1>3 DEF Start, Publishing
  <2>. QED
    BY <2>1 DEF DueOK
<1>4. CASE Owner
  <2>1. /\ publish'.pc = publish.pc /\ publish'.exit = publish.exit /\ publish'.head = publish.head
        /\ publish'.reach = publish.reach /\ publish'.current = publish.current
        /\ publish'.deleted = publish.deleted /\ publish'.due = publish.due
    BY <1>0, <1>4 DEF Owner, Push, Withdraw, Merge, Pushed, Tag, MakeDraft, Disturb, Dispatch, Rerun, Publishings
  <2>2. CASE Tag \/ MakeDraft
    <3>1. publish'.disturbed
      BY <1>0, <2>2 DEF Tag, MakeDraft, Disturb, Publishings
    <3>. QED
      BY <1>0, <2>1, <3>1, DueSame
  <2>3. CASE Dispatch \/ Rerun
    BY <1>1, <2>3 DEF Dispatch, Rerun
  <2>4. CASE Push \/ Withdraw \/ Merge
    <3>1. /\ UNCHANGED <<tags, releases>>
          /\ publish' = [publish EXCEPT !.disturbed = publish.disturbed \/ publish.pc \in Asking]
      BY <2>4 DEF Push, Withdraw, Merge, Pushed
    <3>2. publish'.disturbed \/ (~publish.disturbed /\ publish.pc \notin Asking)
      BY <1>0, <3>1 DEF Publishings
    <3>. QED
      BY <1>0, <2>1, <3>1, <3>2, DueSame
  <2>. QED
    BY <1>4, <2>2, <2>3, <2>4 DEF Owner
<1>5. CASE Propose
  BY <1>1, <1>5 DEF Propose, CheckoutToPropose, ReadBase, List, ProposeCallFails, PointStaging, MakeCommit,
                    PointBranch, DeleteStaging, PullRequest, github
<1>6. CASE CheckoutToPublish
  <2>. DEFINE here == Version # 0 /\ Top(Len(main)) = Version /\ ReleaseCommit(Version, Len(main)) = publish.head
              nothing == Version = 0 \/ tags[Version] # 0
              due == here /\ ~Out(Version) /\ Cardinality(Drafts(Version)) <= MaxDrafts
  <2>1. /\ publish.pc = "checkout" /\ UNCHANGED <<main, tags, releases>>
        /\ publish' = [publish EXCEPT
                        !.pc = IF nothing THEN "done" ELSE "askTag", !.exit = IF nothing THEN "0" ELSE @,
                        !.reach = Len(main), !.current = here, !.due = due]
    BY <1>6 DEF CheckoutToPublish, github
  <2>2. publish.deleted = 0 /\ publish.head \in Commits /\ Version \in Versions \cup {0}
    BY <1>0, <2>1, Types DEF DueOK, TypeOK, PublishOK, Version
  <2>. HIDE DEF here, due
  <2>3. /\ publish'.pc = (IF nothing THEN "done" ELSE "askTag") /\ publish'.head = publish.head
        /\ publish'.reach = Len(main) /\ publish'.deleted = 0 /\ (publish'.current <=> here) /\ (publish'.due <=> due)
    BY <1>0, <2>1, <2>2 DEF Publishings
  <2>4. CASE due
    <3>1. here /\ ~Out(Version) /\ Cardinality(Drafts(Version)) <= MaxDrafts
      BY <2>4 DEF due
    <3>2. ~nothing /\ Published(Version) = {} /\ Version \in Versions /\ tags[Version] = 0
      BY <2>2, <3>1 DEF here, Out
    <3>3. /\ Version' = Version /\ Commits' = Commits
          /\ Drafts(Version)' = Drafts(Version) /\ Published(Version)' = Published(Version)
      BY <2>1, <2>3 DEF Version, Top, Commits, Drafts, Named, Published
    <3>4. 0 + Cardinality(Drafts(Version)) <= MaxDrafts
      <4>1. Cardinality(Drafts(Version)) \in Nat
        BY <1>0, DraftsAreFinite
      <4>. QED
        BY <3>1, <4>1
    <3>5. publish'.pc = "askTag"
      BY <2>3, <3>2
    <3>. QED
      BY <2>1, <2>2, <2>3, <3>1, <3>2, <3>3, <3>4, <3>5 DEF DueOK, Asking, Building
  <2>5. CASE ~due
    <3>1. ~publish'.due /\ publish'.pc # "checkout"
      BY <2>3, <2>5
    <3>. QED
      BY <3>1, NotDue
  <2>. QED
    BY <2>4, <2>5
<1>7. CASE Publish /\ publish.pc # "checkout"
  <2>1. publish'.pc # "checkout"
    BY <1>0, <1>7 DEF Publish, CheckoutToPublish, AskTag, AskRelease, AskHead, Build, AskTagAgain, State, Delete,
              Create, ReadBack, PublishDraft, ReadTag, PublishCallFails, PublishTo, PublishEnds, PublishBreaks,
              Publishings
  <2>. QED
    BY <1>0, <1>7, <2>1, DueOn, NotDue
<1>. QED
  <2>1. CASE UNCHANGED vars
    BY <1>1, <2>1 DEF github, vars
  <2>2. Publish => CheckoutToPublish \/ publish.pc # "checkout"
    BY DEF Publish, AskTag, AskRelease, AskHead, Build, AskTagAgain, State, Delete,
           Create, ReadBack, PublishDraft, ReadTag, PublishCallFails, Asking
  <2>. QED
    BY <1>2, <1>3, <1>4, <1>5, <1>6, <1>7, <2>1, <2>2 DEF Next

\* A step of the propose job that leaves it the version and the head it has.
LEMMA ProposalMoves ==
    ASSUME ProposalOK, UNCHANGED main, propose.version # 0 => propose.pc \in Late,
           propose'.version = propose.version, propose'.head = propose.head, propose'.existing = propose.existing,
           propose.version # 0 => propose'.pc \in Late \cup {"done"},
           propose.version # 0 /\ ~propose'.disturbed =>
             /\ ~propose.disturbed
             /\ propose'.pc \in Late /\ propose.existing => pr'.open
             /\ propose'.pc \in {"clean", "pr", "done"} => branches'.release = Proposal
             /\ propose'.pc = "done" => propose'.exit = "0" /\ pr' = [open |-> TRUE, title |-> propose.version]
    PROVE  ProposalOK'
<1>1. Proposal' = Proposal
  BY DEF Proposal
<1>. QED
  BY <1>1 DEF ProposalOK

LEMMA ProposalStep ==
    ASSUME IInv, ProposalOK, [Next]_vars
    PROVE  ProposalOK'
<1>0. TypeOK /\ propose \in Proposings /\ pr \in [open : BOOLEAN, title : Versions \cup {0}]
      /\ branches \in [staging : Int, release : [base : Nat, log : Logs]]
  BY DEF IInv, TypeOK, ProposeOK, GitHubOK
<1>1. CASE UNCHANGED <<main, branches, pr, propose>>
  BY <1>1 DEF ProposalOK, Proposal
<1>2. CASE propose' = [propose EXCEPT !.disturbed = TRUE]
  <2>1. propose'.version = propose.version /\ propose'.pc = propose.pc /\ propose'.disturbed
    BY <1>0, <1>2 DEF Proposings
  <2>. QED
    BY <2>1 DEF ProposalOK
<1>3. CASE /\ propose'.disturbed /\ propose'.pc = "done" /\ propose'.version = propose.version
  BY <1>3 DEF ProposalOK
<1>4. CASE Start
  <2>1. propose'.version = 0
    BY <1>4 DEF Start, Proposing
  <2>. QED
    BY <2>1 DEF ProposalOK
<1>5. CASE Propose /\ ~ProposeBreaks
  <2>0. UNCHANGED main
    BY <1>5 DEF Propose, CheckoutToPropose, ReadBase, List, ProposeCallFails, PointStaging, MakeCommit,
                PointBranch, DeleteStaging, PullRequest, github
  <2>1. CASE CheckoutToPropose \/ ReadBase
    <3>1. propose.pc \in {"checkout", "base"} /\ propose'.version = propose.version
      BY <1>0, <2>1 DEF CheckoutToPropose, ReadBase, ProposeTo, ProposeEnds, Proposings
    <3>2. propose.version = 0
      BY <3>1 DEF ProposalOK, Late
    <3>. QED
      BY <3>1, <3>2 DEF ProposalOK
  <2>2. CASE List
    <3>1. propose.pc = "list" /\ propose.version = 0 /\ UNCHANGED <<branches, pr>>
      BY <2>2 DEF List, ProposalOK, Late, github
    <3>2. CASE propose' = [propose EXCEPT !.pc = "staging", !.existing = pr.open, !.version = Chosen]
      <4>1. propose'.pc = "staging" /\ propose'.existing = pr.open
        BY <1>0, <3>2 DEF Proposings
      <4>. QED
        BY <3>1, <4>1 DEF ProposalOK, Late
    <3>3. CASE ProposeEnds("0") \/ ProposeEnds("1")
      <4>1. propose'.version = 0
        BY <1>0, <3>1, <3>3 DEF ProposeEnds, Proposings
      <4>. QED
        BY <4>1 DEF ProposalOK
    <3>. QED
      BY <2>2, <3>2, <3>3 DEF List
  <2>3. CASE PointStaging
    <3>1. propose.pc = "staging" /\ propose' = [propose EXCEPT !.pc = "commit"] /\ UNCHANGED pr
      BY <1>5, <2>3 DEF PointStaging, Writes, ProposeTo
    <3>. QED
      BY <1>0, <2>0, <3>1, ProposalMoves DEF Proposings, ProposalOK, Late
  <2>4. CASE MakeCommit
    <3>1. propose.pc = "commit" /\ propose' = [propose EXCEPT !.pc = "branch"] /\ UNCHANGED pr
      BY <1>5, <2>4 DEF MakeCommit, Writes, ProposeTo
    <3>. QED
      BY <1>0, <2>0, <3>1, ProposalMoves DEF Proposings, ProposalOK, Late
  <2>5. CASE PointBranch
    <3>1. /\ propose.pc = "branch" /\ propose' = [propose EXCEPT !.pc = "clean"] /\ UNCHANGED pr
          /\ branches' = [branches EXCEPT !.release = Proposal]
      BY <1>5, <2>5 DEF PointBranch, Writes, ProposeTo
    <3>2. branches'.release = Proposal
      BY <1>0, <3>1
    <3>. QED
      BY <1>0, <2>0, <3>1, <3>2, ProposalMoves DEF Proposings, ProposalOK, Late
  <2>6. CASE DeleteStaging
    <3>1. /\ propose.pc = "clean" /\ propose' = [propose EXCEPT !.pc = "pr"] /\ UNCHANGED pr
          /\ branches' = [branches EXCEPT !.staging = 0]
      BY <1>5, <2>6 DEF DeleteStaging, Writes, ProposeTo
    <3>2. branches'.release = branches.release
      BY <1>0, <3>1
    <3>. QED
      BY <1>0, <2>0, <3>1, <3>2, ProposalMoves DEF Proposings, ProposalOK, Late
  <2>7. CASE PullRequest
    <3>1. /\ propose.pc = "pr" /\ propose' = [propose EXCEPT !.pc = "done", !.exit = "0"] /\ UNCHANGED branches
          /\ pr' = IF propose.existing THEN [pr EXCEPT !.title = propose.version]
                   ELSE [open |-> TRUE, title |-> propose.version]
      BY <1>5, <2>7 DEF PullRequest, Writes, ProposeEnds
    <3>2. (propose.existing => pr.open) => pr' = [open |-> TRUE, title |-> propose.version]
      BY <1>0, <3>1 DEF Proposings
    <3>. QED
      BY <1>0, <2>0, <3>1, <3>2, ProposalMoves DEF Proposings, ProposalOK, Late
  <2>. QED
    BY <1>5, <2>1, <2>2, <2>3, <2>4, <2>5, <2>6, <2>7 DEF Propose, ProposeCallFails
<1>. QED
  <2>1. ProposeBreaks => propose'.disturbed /\ propose'.pc = "done" /\ propose'.version = propose.version
    BY <1>0 DEF ProposeBreaks, Proposings
  <2>2. CASE Kill
    <3>1. UNCHANGED propose \/ (propose'.disturbed /\ propose'.pc = "done" /\ propose'.version = propose.version)
      BY <1>0, <2>2 DEF Kill, Proposings
    <3>. QED
      BY <1>1, <1>3, <2>2, <3>1 DEF Kill, github
  <2>3. CASE Owner
    BY <1>1, <1>2, <2>3 DEF Owner, Push, Withdraw, Merge, Pushed, Tag, MakeDraft, Disturb, Dispatch, Rerun
  <2>4. CASE Publish \/ UNCHANGED vars
    BY <1>1, <2>4 DEF Publish, CheckoutToPublish, AskTag, AskRelease, AskHead, Build, AskTagAgain, State, Delete,
                Create, ReadBack, PublishDraft, ReadTag, PublishCallFails, github, vars
  <2>. QED
    BY <1>3, <1>4, <1>5, <2>1, <2>2, <2>3, <2>4 DEF Next

LEMMA DeliveryInvariance == FetchSpec => []DeliveryOK
<1>1. FetchInit => DeliveryOK
  BY DEF FetchInit, Init, Publishing, Proposing, DeliveryOK, ReleasesOK, SourceOK, DraftsOK, DueOK, ProposalOK,
         Asking, Building, Built, Making
<1>2. IInv /\ DeliveryOK /\ [FetchNext]_fetchVars => DeliveryOK'
  <2>1. [FetchNext]_fetchVars => [Next]_vars
    BY DEF FetchNext, fetchVars, FindTag, Download, ClearMode, VerifyChecksum, VerifyAttestation,
           MakeExecutable, FetchBreaks
  <2>. QED
    BY <2>1, ReleasesStep, SourceStep, DueStep, ProposalStep DEF DeliveryOK
<1>. QED
  BY <1>1, <1>2, TypeCorrect, PTL DEF FetchSpec

\* A published release is what it says (release-pull-request's pending,
\* release-publish's release), for good, whatever the owner pushes, tags, drafts
\* and runs again, and whatever call fails: it is tagged at the commit that
\* brought its version in, and holds that commit's build, whole and attested.
THEOREM ReleasesAreTrue == FetchSpec => []ReleasedFromItsCommit
<1>1. IInv /\ DeliveryOK => ReleasedFromItsCommit
  <2>. SUFFICES ASSUME TypeOK, ReleasesOK, NEW i \in DOMAIN releases, ~releases[i].draft,
                       releases[i].version \notin byHand
                PROVE  LET r == releases[i]
                       IN /\ tags[r.version] = r.target
                          /\ Top(r.target) = r.version /\ (r.target > 1 => Top(r.target - 1) # r.version)
                          /\ r.bytes = Bytes(r.target, TRUE) /\ r.target \in attested /\ r.current
    BY DEF ReleasedFromItsCommit, DeliveryOK, IInv
  <2>1. i \in 1 .. Len(releases)
    BY DEF TypeOK, GitHubOK
  <2>. QED
    BY <2>1 DEF ReleasesOK, Truthful, Brought
<1>. QED
  BY <1>1, TypeCorrect, DeliveryInvariance, PTL

\* A job nothing disturbs does its work, whatever the jobs before it left: a
\* release due to be made is out, up to MAX_DRAFTS drafts in its way included,
\* and a proposal is open, up to date, and says what its changelog says.
THEOREM UndisturbedJobsDo == FetchSpec => []UndisturbedJobsDeliver
<1>1. DeliveryOK => UndisturbedJobsDeliver
  BY DEF DeliveryOK, DueOK, ProposalOK, UndisturbedJobsDeliver
<1>. QED
  BY <1>1, DeliveryInvariance, PTL
=============================================================================
