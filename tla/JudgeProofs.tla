---------------------------- MODULE JudgeProofs ----------------------------
(***************************************************************************)
(* Theorems about Judge: that a file config.Parse accepts can be judged,   *)
(* that exactly the overrides without effect are refused, that the         *)
(* worklist is the failures, that an automerge credited is one, that a     *)
(* branch filter admits what its syntax says, and that a file that was not *)
(* read hides no failure, for every file, account, table of words, tree of *)
(* presets, filter pattern and content of the files that were not read.    *)
(***************************************************************************)
EXTENDS Judge, TLAPS, WellFoundedInduction, FiniteSetTheorems

-----------------------------------------------------------------------------
(* The states. *)

Accepted == {"loaded", "collected", "validated", "reported"}
Snapped == {"collected", "validated", "reported"}

\* A file that was accepted parses, a snapshot is of its repositories under its
\* types, and a report is one of the snapshot.
IInv ==
    /\ phase \in {"start", "refused"} \cup Accepted
    /\ \E i \in DOMAIN Cases : case \in Cases[i]
    /\ phase \in Accepted => Parses(Config)
    /\ phase \in Snapped =>
         /\ {"owner", "types", "identity", "repos", "marketplace"} \subseteq DOMAIN snap
         /\ snap.types = Config.types /\ snap.identity = Config.identity
         /\ snap.repos = {Facts(r) : r \in {q \in case.account.repos : q.name \in Configured}}
    /\ phase = "reported" => \E pick \in Picks : report = Evaluate(snap, pick)

\* No step moves the case, and so nothing that is said of it.
LEMMA CaseStays ==
    ASSUME case' = case
    PROVE  /\ Config' = Config /\ Configured' = Configured
           /\ \A r : Facts(r)' = Facts(r)
BY DEF Config, Configured, Discovered, Facts

LEMMA Invariance == Spec => []IInv
<1>1. Init => IInv
  BY DEF Init, IInv, Accepted, Snapped
<1>2. IInv /\ [Next]_vars => IInv'
  <2> SUFFICES ASSUME IInv, [Next]_vars PROVE IInv'
    OBVIOUS
  <2>0. case' = case
    BY DEF Next, Load, Unusable, NothingInCommon, Collect, Validate, Reject, Report, Refuse, vars
  <2>1. Config' = Config /\ Configured' = Configured /\ \A r : Facts(r)' = Facts(r)
    BY <2>0, CaseStays
  <2>2. CASE Load
    BY <2>0, <2>1, <2>2 DEF IInv, Load, Usable, Accepted, Snapped
  <2>3. CASE Unusable \/ NothingInCommon \/ Reject
    BY <2>0, <2>1, <2>3 DEF IInv, Unusable, NothingInCommon, Reject, Refuse, Accepted, Snapped
  <2>4. CASE Collect
    BY <2>0, <2>1, <2>4 DEF IInv, Collect, Accepted, Snapped
  <2>5. CASE Validate
    BY <2>0, <2>1, <2>5 DEF IInv, Validate, Accepted, Snapped
  <2>6. CASE Report
    BY <2>0, <2>1, <2>6 DEF IInv, Report, Accepted, Snapped
  <2>7. CASE UNCHANGED vars
    BY <2>0, <2>1, <2>7 DEF IInv, vars, Accepted, Snapped
  <2> QED
    BY <2>2, <2>3, <2>4, <2>5, <2>6, <2>7 DEF Next
<1> QED
  BY <1>1, <1>2, PTL DEF Spec

-----------------------------------------------------------------------------
(* What a file that parses says. *)

\* What Facts keeps of a repository, and what it sets.
LEMMA FactsKeep ==
    ASSUME IInv, NEW r \in case.account.repos
    PROVE  /\ \A k \in DOMAIN r \ {"type", "published", "overrides", "workflows", "actions", "renovate"} : Facts(r)[k] = r[k]
           /\ DOMAIN Facts(r) = DOMAIN r /\ Recorded(r)
           /\ Facts(r).name = r.name /\ Facts(r).visibility = r.visibility
           /\ Facts(r).type = Config.repos[r.name].type
           /\ Facts(r).published = Config.repos[r.name].published
           /\ Facts(r).overrides = Config.repos[r.name].overrides
           /\ Facts(r).workflows = [i \in DOMAIN r.workflows |-> ParseWorkflow(r.workflows[i].path, r.workflows[i].doc)]
           /\ Facts(r).actions = {ParseComposite(a.path, a.doc) : a \in r.actions}
           /\ Facts(r).renovate = ResolveConfig(r.renovate, case.account.presets)
<1>1. Recorded(r)
  BY JudgeAssumption DEF IInv
<1>2. {"name", "visibility", "type", "published", "overrides", "workflows", "actions", "renovate"} \subseteq DOMAIN r
  BY <1>1 DEF Recorded, RepositoryFields
<1>3. /\ DOMAIN Facts(r) = DOMAIN r
      /\ \A k \in DOMAIN r \ {"type", "published", "overrides", "workflows", "actions", "renovate"} : Facts(r)[k] = r[k]
  BY Zenon DEF Facts
<1>4. /\ Facts(r).type = Config.repos[r.name].type
      /\ Facts(r).published = Config.repos[r.name].published
      /\ Facts(r).overrides = Config.repos[r.name].overrides
      /\ Facts(r).workflows = [i \in DOMAIN r.workflows |-> ParseWorkflow(r.workflows[i].path, r.workflows[i].doc)]
      /\ Facts(r).actions = {ParseComposite(a.path, a.doc) : a \in r.actions}
      /\ Facts(r).renovate = ResolveConfig(r.renovate, case.account.presets)
  BY <1>2, Zenon DEF Facts
<1>5. Facts(r).name = r.name /\ Facts(r).visibility = r.visibility
  BY <1>2, <1>3
<1> QED
  BY <1>1, <1>3, <1>4, <1>5, Zenon

\* A duration is no word of the vocabulary.
LEMMA NoWordIsDuration ==
    ASSUME NEW word \in {"none"} \cup Expectations
    PROVE  ParseThreshold(word) = NoDuration
BY SpellingAssumption DEF ParseThreshold

\* The words of a type that was accepted, compiled.
LEMMA CompiledWords ==
    ASSUME NEW config, Parses(config), NEW t \in DOMAIN config.types, NEW c \in Check
    PROVE  /\ TypeSpec(config.types[t]).cells[c] \in Expectations
           /\ c = "direct_push" => TypeSpec(config.types[t]).cells[c] = "required"
           /\ c = Threshold => TypeSpec(config.types[t]).cells[c] \in {"info", "not_required", "required"}
           /\ c \in ValueOnly => TypeSpec(config.types[t]).cells[c] \in {"info", "not_required"}
           /\ c \notin {"direct_push", Threshold} => TypeSpec(config.types[t]).cells[c] = config.types[t][c]
<1> DEFINE words == config.types[t]
<1>1. WordAccepted(c, words[c])
  <2> SUFFICES ASSUME ~WordAccepted(c, words[c]) PROVE FALSE
    OBVIOUS
  <2>1. <<t, c>> \in TypeProblems(config.types)
    BY DEF TypeProblems
  <2> QED
    BY <2>1 DEF Parses
<1>2. TypeSpec(words).cells[c] =
        IF c = "direct_push" \/ (c = Threshold /\ ParseThreshold(words[Threshold]) # NoDuration)
        THEN "required" ELSE words[c]
  BY DEF TypeSpec
<1>3. CASE c = "direct_push"
  BY <1>2, <1>3 DEF Threshold, ValueOnly, Expectations
<1>4. CASE c = Threshold
  BY <1>1, <1>2, <1>4 DEF WordAccepted, AllowedWords, Threshold, ValueOnly, Expectations
<1>5. CASE c \in ValueOnly
  BY <1>1, <1>2, <1>5 DEF WordAccepted, AllowedWords, Threshold, ValueOnly, Expectations
<1>6. CASE c \notin ValueOnly \cup {"direct_push", Threshold}
  BY <1>1, <1>2, <1>6 DEF WordAccepted, AllowedWords
<1> QED
  BY <1>3, <1>4, <1>5, <1>6

\* The overrides of an entry that was accepted.
LEMMA AcceptedEntry ==
    ASSUME NEW config, Parses(config), NEW n \in DOMAIN config.repos
    PROVE  /\ config.repos[n].type \in DOMAIN config.types
           /\ \A c \in DOMAIN config.repos[n].overrides :
                c \in Check /\ ValidOverride(c, config.repos[n].overrides[c])
BY DEF Parses, EntryProblems

\* What an override may say, by check.
LEMMA OverrideWords ==
    ASSUME NEW c, NEW word, ValidOverride(c, word)
    PROVE  /\ word # "none"
           /\ c = "direct_push" => word \in {"blocked", "allowed", "required", "not_required"}
           /\ c = Threshold => word \in {"info", "not_required"} \/ ParseThreshold(word) # NoDuration
           /\ c \in ValueOnly => word \in {"info", "not_required"}
           /\ c \notin {"direct_push", Threshold} => word \in Expectations
<1>1. ParseThreshold("none") = NoDuration
  BY NoWordIsDuration
<1> QED
  BY <1>1 DEF ValidOverride, AllowedWords, Threshold, ValueOnly, Expectations

-----------------------------------------------------------------------------
(* Overrides. *)

\* What a repository is held to on a check it does not override.
LEMMA HeldByType ==
    ASSUME NEW c, NEW spec, NEW decl, NEW public, c \notin DOMAIN decl.overrides
    PROVE  Held(c, spec, decl, public) =
             [exp |-> Resolve(spec.cells[c], public, decl.published), want |-> spec.directPush,
              age |-> spec.minReleaseAge]
BY DEF Held

LEMMA ResolveDecided ==
    ASSUME NEW exp, NEW public, NEW published
    PROVE  exp \notin Conditional => Resolve(exp, public, published) = exp
BY DEF Resolve, Conditional

LEMMA ResolveLands ==
    ASSUME NEW exp \in Expectations, NEW public, NEW published
    PROVE  Resolve(exp, public, published) \in Expectations \ Conditional
BY DEF Resolve, Conditional, Expectations

\* Both halves of the validation, of one override: whichever of them decides it,
\* condemned means that it changes nothing.
LEMMA DeadChangesNothing ==
    ASSUME NEW config, Parses(config), NEW n \in DOMAIN config.repos,
           NEW c \in DOMAIN config.repos[n].overrides, NEW public \in BOOLEAN,
           NEW without, c \notin DOMAIN without.overrides, without.published = config.repos[n].published
    PROVE  LET decl == config.repos[n]
               spec == TypeSpec(config.types[decl.type])
               condemned == OfflineDead(config.types, decl) \cup LiveDead(config.types, decl, public)
           IN \/ c \in condemned <=> Held(c, spec, decl, public) = Held(c, spec, without, public)
              \/ c = Threshold /\ spec.cells[c] = "info" /\ c \in condemned
<1> DEFINE decl == config.repos[n]
           spec == TypeSpec(config.types[decl.type])
           condemned == OfflineDead(config.types, decl) \cup LiveDead(config.types, decl, public)
           base == spec.cells[c]
           over == decl.overrides[c]
           idle == [exp |-> Resolve(base, public, decl.published), want |-> spec.directPush,
                    age |-> spec.minReleaseAge]
           settled == Decides(base) /\ OverrideUnconditional(over)
           word == IF over \in Expectations THEN Resolve(over, public, decl.published) ELSE over
<1> SUFFICES \/ c \in condemned <=> Held(c, spec, decl, public) = Held(c, spec, without, public)
             \/ c = Threshold /\ base = "info" /\ c \in condemned
  OBVIOUS
<1>1. decl.type \in DOMAIN config.types /\ c \in Check /\ ValidOverride(c, over)
  BY AcceptedEntry
<1>2. /\ base \in Expectations
      /\ c = "direct_push" => base = "required"
      /\ c = Threshold => base \in {"info", "not_required", "required"}
  BY <1>1, CompiledWords
<1>3. /\ over # "none"
      /\ c = "direct_push" => over \in {"blocked", "allowed", "required", "not_required"}
      /\ c = Threshold => over \in {"info", "not_required"} \/ ParseThreshold(over) # NoDuration
      /\ c \notin {"direct_push", Threshold} => over \in Expectations
  BY <1>1, OverrideWords
<1>4. Held(c, spec, without, public) = idle
  BY HeldByType
<1>5. c \in condemned <=> IF settled THEN Dead(c, spec, base, over)
                          ELSE Dead(c, spec, Resolve(base, public, decl.published), word)
  BY <1>1 DEF OfflineDead, LiveDead
<1>6. base \notin Conditional => Resolve(base, public, decl.published) = base
  BY ResolveDecided
<1>s. settled <=> Decides(base) /\ OverrideUnconditional(over)
  OBVIOUS
<1>w. word = IF over \in Expectations THEN Resolve(over, public, decl.published) ELSE over
  OBVIOUS
<1>i. idle = [exp |-> Resolve(base, public, decl.published), want |-> spec.directPush, age |-> spec.minReleaseAge]
  OBVIOUS
<1>t. Threshold # "direct_push"
  BY DEF Threshold
<1>h. /\ c = "direct_push" =>
           Held(c, spec, decl, public) =
             [exp |-> IF over = "not_required" THEN "not_required" ELSE "required",
              want |-> IF over \in {"not_required", "required"} THEN spec.directPush ELSE over,
              age |-> spec.minReleaseAge]
      /\ c = Threshold =>
           Held(c, spec, decl, public) =
             [exp |-> IF over \in {"not_required", "info"} THEN over
                      ELSE IF ParseThreshold(over) # NoDuration THEN "required" ELSE base,
              want |-> spec.directPush,
              age |-> IF over \notin {"not_required", "info"} /\ ParseThreshold(over) # NoDuration
                        THEN ParseThreshold(over) ELSE spec.minReleaseAge]
      /\ c \notin {"direct_push", Threshold} =>
           Held(c, spec, decl, public) =
             [exp |-> Resolve(IF over \in Expectations THEN over ELSE base, public, decl.published),
              want |-> spec.directPush, age |-> spec.minReleaseAge]
  BY <1>3, <1>t DEF Held
<1> HIDE DEF base, over, idle, settled, word, decl, spec, condemned
<1>7. CASE c = "direct_push"
  <2>1. settled
    BY <1>2, <1>3, <1>7, <1>s DEF Decides, OverrideUnconditional, Conditional, Expectations
  <2>2. c \in condemned <=> over = "required" \/ (over # "not_required" /\ over = spec.directPush)
    BY <1>5, <1>7, <1>t, <2>1 DEF Dead
  <2>3. Held(c, spec, decl, public) =
          [exp |-> IF over = "not_required" THEN "not_required" ELSE "required",
           want |-> IF over \in {"not_required", "required"} THEN spec.directPush ELSE over,
           age |-> spec.minReleaseAge]
    BY <1>7, <1>h
  <2>4. idle.exp = "required"
    BY <1>2, <1>6, <1>7, <1>i DEF Conditional
  <2> QED
    BY <1>3, <1>4, <1>i, <2>2, <2>3, <2>4
<1>8. CASE c = Threshold
  <2>1. settled
    <3>1. over \notin Conditional
      BY <1>3, <1>8, NoWordIsDuration DEF Conditional, Expectations
    <3> QED
      BY <1>2, <1>8, <1>s, <3>1 DEF Decides, OverrideUnconditional, Conditional, Expectations
  <2>2. c \in condemned <=> ThresholdDead(spec, base, over)
    BY <1>5, <1>8, <1>t, <2>1 DEF Dead
  <2>3. Held(c, spec, decl, public) =
          [exp |-> IF over \in {"not_required", "info"} THEN over
                   ELSE IF ParseThreshold(over) # NoDuration THEN "required" ELSE base,
           want |-> spec.directPush,
           age |-> IF over \notin {"not_required", "info"} /\ ParseThreshold(over) # NoDuration
                     THEN ParseThreshold(over) ELSE spec.minReleaseAge]
    BY <1>8, <1>h
  <2>4. idle.exp = base
    BY <1>2, <1>6, <1>8, <1>i DEF Conditional
  <2>5. over \in {"info", "not_required"} => ParseThreshold(over) = NoDuration
    BY NoWordIsDuration DEF Expectations
  <2>6. CASE over = "info"
    BY <1>2, <1>4, <1>8, <1>i, <2>2, <2>3, <2>4, <2>5, <2>6 DEF ThresholdDead
  <2>7. CASE over = "not_required"
    BY <1>2, <1>4, <1>8, <1>i, <2>2, <2>3, <2>4, <2>5, <2>7 DEF ThresholdDead
  <2>8. CASE over \notin {"info", "not_required"}
    BY <1>2, <1>3, <1>4, <1>8, <1>i, <2>2, <2>3, <2>4, <2>8 DEF ThresholdDead
  <2> QED
    BY <2>6, <2>7, <2>8
<1>9. CASE c \notin {"direct_push", Threshold}
  <2>1. Held(c, spec, decl, public) =
          [exp |-> Resolve(over, public, decl.published), want |-> spec.directPush, age |-> spec.minReleaseAge]
    BY <1>3, <1>9, <1>h
  <2>2. word = Resolve(over, public, decl.published) /\ word \in Expectations
    BY <1>3, <1>9, <1>w, ResolveLands
  <2>3. settled => Resolve(base, public, decl.published) = base /\ word = over
    BY <1>6, <1>s, <2>2, ResolveDecided DEF Decides, OverrideUnconditional
  <2>4. c \in condemned <=> word = Resolve(base, public, decl.published)
    BY <1>3, <1>5, <1>9, <1>w, <2>2, <2>3 DEF Dead
  <2> QED
    BY <1>4, <1>i, <2>1, <2>2, <2>4
<1> QED
  BY <1>7, <1>8, <1>9

\* ValidateOffline and Validate between them refuse exactly the overrides that
\* change nothing of what the repository is held to.
THEOREM DeadOverridesExactly == Spec => []DeadExactly
<1>1. IInv => DeadExactly
  <2> SUFFICES ASSUME IInv, phase \in {"loaded", "refused"}, Parses(Config),
                      NEW r \in Audited, NEW c \in DOMAIN Config.repos[r.name].overrides
               PROVE  \/ c \in Condemned(r) <=> ChangesNothing(c, r)
                      \/ c = Threshold /\ Spec1(r).cells[c] = "info" /\ c \in Condemned(r)
    BY DEF DeadExactly
  <2> DEFINE decl == Config.repos[r.name]
             without == [decl EXCEPT !.overrides = [k \in DOMAIN @ \ {c} |-> @[k]]]
             public == r.visibility = "public"
  <2>1. r.name \in DOMAIN Config.repos
    BY DEF Audited, Configured
  <2>2. {"overrides", "published"} \subseteq DOMAIN decl
    BY <2>1, JudgeAssumption DEF IInv, Config
  <2>3. c \notin DOMAIN without.overrides /\ without.published = decl.published
    BY <2>2
  <2>4. public \in BOOLEAN
    OBVIOUS
  <2>5. LET spec == TypeSpec(Config.types[decl.type])
            condemned == OfflineDead(Config.types, decl) \cup LiveDead(Config.types, decl, public)
        IN \/ c \in condemned <=> Held(c, spec, decl, public) = Held(c, spec, without, public)
           \/ c = Threshold /\ spec.cells[c] = "info" /\ c \in condemned
    <3> HIDE DEF without, public
    <3> QED
      BY <2>1, <2>3, <2>4, DeadChangesNothing
  <2> QED
    BY <2>5 DEF Condemned, ChangesNothing, HeldWithout, Spec1
<1> QED
  BY <1>1, Invariance, PTL

-----------------------------------------------------------------------------
(* What parses can be judged. *)

\* A repository of the snapshot is one the file names.
LEMMA SnappedRepository ==
    ASSUME IInv, phase \in Snapped, NEW s \in snap.repos
    PROVE  \E n \in DOMAIN Config.repos :
             /\ s.type = Config.repos[n].type /\ s.published = Config.repos[n].published
             /\ s.overrides = Config.repos[n].overrides
             /\ s.type \in DOMAIN snap.types
<1>1. PICK r \in case.account.repos : r.name \in Configured /\ s = Facts(r)
  BY DEF IInv
<1>2. r.name \in DOMAIN Config.repos /\ Parses(Config) /\ snap.types = Config.types
  BY <1>1 DEF IInv, Configured, Accepted, Snapped
<1>3. Config.repos[r.name].type \in DOMAIN Config.types
  BY <1>2, AcceptedEntry
<1> QED
  BY <1>1, <1>2, <1>3, FactsKeep

\* A check that nothing judges is one no repository is held to.
LEMMA UnjudgedIsNotRequired ==
    ASSUME NEW config, Parses(config), NEW n \in DOMAIN config.repos, NEW c \in Check \ {"direct_push", Threshold},
           ~Judges(config, c), NEW public, NEW s, s.overrides = config.repos[n].overrides
    PROVE  Held(c, TypeSpec(config.types[config.repos[n].type]), s, public).exp = "not_required"
<1> DEFINE type == config.repos[n].type
           spec == TypeSpec(config.types[type])
<1>1. type \in DOMAIN config.types /\ (c \in DOMAIN s.overrides => ValidOverride(c, s.overrides[c]))
  BY AcceptedEntry
<1>2. spec.cells[c] = config.types[type][c] /\ spec.cells[c] \in Expectations
  BY <1>1, CompiledWords
<1>3. c \in DOMAIN config.types[type]
  <2> SUFFICES ASSUME c \notin DOMAIN config.types[type] PROVE FALSE
    OBVIOUS
  <2>1. <<type, c>> \in TypeProblems(config.types)
    BY <1>1 DEF TypeProblems
  <2> QED
    BY <2>1 DEF Parses
<1>4. spec.cells[c] = "not_required"
  BY <1>1, <1>2, <1>3 DEF Judges, Expectations
<1> HIDE DEF spec
<1>5. CASE c \notin DOMAIN s.overrides
  BY <1>4, <1>5, HeldByType, ResolveDecided DEF spec, Conditional
<1>6. CASE c \in DOMAIN s.overrides
  <2>1. s.overrides[c] = "not_required"
    BY <1>6 DEF Judges
  <2>2. Held(c, spec, s, public).exp = Resolve("not_required", public, s.published)
    BY <1>6, <2>1 DEF Held, Expectations
  <2> QED
    BY <2>2, ResolveDecided DEF spec, Conditional
<1> QED
  BY <1>5, <1>6

LEMMA GitIdentityIsACheck == "git_identity" \in Check \ {"direct_push", Threshold}
<1>1. Checks[42] = "git_identity" /\ 42 \in DOMAIN Checks
  BY DEF Checks
<1> QED
  BY <1>1 DEF Check, Threshold

\* What config.Parse accepts, evaluateRepo can judge: its errors, met only after
\* minutes of requests, never come.
THEOREM ParsedIsJudged == Spec => []AcceptedIsJudged
<1>1. IInv => AcceptedIsJudged
  <2> SUFFICES ASSUME IInv, phase = "validated", NEW s \in snap.repos
               PROVE  /\ s.type \in DOMAIN snap.types
                      /\ snap.identity = NoStandard =>
                           Held("git_identity", TypeSpec(snap.types[s.type]), s, s.visibility = "public").exp = "not_required"
    BY DEF AcceptedIsJudged, EvaluateFails
  <2>1. phase \in Snapped /\ Parses(Config) /\ snap.types = Config.types /\ snap.identity = Config.identity
    BY DEF IInv, Snapped, Accepted
  <2>2. PICK n \in DOMAIN Config.repos :
          /\ s.type = Config.repos[n].type /\ s.overrides = Config.repos[n].overrides
          /\ s.type \in DOMAIN snap.types
    BY <2>1, SnappedRepository
  <2>3. ASSUME snap.identity = NoStandard
        PROVE  Held("git_identity", TypeSpec(snap.types[s.type]), s, s.visibility = "public").exp = "not_required"
    <3>1. ~Judges(Config, "git_identity")
      BY <2>1, <2>3 DEF Parses, IdentityTableProblems
    <3> QED
      BY <2>1, <2>2, <3>1, UnjudgedIsNotRequired, GitIdentityIsACheck
  <2> QED
    BY <2>2, <2>3
<1> QED
  BY <1>1, Invariance, PTL

-----------------------------------------------------------------------------
(* The worklist. *)

\* A report has the cells it was made of, and their worklist.
LEMMA WorklistOfReport ==
    ASSUME NEW s, NEW cells
    PROVE  ReportOf(s, cells).gaps = CollectGaps(s.repos, cells) /\ ReportOf(s, cells).cells = cells
BY Zenon DEF ReportOf

\* A cell that only shows its value never fails.
LEMMA ValueNeverFails ==
    ASSUME IInv, phase \in Snapped, NEW s \in snap.repos, NEW c \in ValueOnly \cap Check, NEW pick
    PROVE  EvaluateCell(c, s, TypeSpec(snap.types[s.type]), snap, pick).verdict # "fail"
<1>1. Parses(Config) /\ snap.types = Config.types
  BY DEF IInv, Snapped, Accepted
<1>2. PICK n \in DOMAIN Config.repos : s.type = Config.repos[n].type /\ s.overrides = Config.repos[n].overrides
  BY SnappedRepository
<1>3. c \notin {"direct_push", Threshold, "required_checks", "branch_up_to_date"}
  BY DEF ValueOnly, Threshold
<1> DEFINE spec == TypeSpec(snap.types[s.type])
           public == s.visibility = "public"
           held == Held(c, spec, s, public)
           obs == Observe(c, s, snap, pick)
<1>4. spec.cells[c] \in {"info", "not_required"}
  BY <1>1, <1>2, AcceptedEntry, CompiledWords
<1>5. c \in DOMAIN s.overrides => s.overrides[c] \in {"info", "not_required"}
  BY <1>1, <1>2, AcceptedEntry, OverrideWords
<1>6. held.exp \in {"info", "not_required"}
  <2> HIDE DEF spec, public
  <2>1. CASE c \notin DOMAIN s.overrides
    BY <1>4, <2>1, HeldByType, ResolveDecided DEF Conditional
  <2>2. CASE c \in DOMAIN s.overrides
    <3>1. held.exp = Resolve(s.overrides[c], public, s.published)
      BY <1>3, <1>5, <2>2 DEF Held, Expectations
    <3> QED
      BY <1>5, <2>2, <3>1, ResolveDecided DEF Conditional
  <2> QED
    BY <2>1, <2>2
<1>7. EvaluateCell(c, s, spec, snap, pick) = CellFor(c, s, held, obs)
  BY DEF EvaluateCell
<1> HIDE DEF spec, held, obs
<1>8. CellFor(c, s, held, obs) =
        Cell(VerdictFor(IF obs.unknown THEN "not_required" ELSE held.exp, obs), obs.value)
  BY <1>3 DEF CellFor
<1>9. VerdictFor(IF obs.unknown THEN "not_required" ELSE held.exp, obs) # "fail"
  BY <1>6 DEF VerdictFor
<1> QED
  BY <1>7, <1>8, <1>9 DEF Cell, spec

\* Community files fail only with one of them missing.
LEMMA CommunityFailsByFile ==
    ASSUME NEW s, NEW spec, NEW account, NEW pick,
           EvaluateCell("community_files", s, spec, account, pick).verdict = "fail"
    PROVE  \E f \in CommunityFiles : ~s.present[f]
<1> DEFINE obs == Observe("community_files", s, account, pick)
           held == Held("community_files", spec, s, s.visibility = "public")
           n == Cardinality({f \in CommunityFiles : s.present[f]})
<1>1. obs = ObserveRepository("community_files", s)
  BY DEF Observe, PathChecks, ClaudeChecks, SkillChecks, HookChecks, PluginChecks, PluginRows, MarketplaceRows,
         WorkflowChecks
<1>2. ObserveRepository("community_files", s) = Observed(n = Cardinality(CommunityFiles), Number(n))
  BY DEF ObserveRepository, PresentChecks
<1>3. EvaluateCell("community_files", s, spec, account, pick) = CellFor("community_files", s, held, obs)
  BY DEF EvaluateCell
<1> HIDE DEF obs, held
<1>4. \E exp : CellFor("community_files", s, held, obs) = Cell(VerdictFor(exp, obs), obs.value)
  BY DEF CellFor, Threshold
<1>5. ~obs.ok
  BY <1>3, <1>4 DEF Cell, VerdictFor
<1>6. n # Cardinality(CommunityFiles)
  <2> SUFFICES ASSUME n = Cardinality(CommunityFiles) PROVE obs.ok
    BY <1>5
  <2>1. (n = Cardinality(CommunityFiles)) = TRUE
    OBVIOUS
  <2> HIDE DEF n
  <2>2. obs = Observed(TRUE, Number(n))
    BY <1>1, <1>2, <2>1
  <2> QED
    BY <2>2 DEF Observed
<1> QED
  BY <1>6

\* A direct push cell names what it observed.
LEMMA DirectPushNamesIt ==
    ASSUME NEW s, NEW spec, NEW account, NEW pick
    PROVE  EvaluateCell("direct_push", s, spec, account, pick).value \in {{<<o>>} : o \in {"allowed", "blocked"}}
<1>1. ObserveDirectPush(s) \in {"allowed", "blocked"}
  BY DEF ObserveDirectPush
<1>2. EvaluateCell("direct_push", s, spec, account, pick).value = {<<ObserveDirectPush(s)>>}
  <2> DEFINE held == Held("direct_push", spec, s, s.visibility = "public")
  <2>1. EvaluateCell("direct_push", s, spec, account, pick) = CellFor("direct_push", s, held, Observe("direct_push", s, account, pick))
    BY DEF EvaluateCell
  <2> HIDE DEF held
  <2>2. CellFor("direct_push", s, held, Observe("direct_push", s, account, pick)) = DirectPushCell(s, held)
    BY DEF CellFor, Threshold
  <2> QED
    BY <2>1, <2>2 DEF DirectPushCell, Cell
<1> QED
  BY <1>1, <1>2

\* The worklist has every failure and nothing else, also where a failure is
\* listed by what is missing or by what was observed, and not by its check.
THEOREM FailuresAreListed == Spec => []EveryFailureListed
<1>1. IInv => EveryFailureListed
  <2> SUFFICES ASSUME IInv, phase = "reported", NEW n \in DOMAIN report.cells, NEW c \in Check
               PROVE  report.cells[n][c].verdict = "fail" <=> \E g \in report.gaps : g.check = c /\ n \in g.repos
    BY DEF EveryFailureListed
  <2> DEFINE cells == report.cells
             general == {[check |-> k, label |-> k, repos |-> Failing(cells, k)] : k \in Check \ Unlabelled}
  <2>1. PICK pick : report = Evaluate(snap, pick)
    BY DEF IInv
  <2>2. /\ cells = [m \in {r.name : r \in snap.repos} |-> EvaluateRepo(CHOOSE r \in snap.repos : r.name = m, snap, pick)]
        /\ report.gaps = CollectGaps(snap.repos, cells)
    BY <2>1, WorklistOfReport DEF Evaluate
  <2> HIDE DEF cells
  <2>3. PICK s \in snap.repos :
          /\ s.name = n
          /\ \A k \in Check : cells[n][k] = EvaluateCell(k, s, TypeSpec(snap.types[s.type]), snap, pick)
    <3> DEFINE r == CHOOSE q \in snap.repos : q.name = n
    <3>1. n \in {q.name : q \in snap.repos}
      BY <2>2 DEF cells
    <3>2. r \in snap.repos /\ r.name = n
      BY <3>1
    <3>3. cells[n] = EvaluateRepo(r, snap, pick)
      BY <2>2, <3>1
    <3> HIDE DEF r
    <3> QED
      BY <3>2, <3>3 DEF EvaluateRepo
  <2>4. report.gaps = {g \in CommunityGaps(snap.repos, cells) \cup DirectPushGaps(cells) \cup general : g.repos # {}}
    BY <2>2 DEF CollectGaps
  <2>5. n \in Failing(cells, c) <=> cells[n][c].verdict = "fail"
    BY DEF Failing, cells
  <2>6. \A g \in CommunityGaps(snap.repos, cells) :
          g.check = "community_files" /\ g.repos \subseteq Failing(cells, "community_files")
    BY DEF CommunityGaps
  <2>7. \A g \in DirectPushGaps(cells) :
          g.check = "direct_push" /\ g.repos \subseteq Failing(cells, "direct_push")
    BY DEF DirectPushGaps
  <2>8. \A g \in general : g.check \notin Unlabelled /\ g.repos = Failing(cells, g.check)
    OBVIOUS
  <2>9. Unlabelled = ValueOnly \cup {"community_files", "direct_push"}
    BY DEF Unlabelled
  <2>10. ASSUME NEW g \in report.gaps, g.check = c, n \in g.repos
         PROVE  n \in Failing(cells, c)
    BY <2>4, <2>6, <2>7, <2>8, <2>10
  <2>11. ASSUME n \in Failing(cells, c)
         PROVE  \E g \in report.gaps : g.check = c /\ n \in g.repos
    <3>1. CASE c \notin Unlabelled
      <4> DEFINE g == [check |-> c, label |-> c, repos |-> Failing(cells, c)]
      <4>1. g \in general /\ g.repos # {} /\ g.check = c /\ n \in g.repos
        BY <2>11, <3>1
      <4> QED
        BY <2>4, <4>1
    <3>2. CASE c \in ValueOnly
      <4>1. phase \in Snapped
        BY DEF Snapped
      <4> QED
        BY <2>3, <2>5, <2>11, <3>2, <4>1, ValueNeverFails
    <3>3. CASE c = "community_files"
      <4>1. PICK f \in CommunityFiles : ~s.present[f]
        BY <2>3, <2>5, <2>11, <3>3, CommunityFailsByFile
      <4> DEFINE g == [check |-> "community_files", label |-> f,
                       repos |-> {r.name : r \in {q \in snap.repos :
                                   q.name \in Failing(cells, "community_files") /\ ~q.present[f]}}]
      <4>2. n \in g.repos /\ g.check = c
        BY <2>3, <2>11, <3>3, <4>1
      <4>3. g \in CommunityGaps(snap.repos, cells)
        BY DEF CommunityGaps
      <4> QED
        BY <2>4, <4>2, <4>3
    <3>4. CASE c = "direct_push"
      <4>1. PICK o \in {"allowed", "blocked"} : cells[n]["direct_push"].value = {<<o>>}
        BY <2>3, <3>4, DirectPushNamesIt
      <4> DEFINE g == [check |-> "direct_push", label |-> o,
                       repos |-> {m \in Failing(cells, "direct_push") : cells[m]["direct_push"].value = {<<o>>}}]
      <4>2. n \in g.repos /\ g.check = c
        BY <2>11, <3>4, <4>1
      <4>3. g \in DirectPushGaps(cells)
        BY DEF DirectPushGaps
      <4> QED
        BY <2>4, <4>2, <4>3
    <3> QED
      BY <2>9, <3>1, <3>2, <3>3, <3>4
  <2> QED
    BY <2>5, <2>10, <2>11 DEF cells
<1> QED
  BY <1>1, Invariance, PTL

-----------------------------------------------------------------------------
(* Renovate. *)

\* A set of natural numbers has a least: how what follows goes by steps.
LEMMA LeastNatural ==
    ASSUME NEW T, T \subseteq Nat, T # {}
    PROVE  \E n \in T : \A m \in T : n <= m
<1>1. PICK n \in T : \A m \in T : ~(<<m, n>> \in OpToRel(<, Nat))
  BY NatLessThanWellFounded, WFMin, Zenon
<1>2. \A m \in T : ~(m < n)
  BY <1>1 DEF OpToRel
<1> QED
  BY <1>2

\* The recursions below go by the natural numbers up to a length, and each has a
\* value: the least number for which there would be none can be carried on to.
\* Stacked's recursion over the first n layers.
StackedRun(layers, n, f) ==
    f = [i \in 0..n |-> IF i = 0 THEN Resolved(Silent) ELSE OnTop(f[i - 1], layers[i])]

LEMMA StackedRuns ==
    ASSUME NEW layers, NEW n \in Nat
    PROVE  \E f : StackedRun(layers, n, f)
<1> DEFINE T == {k \in Nat : ~\E f : StackedRun(layers, k, f)}
<1>1. ASSUME T # {} PROVE FALSE
  <2>1. PICK k \in T : \A m \in T : k <= m
    BY <1>1, LeastNatural
  <2>2. CASE k = 0
    <3>1. StackedRun(layers, 0, [i \in 0..0 |-> Resolved(Silent)])
      BY DEF StackedRun
    <3> QED
      BY <2>1, <2>2, <3>1
  <2>3. CASE k # 0
    <3>0. k - 1 \in Nat /\ k - 1 \notin T
      BY <2>1, <2>3
    <3>1. PICK g : StackedRun(layers, k - 1, g)
      BY <3>0
    <3>2. g = [i \in 0..k - 1 |-> IF i = 0 THEN Resolved(Silent) ELSE OnTop(g[i - 1], layers[i])]
      BY <3>1 DEF StackedRun
    <3> DEFINE f == [i \in 0..k |-> IF i = k THEN OnTop(g[k - 1], layers[k]) ELSE g[i]]
    <3>3. ASSUME NEW i \in 0..k
          PROVE  f[i] = IF i = 0 THEN Resolved(Silent) ELSE OnTop(f[i - 1], layers[i])
      <4>1. CASE i = k
        BY <4>1, <2>3, <3>0
      <4>2. CASE i # k
        BY <4>2, <3>0, <3>2
      <4> QED
        BY <4>1, <4>2
    <3>4. StackedRun(layers, k, f)
      BY <3>3 DEF StackedRun
    <3> QED
      BY <3>4, <2>1
  <2> QED
    BY <2>2, <2>3
<1> QED
  BY <1>1

LEMMA StackedSteps ==
    ASSUME NEW layers, Len(layers) \in Nat
    PROVE  \E f : /\ Stacked(layers) = f[Len(layers)]
                  /\ f[0] = Resolved(Silent)
                  /\ \A i \in 1..Len(layers) : f[i] = OnTop(f[i - 1], layers[i])
<1> DEFINE n == Len(layers)
           upTo == CHOOSE f : StackedRun(layers, n, f)
<1>1. StackedRun(layers, n, upTo)
  BY StackedRuns, Zenon
<1>2. Stacked(layers) = upTo[n]
  BY Zenon DEF Stacked, StackedRun
<1> HIDE DEF upTo
<1>3. upTo[0] = Resolved(Silent) /\ \A i \in 1..n : upTo[i] = OnTop(upTo[i - 1], layers[i])
  <2>1. n \in Nat
    OBVIOUS
  <2> HIDE DEF n
  <2> QED
    BY <1>1, <2>1 DEF StackedRun
<1> QED
  BY <1>2, <1>3, Zenon

\* majorsAutoMerge's loop over the first n rules.
AppliedRun(l, n, f) ==
    f = [i \in 0..n |-> IF i = 0 THEN Start(l.flags) ELSE Step(l.rules[i], f[i - 1])]

LEMMA AppliedRuns ==
    ASSUME NEW l, NEW n \in Nat
    PROVE  \E f : AppliedRun(l, n, f)
<1> DEFINE T == {k \in Nat : ~\E f : AppliedRun(l, k, f)}
<1>1. ASSUME T # {} PROVE FALSE
  <2>1. PICK k \in T : \A m \in T : k <= m
    BY <1>1, LeastNatural
  <2>2. CASE k = 0
    <3>1. AppliedRun(l, 0, [i \in 0..0 |-> Start(l.flags)])
      BY DEF AppliedRun
    <3> QED
      BY <2>1, <2>2, <3>1
  <2>3. CASE k # 0
    <3>0. k - 1 \in Nat /\ k - 1 \notin T
      BY <2>1, <2>3
    <3>1. PICK g : AppliedRun(l, k - 1, g)
      BY <3>0
    <3>2. g = [i \in 0..k - 1 |-> IF i = 0 THEN Start(l.flags) ELSE Step(l.rules[i], g[i - 1])]
      BY <3>1 DEF AppliedRun
    <3> DEFINE f == [i \in 0..k |-> IF i = k THEN Step(l.rules[k], g[k - 1]) ELSE g[i]]
    <3>3. ASSUME NEW i \in 0..k
          PROVE  f[i] = IF i = 0 THEN Start(l.flags) ELSE Step(l.rules[i], f[i - 1])
      <4>1. CASE i = k
        BY <4>1, <2>3, <3>0
      <4>2. CASE i # k
        BY <4>2, <3>0, <3>2
      <4> QED
        BY <4>1, <4>2
    <3>4. AppliedRun(l, k, f)
      BY <3>3 DEF AppliedRun
    <3> QED
      BY <3>4, <2>1
  <2> QED
    BY <2>2, <2>3
<1> QED
  BY <1>1

LEMMA AppliedSteps ==
    ASSUME NEW l, Len(l.rules) \in Nat
    PROVE  \E f : /\ MajorsAutoMerge(l) => /\ f[Len(l.rules)].ok /\ f[Len(l.rules)].automerge
                                          /\ f[Len(l.rules)].enabled /\ ~f[Len(l.rules)].approval
                  /\ f[0] = Start(l.flags)
                  /\ \A i \in 1..Len(l.rules) : f[i] = Step(l.rules[i], f[i - 1])
<1> DEFINE n == Len(l.rules)
           upTo == CHOOSE f : AppliedRun(l, n, f)
<1>1. AppliedRun(l, n, upTo)
  BY AppliedRuns, Zenon
<1>2. MajorsAutoMerge(l) => upTo[n].ok /\ upTo[n].automerge /\ upTo[n].enabled /\ ~upTo[n].approval
  BY Zenon DEF MajorsAutoMerge, AppliedRun
<1> HIDE DEF upTo
<1>3. upTo[0] = Start(l.flags) /\ \A i \in 1..n : upTo[i] = Step(l.rules[i], upTo[i - 1])
  <2>1. n \in Nat
    OBVIOUS
  <2> HIDE DEF n
  <2> QED
    BY <1>1, <2>1 DEF AppliedRun
<1> QED
  BY <1>2, <1>3, Zenon

\* Renovate's own order over the first n rules.
MergesRun(l, matching, n, f) ==
    f = [i \in 0..n |-> IF i = 0 THEN Start(l.flags) ELSE Turn(l, i, matching, f[i - 1])]

LEMMA MergesRuns ==
    ASSUME NEW l, NEW matching, NEW n \in Nat
    PROVE  \E f : MergesRun(l, matching, n, f)
<1> DEFINE T == {k \in Nat : ~\E f : MergesRun(l, matching, k, f)}
<1>1. ASSUME T # {} PROVE FALSE
  <2>1. PICK k \in T : \A m \in T : k <= m
    BY <1>1, LeastNatural
  <2>2. CASE k = 0
    <3>1. MergesRun(l, matching, 0, [i \in 0..0 |-> Start(l.flags)])
      BY DEF MergesRun
    <3> QED
      BY <2>1, <2>2, <3>1
  <2>3. CASE k # 0
    <3>0. k - 1 \in Nat /\ k - 1 \notin T
      BY <2>1, <2>3
    <3>1. PICK g : MergesRun(l, matching, k - 1, g)
      BY <3>0
    <3>2. g = [i \in 0..k - 1 |-> IF i = 0 THEN Start(l.flags) ELSE Turn(l, i, matching, g[i - 1])]
      BY <3>1 DEF MergesRun
    <3> DEFINE f == [i \in 0..k |-> IF i = k THEN Turn(l, k, matching, g[k - 1]) ELSE g[i]]
    <3>3. ASSUME NEW i \in 0..k
          PROVE  f[i] = IF i = 0 THEN Start(l.flags) ELSE Turn(l, i, matching, f[i - 1])
      <4>1. CASE i = k
        BY <4>1, <2>3, <3>0
      <4>2. CASE i # k
        BY <4>2, <3>0, <3>2
      <4> QED
        BY <4>1, <4>2
    <3>4. MergesRun(l, matching, k, f)
      BY <3>3 DEF MergesRun
    <3> QED
      BY <3>4, <2>1
  <2> QED
    BY <2>2, <2>3
<1> QED
  BY <1>1

LEMMA MergesSteps ==
    ASSUME NEW l, NEW matching, Len(l.rules) \in Nat
    PROVE  \E f : /\ f[Len(l.rules)].automerge /\ f[Len(l.rules)].enabled /\ ~f[Len(l.rules)].approval
                       => Merges(l, matching)
                  /\ f[0] = Start(l.flags)
                  /\ \A i \in 1..Len(l.rules) : f[i] = Turn(l, i, matching, f[i - 1])
<1> DEFINE n == Len(l.rules)
           at == CHOOSE f : MergesRun(l, matching, n, f)
<1>1. MergesRun(l, matching, n, at)
  BY MergesRuns, Zenon
<1>2. at[n].automerge /\ at[n].enabled /\ ~at[n].approval => Merges(l, matching)
  BY Zenon DEF Merges, MergesRun
<1> HIDE DEF at
<1>3. at[0] = Start(l.flags) /\ \A i \in 1..n : at[i] = Turn(l, i, matching, at[i - 1])
  <2>1. n \in Nat
    OBVIOUS
  <2> HIDE DEF n
  <2> QED
    BY <1>1, <2>1 DEF MergesRun
<1> QED
  BY <1>2, <1>3, Zenon

\* A true, a false or nothing.
Tri == {"absent", "yes", "no"}

Words3(r) == r.automerge \in Tri /\ r.enabled \in Tri /\ r.approval \in Tri

\* What holds of a package so far is kept under four names.
Fields == {"ok", "automerge", "enabled", "approval"}

LEMMA ApplySets ==
    ASSUME NEW now, Fields \subseteq DOMAIN now, NEW r
    PROVE  /\ Fields \subseteq DOMAIN Apply(r, now)
           /\ Apply(r, now).ok = now.ok
           /\ Apply(r, now).automerge = Set(now.automerge, r.automerge)
           /\ Apply(r, now).enabled = Set(now.enabled, r.enabled)
           /\ Apply(r, now).approval = Set(now.approval, r.approval)
BY Zenon DEF Apply, Fields

LEMMA StepSets ==
    ASSUME NEW now, Fields \subseteq DOMAIN now, NEW r
    PROVE  /\ Fields \subseteq DOMAIN Step(r, now)
           /\ r.malformed => ~Step(r, now).ok
           /\ ~r.malformed /\ ~r.appliesToMajor => Step(r, now) = now
           /\ ~r.malformed /\ r.appliesToMajor /\ r.narrowed =>
                /\ Step(r, now).ok = (now.ok /\ r.automerge # "no" /\ r.enabled # "no" /\ r.approval # "yes")
                /\ Step(r, now).automerge = now.automerge /\ Step(r, now).enabled = now.enabled
                /\ Step(r, now).approval = now.approval
           /\ ~r.malformed /\ r.appliesToMajor /\ ~r.narrowed => Step(r, now) = Apply(r, now)
<1>1. CASE r.malformed
  BY <1>1, Zenon DEF Step, Fields
<1>2. CASE ~r.malformed /\ ~r.appliesToMajor
  BY <1>2, Zenon DEF Step, Fields
<1>3. CASE ~r.malformed /\ r.appliesToMajor /\ r.narrowed
  BY <1>3, Zenon DEF Step, Fields
<1>4. CASE ~r.malformed /\ r.appliesToMajor /\ ~r.narrowed
  BY <1>4, ApplySets, Zenon DEF Step
<1> QED
  BY <1>1, <1>2, <1>3, <1>4, Zenon

\* now is what majorsAutoMerge makes of the rules so far, then what Renovate does:
\* while the result is not lost, nothing is credited that Renovate does not do.
Vouched(now, then) ==
    /\ Fields \subseteq DOMAIN now /\ Fields \subseteq DOMAIN then
    /\ now.ok => /\ now.automerge => then.automerge
                 /\ now.enabled => then.enabled
                 /\ then.approval => now.approval

LEMMA RuleKeepsVouched ==
    ASSUME NEW now, NEW then, Vouched(now, then), NEW r, Words3(r)
    PROVE  /\ r.malformed \/ ~r.appliesToMajor \/ r.narrowed => Vouched(Step(r, now), then)
           /\ r.malformed \/ r.appliesToMajor => Vouched(Step(r, now), Apply(r, then))
<1> DEFINE after == Step(r, now)
           done == Apply(r, then)
<1>0. /\ Fields \subseteq DOMAIN now /\ Fields \subseteq DOMAIN then
      /\ Fields \subseteq DOMAIN after /\ Fields \subseteq DOMAIN done
  BY StepSets, ApplySets DEF Vouched
<1>d. /\ done.automerge = Set(then.automerge, r.automerge) /\ done.enabled = Set(then.enabled, r.enabled)
      /\ done.approval = Set(then.approval, r.approval)
  BY <1>0, ApplySets
<1>1. CASE r.malformed
  <2>1. ~after.ok
    BY <1>0, <1>1, StepSets
  <2> QED
    BY <1>0, <2>1 DEF Vouched
<1>2. CASE ~r.malformed /\ ~r.appliesToMajor
  <2>1. after = now
    BY <1>0, <1>2, StepSets
  <2> QED
    BY <1>2, <2>1
<1>3. CASE ~r.malformed /\ r.appliesToMajor /\ r.narrowed
  <2>1. /\ after.ok = (now.ok /\ r.automerge # "no" /\ r.enabled # "no" /\ r.approval # "yes")
        /\ after.automerge = now.automerge /\ after.enabled = now.enabled /\ after.approval = now.approval
    BY <1>0, <1>3, StepSets
  <2>2. Vouched(after, then)
    BY <1>0, <2>1 DEF Vouched
  <2>3. ASSUME after.ok
        PROVE  now.ok /\ r.automerge \in {"absent", "yes"} /\ r.enabled \in {"absent", "yes"} /\ r.approval \in {"absent", "no"}
    BY <2>1, <2>3 DEF Words3, Tri
  <2>4. Vouched(after, done)
    BY <1>0, <1>d, <2>1, <2>3 DEF Vouched, Set
  <2> QED
    BY <1>3, <2>2, <2>4
<1>4. CASE ~r.malformed /\ r.appliesToMajor /\ ~r.narrowed
  <2>1. after = Apply(r, now)
    BY <1>0, <1>4, StepSets
  <2>2. /\ after.ok = now.ok /\ after.automerge = Set(now.automerge, r.automerge)
        /\ after.enabled = Set(now.enabled, r.enabled) /\ after.approval = Set(now.approval, r.approval)
    BY <1>0, <2>1, ApplySets
  <2>3. Vouched(after, done)
    BY <1>0, <1>d, <2>2 DEF Vouched, Set
  <2> QED
    BY <1>4, <2>3
<1> QED
  BY <1>1, <1>2, <1>3, <1>4

\* What majorsAutoMerge credits, Renovate merges, whichever rules match a package.
LEMMA CreditedMerges ==
    ASSUME NEW l, Len(l.rules) \in Nat, \A i \in 1..Len(l.rules) : Words3(l.rules[i]),
           MajorsAutoMerge(l), NEW matching
    PROVE  Merges(l, matching)
<1> DEFINE n == Len(l.rules)
<1>1. PICK f : /\ f[n].ok /\ f[n].automerge /\ f[n].enabled /\ ~f[n].approval
               /\ f[0] = Start(l.flags)
               /\ \A i \in 1..n : f[i] = Step(l.rules[i], f[i - 1])
  BY AppliedSteps, Zenon
<1>2. PICK at : /\ at[n].automerge /\ at[n].enabled /\ ~at[n].approval => Merges(l, matching)
                /\ at[0] = Start(l.flags)
                /\ \A i \in 1..n : at[i] = Turn(l, i, matching, at[i - 1])
  BY MergesSteps, Zenon
<1> DEFINE T == {i \in 0..n : ~Vouched(f[i], at[i])}
<1>3. Vouched(f[0], at[0])
  BY <1>1, <1>2 DEF Start, Fields, Vouched
<1>4. ASSUME T # {} PROVE FALSE
  <2>0. T \subseteq Nat
    OBVIOUS
  <2>1. PICK k \in T : \A m \in T : k <= m
    BY <1>4, <2>0, LeastNatural, Zenon
  <2>2. k \in 1..n /\ k - 1 \in 0..n /\ Vouched(f[k - 1], at[k - 1])
    BY <2>1, <1>3
  <2>3. /\ Words3(l.rules[k]) /\ f[k] = Step(l.rules[k], f[k - 1])
        /\ at[k] = Turn(l, k, matching, at[k - 1])
    BY <2>2, <1>1, <1>2
  <2>4. Vouched(f[k], at[k])
    BY <2>2, <2>3, RuleKeepsVouched DEF Turn
  <2> QED
    BY <2>1, <2>4
<1>5. Vouched(f[n], at[n])
  BY <1>4
<1> HIDE DEF n, T
<1> QED
  BY <1>1, <1>2, <1>5 DEF Vouched

\* A layer whose package rules are a list of rules that say true, false or nothing.
Ruled(l) == \E S : l.rules \in Seq(S) /\ \A r \in S : Words3(r)

LEMMA RuledBy ==
    ASSUME NEW l, NEW S, l.rules \in Seq(S), \A r \in S : Words3(r)
    PROVE  Ruled(l)
BY DEF Ruled

LEMMA RuledCounts ==
    ASSUME NEW l, Ruled(l)
    PROVE  Len(l.rules) \in Nat /\ \A i \in 1..Len(l.rules) : Words3(l.rules[i])
BY DEF Ruled

LEMMA SilentIsRuled == Ruled(Silent)
<1>1. Silent.rules = <<>>
  BY DEF Silent
<1>2. <<>> \in Seq({})
  OBVIOUS
<1> QED
  BY <1>1, <1>2 DEF Ruled

LEMMA BuiltinIsRuled ==
    ASSUME NEW name
    PROVE  Ruled(BuiltinLayer(name))
<1> DEFINE held == [MalformedRule EXCEPT !.malformed = FALSE, !.appliesToMajor = TRUE, !.approval = "yes"]
<1>1. "rules" \in DOMAIN Silent /\ Silent.rules = <<>>
  BY DEF Silent
<1>2. BuiltinLayer(name).rules \in {<<>>, <<held>>}
  BY <1>1, Zenon DEF BuiltinLayer
<1>3. Words3(held)
  BY DEF Words3, Tri, MalformedRule
<1>4. <<>> \in Seq({held}) /\ <<held>> \in Seq({held})
  OBVIOUS
<1>5. \A r \in {held} : Words3(r)
  BY <1>3
<1>6. BuiltinLayer(name).rules \in Seq({held})
  BY <1>2, <1>4
<1> HIDE DEF held
<1> QED
  BY <1>5, <1>6, RuledBy

LEMMA OverIsRuled ==
    ASSUME NEW l, Ruled(l), NEW o, Ruled(o)
    PROVE  Ruled(Over(l, o))
<1>1. PICK S : l.rules \in Seq(S) /\ \A r \in S : Words3(r)
  BY DEF Ruled
<1>2. PICK R : o.rules \in Seq(R) /\ \A r \in R : Words3(r)
  BY DEF Ruled
<1>3. l.rules \in Seq(S \cup R) /\ o.rules \in Seq(S \cup R)
  BY <1>1, <1>2
<1>4. Over(l, o).rules = l.rules \o o.rules
  BY DEF Over
<1>5. l.rules \o o.rules \in Seq(S \cup R)
  BY <1>3
<1>6. \A r \in S \cup R : Words3(r)
  BY <1>1, <1>2
<1> QED
  BY <1>4, <1>5, <1>6 DEF Ruled

LEMMA OwnIsRuled ==
    ASSUME NEW cfg, WellFormed(cfg)
    PROVE  Ruled(OwnLayer(cfg))
<1>1. OwnLayer(cfg).rules = OwnRules(cfg)
  BY DEF OwnLayer
<1>2. Words3(MalformedRule)
  BY DEF Words3, Tri, MalformedRule
<1>3. CASE ~cfg.rulesList
  <2>1. OwnRules(cfg) = <<MalformedRule>> /\ <<MalformedRule>> \in Seq({MalformedRule})
    BY <1>3 DEF OwnRules
  <2> DEFINE S == {MalformedRule}
  <2>2. \A r \in S : Words3(r)
    BY <1>2
  <2>3. OwnLayer(cfg).rules \in Seq(S)
    BY <1>1, <2>1
  <2> HIDE DEF S
  <2> QED
    BY <2>2, <2>3, RuledBy
<1>4. CASE cfg.rulesList
  <2> DEFINE S == {OwnRule(cfg.rules[i]) : i \in DOMAIN cfg.rules}
  <2>1. Len(cfg.rules) \in Nat /\ DOMAIN cfg.rules = 1..Len(cfg.rules)
    BY DEF WellFormed
  <2>2. OwnRules(cfg) = [i \in DOMAIN cfg.rules |-> OwnRule(cfg.rules[i])]
    BY <1>4 DEF OwnRules
  <2>3. OwnRules(cfg) \in Seq(S)
    BY <2>1, <2>2
  <2>4. ASSUME NEW i \in DOMAIN cfg.rules PROVE Words3(OwnRule(cfg.rules[i]))
    <3> DEFINE obj == cfg.rules[i]
    <3>1. {OwnTri(obj.automerge), OwnTri(obj.enabled), OwnTri(obj.approval)} \subseteq Tri
      BY DEF WellFormed, OwnTri, Tri
    <3>2. CASE ~obj.object
      BY <3>2, <1>2 DEF OwnRule
    <3>3. CASE obj.object
      BY <3>1, <3>3 DEF OwnRule, Words3
    <3> QED
      BY <3>2, <3>3
  <2> QED
    BY <1>1, <2>3, <2>4 DEF Ruled
<1> QED
  BY <1>3, <1>4

LEMMA StackedIsRuled ==
    ASSUME NEW layers, Len(layers) \in Nat, \A i \in 1..Len(layers) : Ruled(layers[i].layer)
    PROVE  Ruled(Stacked(layers).layer)
<1> DEFINE n == Len(layers)
<1>1. PICK f : /\ Stacked(layers) = f[n]
               /\ f[0] = Resolved(Silent)
               /\ \A i \in 1..n : f[i] = OnTop(f[i - 1], layers[i])
  BY StackedSteps, Zenon
<1> DEFINE T == {i \in 0..n : ~Ruled(f[i].layer)}
<1>2. Ruled(f[0].layer) /\ Ruled(Unresolved.layer)
  BY <1>1, SilentIsRuled DEF Resolved, Unresolved
<1>3. ASSUME T # {} PROVE FALSE
  <2>0. T \subseteq Nat
    OBVIOUS
  <2>1. PICK k \in T : \A m \in T : k <= m
    BY <1>3, <2>0, LeastNatural, Zenon
  <2>2. k \in 1..n /\ k - 1 \in 0..n /\ Ruled(f[k - 1].layer)
    BY <2>1, <1>2
  <2>3. Ruled(Over(f[k - 1].layer, layers[k].layer))
    BY <2>2, OverIsRuled
  <2>4. f[k] \in {Unresolved, Resolved(Over(f[k - 1].layer, layers[k].layer))}
    BY <1>1, <2>2 DEF OnTop
  <2>5. Resolved(Over(f[k - 1].layer, layers[k].layer)).layer = Over(f[k - 1].layer, layers[k].layer)
    BY DEF Resolved
  <2>6. Ruled(f[k].layer)
    BY <1>2, <2>3, <2>4, <2>5, Zenon
  <2> QED
    BY <2>1, <2>6
<1>4. Ruled(f[n].layer)
  BY <1>3
<1> QED
  BY <1>1, <1>4

LEMMA ConfigIsRuled ==
    ASSUME NEW c, WellFormed(c), NEW presets, Len(presets) \in Nat,
           \A i \in 1..Len(presets) : Ruled(presets[i].layer)
    PROVE  Ruled(ConfigLayer(c, presets).layer)
<1>1. Ruled(Over(Stacked(presets).layer, OwnLayer(c)))
  BY StackedIsRuled, OwnIsRuled, OverIsRuled
<1>2. ConfigLayer(c, presets) \in {Unresolved, Resolved(Over(Stacked(presets).layer, OwnLayer(c)))}
  BY DEF ConfigLayer
<1> QED
  BY <1>1, <1>2, SilentIsRuled DEF Unresolved, Resolved

\* With none left to follow, what is below makes no difference.
LEMMA NoneLeft ==
    ASSUME NEW configs, NEW texts, NEW below, NEW other
    PROVE  Level(configs, texts, 0, below) = Level(configs, texts, 0, other)
<1>1. \A ref, stack : PresetLayer(ref, texts, stack, 0, below) = PresetLayer(ref, texts, stack, 0, other)
  BY DEF PresetLayer
<1> QED
  BY <1>1, Zenon DEF Level

\* layer's recursion, with up to n to follow.
LayerRun(configs, texts, n, f) == f = [left \in 0..n |-> Level(configs, texts, left, f[left - 1])]

LEMMA LayerRuns ==
    ASSUME NEW configs, NEW texts, NEW n \in Nat
    PROVE  \E f : LayerRun(configs, texts, n, f)
<1> DEFINE T == {k \in Nat : ~\E f : LayerRun(configs, texts, k, f)}
<1>1. ASSUME T # {} PROVE FALSE
  <2>1. PICK k \in T : \A m \in T : k <= m
    BY <1>1, LeastNatural
  <2>2. CASE k = 0
    <3> DEFINE f == [left \in 0..0 |-> Level(configs, texts, left, configs)]
    <3>1. f[0] = Level(configs, texts, 0, f[0 - 1])
      BY NoneLeft
    <3>2. LayerRun(configs, texts, 0, f)
      BY <3>1 DEF LayerRun
    <3> QED
      BY <2>1, <2>2, <3>2
  <2>3. CASE k # 0
    <3>0. k - 1 \in Nat /\ k - 1 \notin T
      BY <2>1, <2>3
    <3>1. PICK g : LayerRun(configs, texts, k - 1, g)
      BY <3>0
    <3> DEFINE f == [i \in 0..k |-> IF i = k THEN Level(configs, texts, k, g[k - 1]) ELSE g[i]]
    <3>2. \A i \in 0..k : f[i] = Level(configs, texts, i, f[i - 1])
      <4> TAKE i \in 0..k
      <4>1. CASE i = k
        BY <4>1, <2>1, <2>3
      <4>2. CASE i # k
        <5>0. i \in 0..k - 1 /\ g = [left \in 0..k - 1 |-> Level(configs, texts, left, g[left - 1])]
          BY <4>2, <3>1, <2>1, <2>3 DEF LayerRun
        <5>1. f[i] = g[i] /\ g[i] = Level(configs, texts, i, g[i - 1])
          <6> HIDE DEF f
          <6>1. g[i] = Level(configs, texts, i, g[i - 1])
            BY <5>0, Zenon
          <6> QED
            BY <6>1, <4>2 DEF f
        <5>2. CASE i = 0
          BY <5>1, <5>2, NoneLeft
        <5>3. CASE i # 0
          BY <4>2, <5>1, <5>3, <2>1
        <5> QED
          BY <5>2, <5>3
      <4> QED
        BY <4>1, <4>2
    <3>3. LayerRun(configs, texts, k, f)
      BY <3>2 DEF LayerRun
    <3> QED
      BY <3>3, <2>1
  <2> QED
    BY <2>2, <2>3
<1> QED
  BY <1>1

LEMMA LayerSteps ==
    ASSUME NEW cfg, NEW texts
    PROVE  \E f : /\ Layer(cfg, texts) = f[MaxExtends][cfg][{}]
                  /\ \A left \in 0..MaxExtends : f[left] = Level(Configs(cfg, texts), texts, left, f[left - 1])
<1> DEFINE of == CHOOSE f : LayerRun(Configs(cfg, texts), texts, MaxExtends, f)
<1>1. LayerRun(Configs(cfg, texts), texts, MaxExtends, of)
  BY LayerRuns, RenovateAssumption, Zenon
<1>2. Layer(cfg, texts) = of[MaxExtends][cfg][{}]
  BY Zenon DEF Layer, LayerRun
<1> HIDE DEF of
<1> QED
  BY <1>1, <1>2 DEF LayerRun

\* Whatever presets a configuration extends, through cycles and past the limit,
\* what it comes to is a layer.
LEMMA LayerIsRuled ==
    ASSUME NEW cfg, WellFormed(cfg), NEW texts, \A k \in DOMAIN texts : WellFormed(texts[k])
    PROVE  Ruled(Layer(cfg, texts).layer)
<1> DEFINE configs == Configs(cfg, texts)
           Fine(level) == \A c \in configs, stack \in SUBSET PresetKeys(configs) : Ruled(level[c][stack].layer)
<1>1. PICK f : /\ Layer(cfg, texts) = f[MaxExtends][cfg][{}]
               /\ \A left \in 0..MaxExtends : f[left] = Level(configs, texts, left, f[left - 1])
  BY LayerSteps
<1>2. ASSUME NEW left \in Nat, NEW below, left # 0 => Fine(below)
      PROVE  Fine(Level(configs, texts, left, below))
  <2> SUFFICES ASSUME NEW c \in configs, NEW stack \in SUBSET PresetKeys(configs)
               PROVE  Ruled(Level(configs, texts, left, below)[c][stack].layer)
    OBVIOUS
  <2> DEFINE presets == [i \in DOMAIN c.extends |-> PresetLayer(c.extends[i], texts, stack, left, below)]
  <2>1. Level(configs, texts, left, below)[c][stack] = ConfigLayer(c, presets)
    BY DEF Level
  <2>2. WellFormed(c)
    BY DEF Configs
  <2>3. DOMAIN c.extends = 1..Len(c.extends) /\ Len(c.extends) \in Nat
    BY <2>2 DEF WellFormed
  <2>4. Len(presets) = Len(c.extends)
    BY <2>3
  <2>5. ASSUME NEW i \in DOMAIN c.extends
        PROVE  Ruled(PresetLayer(c.extends[i], texts, stack, left, below).layer)
    <3> DEFINE ref == c.extends[i]
               p == ParsePreset(ref)
               key == IF p.key \notin DOMAIN texts /\ p.fallback # <<>> THEN p.fallback ELSE p.key
    <3>1. CASE ~p.follow
      <4>1. PresetLayer(ref, texts, stack, left, below) = Resolved(BuiltinLayer(ref.name))
        BY <3>1 DEF PresetLayer
      <4> QED
        BY <4>1, BuiltinIsRuled DEF Resolved
    <3>2. CASE p.follow /\ (p.problem \/ p.key \in stack \/ left = 0 \/ key \notin DOMAIN texts)
      <4>1. PresetLayer(ref, texts, stack, left, below) = Unresolved
        BY <3>2 DEF PresetLayer
      <4> QED
        BY <4>1, SilentIsRuled DEF Unresolved
    <3>3. CASE p.follow /\ ~(p.problem \/ p.key \in stack \/ left = 0 \/ key \notin DOMAIN texts)
      <4>1. PresetLayer(ref, texts, stack, left, below) = below[texts[key]][stack \cup {p.key}]
        BY <3>3 DEF PresetLayer
      <4>2. texts[key] \in configs
        BY <3>3 DEF Configs
      <4>3. p.key \in PresetKeys(configs)
        BY DEF PresetKeys, ToSet
      <4> QED
        BY <3>3, <4>1, <4>2, <4>3, <1>2
    <3> QED
      BY <3>1, <3>2, <3>3
  <2>6. Ruled(ConfigLayer(c, presets).layer)
    BY <2>2, <2>3, <2>4, <2>5, ConfigIsRuled
  <2> QED
    BY <2>1, <2>6
<1> DEFINE T == {left \in 0..MaxExtends : ~Fine(f[left])}
<1>3. ASSUME T # {} PROVE FALSE
  <2>0. T \subseteq Nat
    BY RenovateAssumption
  <2>1. PICK k \in T : \A m \in T : k <= m
    BY <1>3, <2>0, LeastNatural, Zenon
  <2>2. k # 0 => k - 1 \in 0..MaxExtends /\ k - 1 \notin T
    BY <2>1, RenovateAssumption
  <2>3. k # 0 => Fine(f[k - 1])
    BY <2>2
  <2>4. Fine(f[k])
    <3>1. k \in Nat /\ k \in 0..MaxExtends
      BY <2>0
    <3>2. f[k] = Level(configs, texts, k, f[k - 1])
      BY <3>1, <1>1
    <3> HIDE DEF Fine, configs
    <3> QED
      BY <2>3, <3>1, <3>2, <1>2
  <2> QED
    BY <2>1, <2>4
<1>4. Fine(f[MaxExtends])
  BY <1>3, RenovateAssumption
<1>5. cfg \in configs /\ {} \in SUBSET PresetKeys(configs)
  BY DEF Configs
<1> QED
  BY <1>1, <1>4, <1>5

\* A repository credited with merging its major updates merges every one of them,
\* whichever package rules match, however many there are, and whatever tree of
\* presets they come from.
THEOREM CreditIsMerging == Spec => []AutomergeMeans
<1>1. IInv => AutomergeMeans
  <2> SUFFICES ASSUME IInv, phase = "collected", NEW r \in snap.repos, r.renovate.automergeMajor
               PROVE  LET raw == CHOOSE q \in case.account.repos : q.name = r.name
                      IN \A l \in {Layer(raw.renovate, case.account.presets).layer} :
                           \A matching \in SUBSET DOMAIN l.rules : Merges(l, matching)
    BY DEF AutomergeMeans
  <2> DEFINE raw == CHOOSE q \in case.account.repos : q.name = r.name
             end == Layer(raw.renovate, case.account.presets)
  <2>1. PICK q \in case.account.repos : r = Facts(q)
    BY DEF IInv, Snapped
  <2>2. r.name = q.name /\ r.renovate = ResolveConfig(q.renovate, case.account.presets)
    BY <2>1, FactsKeep
  <2>3. PICK i \in DOMAIN Cases : case \in Cases[i]
    BY DEF IInv
  <2>4. /\ \A p \in case.account.repos : p.name = q.name => p = q
        /\ WellFormed(q.renovate)
        /\ \A k \in DOMAIN case.account.presets : WellFormed(case.account.presets[k])
    BY <2>3, JudgeAssumption
  <2>5. raw = q
    BY <2>2, <2>4
  <2>6. MajorsAutoMerge(end.layer)
    <3>1. r.renovate = FactsOf(end.resolved, end.layer)
      BY <2>2, <2>5 DEF ResolveConfig
    <3>2. FactsOf(end.resolved, end.layer).automergeMajor => MajorsAutoMerge(end.layer)
      BY Zenon DEF FactsOf
    <3> QED
      BY <3>1, <3>2
  <2>7. Ruled(end.layer)
    BY <2>4, <2>5, LayerIsRuled
  <2>8. \A matching : Merges(end.layer, matching)
    BY <2>6, <2>7, RuledCounts, CreditedMerges
  <2> QED
    BY <2>8
<1> QED
  BY <1>1, Invariance, PTL

-----------------------------------------------------------------------------
(* Branch filters: the search with its memo, token by token and turn by turn. *)

\* The tokens from ti on stand for the name from ni on.
Fits(tokens, name, ti, ni) ==
    \E cut \in [ti..Len(tokens) -> 0..Len(name)] :
      /\ cut[ti] = ni /\ cut[Len(tokens)] = Len(name)
      /\ \A i \in ti + 1..Len(tokens) : /\ cut[i - 1] <= cut[i]
                                        /\ StandsFor(tokens[i], SubSeq(name, cut[i - 1] + 1, cut[i]))

\* A token stands for the characters after ni up to mid.
Takes(t, name, ni, mid) ==
    /\ \A i \in ni + 1..mid : Admits(t, name[i])
    /\ t.run = "none" => CASE t.quant = "?" -> mid - ni <= 1
                           [] t.quant = "+" -> mid - ni >= 1
                           [] OTHER -> mid - ni = 1

LEMMA PieceTaken ==
    ASSUME NEW t, NEW S, NEW name \in Seq(S), NEW ni \in 0..Len(name), NEW mid \in ni..Len(name)
    PROVE  StandsFor(t, SubSeq(name, ni + 1, mid)) <=> Takes(t, name, ni, mid)
<1> DEFINE piece == SubSeq(name, ni + 1, mid)
<1>1. /\ Len(piece) = mid - ni /\ DOMAIN piece = 1..mid - ni
      /\ \A i \in 1..mid - ni : piece[i] = name[ni + i]
  OBVIOUS
<1>2. (\A i \in DOMAIN piece : Admits(t, piece[i])) <=> \A i \in ni + 1..mid : Admits(t, name[i])
  <2>1. ASSUME \A i \in DOMAIN piece : Admits(t, piece[i]), NEW i \in ni + 1..mid
        PROVE  Admits(t, name[i])
    <3>1. i - ni \in 1..mid - ni /\ piece[i - ni] = name[ni + (i - ni)] /\ ni + (i - ni) = i
      BY <1>1
    <3> QED
      BY <2>1, <3>1, <1>1
  <2>2. ASSUME \A i \in ni + 1..mid : Admits(t, name[i]), NEW i \in DOMAIN piece
        PROVE  Admits(t, piece[i])
    <3>1. ni + i \in ni + 1..mid /\ piece[i] = name[ni + i]
      BY <1>1
    <3> QED
      BY <2>2, <3>1
  <2> QED
    BY <2>1, <2>2
<1> HIDE DEF piece
<1>3. (t.run = "none" => CASE t.quant = "?" -> Len(piece) <= 1
                           [] t.quant = "+" -> Len(piece) >= 1
                           [] OTHER -> Len(piece) = 1)
      <=> (t.run = "none" => CASE t.quant = "?" -> mid - ni <= 1
                           [] t.quant = "+" -> mid - ni >= 1
                           [] OTHER -> mid - ni = 1)
  BY <1>1
<1> QED
  BY <1>2, <1>3, Zenon DEF StandsFor, Takes, piece

LEMMA FitsEnd ==
    ASSUME NEW tokens, Len(tokens) \in Nat, NEW name, Len(name) \in Nat, NEW ni \in 0..Len(name)
    PROVE  Fits(tokens, name, Len(tokens), ni) <=> ni = Len(name)
<1> DEFINE n == Len(tokens)
<1>1. ASSUME ni = Len(name) PROVE Fits(tokens, name, n, ni)
  <2> DEFINE cut == [i \in n..n |-> ni]
  <2>1. cut \in [n..n -> 0..Len(name)] /\ cut[n] = ni /\ n + 1..n = {}
    OBVIOUS
  <2> QED
    BY <1>1, <2>1 DEF Fits
<1> QED
  BY <1>1 DEF Fits

LEMMA FitsStep ==
    ASSUME NEW tokens, Len(tokens) \in Nat, NEW S, NEW name \in Seq(S),
           NEW ti \in 0..Len(tokens), ti # Len(tokens), NEW ni \in 0..Len(name)
    PROVE  Fits(tokens, name, ti, ni) <=>
             \E mid \in ni..Len(name) : Takes(tokens[ti + 1], name, ni, mid) /\ Fits(tokens, name, ti + 1, mid)
<1> DEFINE n == Len(tokens)
           size == Len(name)
<1>0. n \in Nat /\ size \in Nat
  OBVIOUS
<1>1. ASSUME Fits(tokens, name, ti, ni)
      PROVE  \E mid \in ni..size : Takes(tokens[ti + 1], name, ni, mid) /\ Fits(tokens, name, ti + 1, mid)
  <2>1. PICK cut \in [ti..n -> 0..size] :
           /\ cut[ti] = ni /\ cut[n] = size
           /\ \A i \in ti + 1..n : cut[i - 1] <= cut[i] /\ StandsFor(tokens[i], SubSeq(name, cut[i - 1] + 1, cut[i]))
    BY <1>1 DEF Fits
  <2> DEFINE mid == cut[ti + 1]
             rest == [i \in ti + 1..n |-> cut[i]]
  <2>2. mid \in ni..size /\ StandsFor(tokens[ti + 1], SubSeq(name, ni + 1, mid))
    BY <2>1
  <2>3. Takes(tokens[ti + 1], name, ni, mid)
    BY <2>2, PieceTaken
  <2>4. Fits(tokens, name, ti + 1, mid)
    <3>1. rest \in [ti + 1..n -> 0..size] /\ rest[ti + 1] = mid /\ rest[n] = size
      BY <2>1
    <3>2. \A i \in ti + 1 + 1..n : rest[i - 1] = cut[i - 1] /\ rest[i] = cut[i] /\ i \in ti + 1..n
      OBVIOUS
    <3> HIDE DEF rest
    <3> QED
      BY <2>1, <3>1, <3>2 DEF Fits
  <2> QED
    BY <2>2, <2>3, <2>4
<1>2. ASSUME NEW mid \in ni..size, Takes(tokens[ti + 1], name, ni, mid), Fits(tokens, name, ti + 1, mid)
      PROVE  Fits(tokens, name, ti, ni)
  <2>1. PICK rest \in [ti + 1..n -> 0..size] :
           /\ rest[ti + 1] = mid /\ rest[n] = size
           /\ \A i \in ti + 1 + 1..n : rest[i - 1] <= rest[i] /\ StandsFor(tokens[i], SubSeq(name, rest[i - 1] + 1, rest[i]))
    BY <1>2 DEF Fits
  <2> DEFINE cut == [i \in ti..n |-> IF i = ti THEN ni ELSE rest[i]]
  <2>2. cut \in [ti..n -> 0..size] /\ cut[ti] = ni /\ cut[n] = size /\ cut[ti + 1] = mid
    BY <2>1
  <2>3. ASSUME NEW i \in ti + 1..n
        PROVE  cut[i - 1] <= cut[i] /\ StandsFor(tokens[i], SubSeq(name, cut[i - 1] + 1, cut[i]))
    <3>1. CASE i = ti + 1
      <4>1. StandsFor(tokens[ti + 1], SubSeq(name, ni + 1, mid))
        BY <1>2, PieceTaken
      <4> QED
        BY <3>1, <4>1, <2>2
    <3>2. CASE i # ti + 1
      <4>1. i \in ti + 1 + 1..n /\ cut[i - 1] = rest[i - 1] /\ cut[i] = rest[i]
        BY <3>2
      <4> HIDE DEF cut
      <4> QED
        BY <4>1, <2>1
    <3> QED
      BY <3>1, <3>2
  <2> HIDE DEF cut
  <2> QED
    BY <2>2, <2>3 DEF Fits
<1> QED
  BY <1>1, <1>2

\* The memo's places for the pairs of a token and a position are all different,
\* and all in the memo.
LEMMA KeysDiffer ==
    ASSUME NEW size \in Nat, NEW t \in Nat, NEW u \in Nat, NEW i \in 0..size, NEW j \in 0..size,
           Key(t, i, size) = Key(u, j, size)
    PROVE  t = u /\ i = j
<1>1. ASSUME NEW a \in Nat, NEW b \in Nat, NEW k \in 0..size, NEW l \in 0..size, a < b
      PROVE  a * (size + 1) + k < b * (size + 1) + l
  <2>1. PICK d \in Nat : b = a + 1 + d
    <3>1. b - a - 1 \in Nat /\ b = a + 1 + (b - a - 1)
      BY <1>1
    <3> QED
      BY <3>1
  <2>2. b * (size + 1) = a * (size + 1) + (size + 1) + d * (size + 1)
    BY <2>1
  <2>3. d * (size + 1) \in Nat /\ a * (size + 1) \in Nat
    OBVIOUS
  <2>4. \A x, y \in Nat : x + k < x + (size + 1) + y + l
    OBVIOUS
  <2> QED
    BY <2>2, <2>3, <2>4
<1>2. ~(t < u) /\ ~(u < t)
  BY <1>1 DEF Key
<1>3. t = u
  BY <1>2
<1>4. t * (size + 1) \in Nat
  OBVIOUS
<1> QED
  BY <1>3, <1>4 DEF Key

LEMMA KeyInMemo ==
    ASSUME NEW count \in Nat, NEW size \in Nat, NEW ti \in 0..count, NEW ni \in 0..size
    PROVE  {Key(ti, ni, size)} \in Memos(count, size)
<1>1. PICK d \in Nat : count = ti + d
  <2>1. count - ti \in Nat /\ count = ti + (count - ti)
    OBVIOUS
  <2> QED
    BY <2>1
<1>2. (count + 1) * (size + 1) = ti * (size + 1) + d * (size + 1) + (size + 1)
  BY <1>1
<1>3. d * (size + 1) \in Nat /\ ti * (size + 1) \in Nat
  OBVIOUS
<1>4. \A x, y \in Nat : x + ni \in Nat /\ x + ni <= x + y + (size + 1) - 1
  OBVIOUS
<1>5. ti * (size + 1) + ni \in 0..((count + 1) * (size + 1) - 1)
  BY <1>2, <1>3, <1>4
<1> QED
  BY <1>5 DEF Key, Memos

Listed(s) == \E S : s \in Seq(S)

\* From ni a run of t's characters leads to where the tokens from next on fit.
Ahead(tokens, name, t, next, ni) ==
    \E mid \in ni..Len(name) :
      (\A i \in ni + 1..mid : Admits(t, name[i])) /\ Fits(tokens, name, next, mid)

LEMMA AheadStep ==
    ASSUME NEW tokens, NEW name, Len(name) \in Nat, NEW t, NEW next, NEW ni \in 0..Len(name)
    PROVE  Ahead(tokens, name, t, next, ni) <=>
             Fits(tokens, name, next, ni) \/ (More(t, name, ni) /\ Ahead(tokens, name, t, next, ni + 1))
<1>1. ASSUME Ahead(tokens, name, t, next, ni), ~Fits(tokens, name, next, ni)
      PROVE  More(t, name, ni) /\ Ahead(tokens, name, t, next, ni + 1)
  <2>1. PICK mid \in ni..Len(name) : (\A i \in ni + 1..mid : Admits(t, name[i])) /\ Fits(tokens, name, next, mid)
    BY <1>1 DEF Ahead
  <2>2. mid # ni /\ mid \in ni + 1..Len(name) /\ ni + 1 \in ni + 1..mid /\ ni < Len(name)
    BY <1>1, <2>1
  <2>3. \A i \in ni + 1 + 1..mid : i \in ni + 1..mid
    OBVIOUS
  <2>4. Ahead(tokens, name, t, next, ni + 1)
    BY <2>1, <2>2, <2>3 DEF Ahead
  <2> QED
    BY <2>1, <2>2, <2>4 DEF More
<1>2. ASSUME Fits(tokens, name, next, ni)
      PROVE  Ahead(tokens, name, t, next, ni)
  <2>1. ni \in ni..Len(name) /\ ni + 1..ni = {}
    OBVIOUS
  <2> QED
    BY <1>2, <2>1 DEF Ahead
<1>3. ASSUME More(t, name, ni), Ahead(tokens, name, t, next, ni + 1)
      PROVE  Ahead(tokens, name, t, next, ni)
  <2>1. PICK mid \in ni + 1..Len(name) : (\A i \in ni + 1 + 1..mid : Admits(t, name[i])) /\ Fits(tokens, name, next, mid)
    BY <1>3 DEF Ahead
  <2>2. mid \in ni..Len(name)
    BY <2>1
  <2>3. \A i \in ni + 1..mid : Admits(t, name[i])
    <3> TAKE i \in ni + 1..mid
    <3>1. i = ni + 1 \/ i \in ni + 1 + 1..mid
      OBVIOUS
    <3> QED
      BY <3>1, <2>1, <1>3 DEF More
  <2> QED
    BY <2>1, <2>2, <2>3 DEF Ahead
<1> QED
  BY <1>1, <1>2, <1>3

\* What one token fits, by its kind.
LEMMA FitsByKind ==
    ASSUME NEW tokens, Len(tokens) \in Nat, NEW name, Listed(name),
           NEW ti \in 0..Len(tokens), ti # Len(tokens), NEW ni \in 0..Len(name)
    PROVE  LET t == tokens[ti + 1]
               fits == Fits(tokens, name, ti, ni)
               rest(mid) == Fits(tokens, name, ti + 1, mid)
           IN /\ t.run # "none" => (fits <=> Ahead(tokens, name, t, ti + 1, ni))
              /\ t.run = "none" /\ t.quant = "+" =>
                   (fits <=> More(t, name, ni) /\ Ahead(tokens, name, t, ti + 1, ni + 1))
              /\ t.run = "none" /\ t.quant = "?" => (fits <=> rest(ni) \/ (More(t, name, ni) /\ rest(ni + 1)))
              /\ t.run = "none" /\ t.quant \notin {"+", "?"} => (fits <=> More(t, name, ni) /\ rest(ni + 1))
<1> DEFINE t == tokens[ti + 1]
           size == Len(name)
           Rest(mid) == Fits(tokens, name, ti + 1, mid)
<1>0. PICK S : name \in Seq(S)
  BY DEF Listed
<1>1. Fits(tokens, name, ti, ni) <=> \E mid \in ni..size : Takes(t, name, ni, mid) /\ Rest(mid)
  BY <1>0, FitsStep
<1>2. size \in Nat
  BY <1>0
<1> HIDE DEF t, Rest
<1>3. ASSUME t.run # "none"
      PROVE  Fits(tokens, name, ti, ni) <=> Ahead(tokens, name, t, ti + 1, ni)
  BY <1>1, <1>3 DEF Takes, Ahead, Rest
<1>4. ASSUME t.run = "none", t.quant = "+"
      PROVE  Fits(tokens, name, ti, ni) <=> More(t, name, ni) /\ Ahead(tokens, name, t, ti + 1, ni + 1)
  <2>1. \A mid \in ni..size : Takes(t, name, ni, mid) <=> (\A i \in ni + 1..mid : Admits(t, name[i])) /\ mid - ni >= 1
    BY <1>4 DEF Takes
  <2>2. ASSUME Fits(tokens, name, ti, ni) PROVE More(t, name, ni) /\ Ahead(tokens, name, t, ti + 1, ni + 1)
    <3>1. PICK mid \in ni..size : (\A i \in ni + 1..mid : Admits(t, name[i])) /\ mid - ni >= 1 /\ Rest(mid)
      BY <2>2, <2>1, <1>1
    <3>2. mid \in ni + 1..size /\ ni + 1 \in ni + 1..mid /\ ni < size /\ \A i \in ni + 1 + 1..mid : i \in ni + 1..mid
      BY <3>1, <1>2
    <3> QED
      BY <3>1, <3>2 DEF More, Ahead, Rest
  <2>3. ASSUME More(t, name, ni), Ahead(tokens, name, t, ti + 1, ni + 1) PROVE Fits(tokens, name, ti, ni)
    <3>1. PICK mid \in ni + 1..size : (\A i \in ni + 1 + 1..mid : Admits(t, name[i])) /\ Rest(mid)
      BY <2>3 DEF Ahead, Rest
    <3>2. mid \in ni..size /\ mid - ni >= 1
      BY <3>1, <1>2
    <3>3. \A i \in ni + 1..mid : Admits(t, name[i])
      <4> TAKE i \in ni + 1..mid
      <4>1. i = ni + 1 \/ i \in ni + 1 + 1..mid
        OBVIOUS
      <4> QED
        BY <4>1, <3>1, <2>3 DEF More
    <3> QED
      BY <3>1, <3>2, <3>3, <2>1, <1>1
  <2> QED
    BY <2>2, <2>3
<1>5. /\ Takes(t, name, ni, ni) <=> (t.run = "none" => t.quant = "?")
      /\ More(t, name, ni) => ni + 1 \in ni..size
      /\ ni + 1 \in ni..size => (Takes(t, name, ni, ni + 1) <=> More(t, name, ni))
  <2>1. ni + 1..ni = {} /\ ni + 1..ni + 1 = {ni + 1} /\ ni - ni = 0 /\ ni + 1 - ni = 1
    OBVIOUS
  <2>2. Takes(t, name, ni, ni) <=> (t.run = "none" => t.quant = "?")
    BY <2>1 DEF Takes
  <2>3. More(t, name, ni) => ni + 1 \in ni..size
    BY <1>2 DEF More
  <2>4. ni + 1 \in ni..size => (Takes(t, name, ni, ni + 1) <=> More(t, name, ni))
    BY <2>1, <1>2 DEF Takes, More
  <2> QED
    BY <2>2, <2>3, <2>4
<1>6. ASSUME t.run = "none", t.quant # "+", NEW mid \in ni..size, Takes(t, name, ni, mid)
      PROVE  mid \in {ni, ni + 1}
  BY <1>6, <1>2 DEF Takes
<1>7. ni \in ni..size
  BY <1>2
<1>8. ASSUME t.run = "none", t.quant = "?"
      PROVE  Fits(tokens, name, ti, ni) <=> Rest(ni) \/ (More(t, name, ni) /\ Rest(ni + 1))
  BY <1>1, <1>5, <1>6, <1>7, <1>8
<1>9. ASSUME t.run = "none", t.quant \notin {"+", "?"}
      PROVE  Fits(tokens, name, ti, ni) <=> More(t, name, ni) /\ Rest(ni + 1)
  BY <1>1, <1>5, <1>6, <1>7, <1>9
<1> QED
  BY <1>3, <1>4, <1>8, <1>9 DEF t, Rest

\* The loop over a star, with up to n characters to go.
StarRun(t, name, memos, rest, n, f) ==
    f = [left \in 0..n |-> StarTurn(t, name, memos, rest, Len(name) - left, f[left - 1])]

\* At the end of the name no turn follows.
LEMMA StarEnds ==
    ASSUME NEW t, NEW name, Len(name) \in Nat, NEW memos, NEW rest, NEW next, NEW other
    PROVE  StarTurn(t, name, memos, rest, Len(name) - 0, next) = StarTurn(t, name, memos, rest, Len(name) - 0, other)
<1>1. ~More(t, name, Len(name) - 0)
  BY DEF More
<1> QED
  BY <1>1, Zenon DEF StarTurn

LEMMA StarRuns ==
    ASSUME NEW t, NEW name, Len(name) \in Nat, NEW memos, NEW rest, NEW n \in Nat
    PROVE  \E f : StarRun(t, name, memos, rest, n, f)
<1> DEFINE T == {k \in Nat : ~\E f : StarRun(t, name, memos, rest, k, f)}
           Turned(left, next) == StarTurn(t, name, memos, rest, Len(name) - left, next)
<1>0. \A next, other : Turned(0, next) = Turned(0, other)
  BY StarEnds
<1>1. ASSUME T # {} PROVE FALSE
  <2>1. PICK k \in T : \A m \in T : k <= m
    BY <1>1, LeastNatural
  <2>2. CASE k = 0
    <3> DEFINE f == [left \in 0..0 |-> Turned(left, rest)]
    <3>1. f[0] = Turned(0, f[0 - 1])
      <4>1. f[0] = Turned(0, rest)
        OBVIOUS
      <4> HIDE DEF f, Turned
      <4> QED
        BY <4>1, <1>0
    <3>2. f = [left \in 0..0 |-> Turned(left, f[left - 1])]
      <4> HIDE DEF Turned
      <4> QED
        BY <3>1
    <3>3. StarRun(t, name, memos, rest, 0, f)
      BY <3>2, Zenon DEF StarRun
    <3> QED
      BY <2>1, <2>2, <3>3
  <2>3. CASE k # 0
    <3>0. k - 1 \in Nat /\ k - 1 \notin T
      BY <2>1, <2>3
    <3>1. PICK g : StarRun(t, name, memos, rest, k - 1, g)
      BY <3>0
    <3>2. g = [left \in 0..k - 1 |-> Turned(left, g[left - 1])]
      BY <3>1, Zenon DEF StarRun
    <3> HIDE DEF Turned
    <3> DEFINE f == [i \in 0..k |-> IF i = k THEN Turned(k, g[k - 1]) ELSE g[i]]
    <3>3. ASSUME NEW i \in 0..k
          PROVE  f[i] = Turned(i, f[i - 1])
      <4>1. CASE i = k
        BY <4>1, <2>3, <3>0
      <4>2. CASE i # k
        <5>1. f[i] = g[i] /\ g[i] = Turned(i, g[i - 1])
          BY <4>2, <3>0, <3>2
        <5>2. CASE i = 0
          BY <5>1, <5>2, <1>0
        <5>3. CASE i # 0
          BY <4>2, <5>1, <5>3, <3>0
        <5> QED
          BY <5>2, <5>3
      <4> QED
        BY <4>1, <4>2
    <3>4. f = [left \in 0..k |-> Turned(left, f[left - 1])]
      BY <3>3
    <3>5. StarRun(t, name, memos, rest, k, f)
      BY <3>4, Zenon DEF StarRun, Turned
    <3> QED
      BY <3>5, <2>1
  <2> QED
    BY <2>2, <2>3
<1> QED
  BY <1>1

LEMMA StarSteps ==
    ASSUME NEW t, NEW name, Len(name) \in Nat, NEW memos, NEW rest
    PROVE  \A left \in 0..Len(name) :
             Star(t, name, memos, rest)[left] =
               StarTurn(t, name, memos, rest, Len(name) - left, Star(t, name, memos, rest)[left - 1])
<1> DEFINE run == CHOOSE f : StarRun(t, name, memos, rest, Len(name), f)
<1>1. StarRun(t, name, memos, rest, Len(name), run)
  BY StarRuns, Zenon
<1>2. Star(t, name, memos, rest) = run
  BY Zenon DEF Star, StarRun
<1> HIDE DEF run
<1>3. run = [left \in 0..Len(name) |-> StarTurn(t, name, memos, rest, Len(name) - left, run[left - 1])]
  BY <1>1, Zenon DEF StarRun
<1> QED
  BY <1>2, <1>3, Zenon

\* The loop over a +, with up to n characters to go.
PlusRun(t, name, memos, rest, n, f) ==
    f = [left \in 0..n |-> PlusTurn(t, name, memos, rest, Len(name) - left, f[left - 1])]

\* At the end of the name no turn follows.
LEMMA PlusEnds ==
    ASSUME NEW t, NEW name, Len(name) \in Nat, NEW memos, NEW rest, NEW next, NEW other
    PROVE  PlusTurn(t, name, memos, rest, Len(name) - 0, next) = PlusTurn(t, name, memos, rest, Len(name) - 0, other)
<1>1. ~More(t, name, Len(name) - 0)
  BY DEF More
<1> QED
  BY <1>1, Zenon DEF PlusTurn

LEMMA PlusRuns ==
    ASSUME NEW t, NEW name, Len(name) \in Nat, NEW memos, NEW rest, NEW n \in Nat
    PROVE  \E f : PlusRun(t, name, memos, rest, n, f)
<1> DEFINE T == {k \in Nat : ~\E f : PlusRun(t, name, memos, rest, k, f)}
           Turned(left, next) == PlusTurn(t, name, memos, rest, Len(name) - left, next)
<1>0. \A next, other : Turned(0, next) = Turned(0, other)
  BY PlusEnds
<1>1. ASSUME T # {} PROVE FALSE
  <2>1. PICK k \in T : \A m \in T : k <= m
    BY <1>1, LeastNatural
  <2>2. CASE k = 0
    <3> DEFINE f == [left \in 0..0 |-> Turned(left, rest)]
    <3>1. f[0] = Turned(0, f[0 - 1])
      <4>1. f[0] = Turned(0, rest)
        OBVIOUS
      <4> HIDE DEF f, Turned
      <4> QED
        BY <4>1, <1>0
    <3>2. f = [left \in 0..0 |-> Turned(left, f[left - 1])]
      <4> HIDE DEF Turned
      <4> QED
        BY <3>1
    <3>3. PlusRun(t, name, memos, rest, 0, f)
      BY <3>2, Zenon DEF PlusRun
    <3> QED
      BY <2>1, <2>2, <3>3
  <2>3. CASE k # 0
    <3>0. k - 1 \in Nat /\ k - 1 \notin T
      BY <2>1, <2>3
    <3>1. PICK g : PlusRun(t, name, memos, rest, k - 1, g)
      BY <3>0
    <3>2. g = [left \in 0..k - 1 |-> Turned(left, g[left - 1])]
      BY <3>1, Zenon DEF PlusRun
    <3> HIDE DEF Turned
    <3> DEFINE f == [i \in 0..k |-> IF i = k THEN Turned(k, g[k - 1]) ELSE g[i]]
    <3>3. ASSUME NEW i \in 0..k
          PROVE  f[i] = Turned(i, f[i - 1])
      <4>1. CASE i = k
        BY <4>1, <2>3, <3>0
      <4>2. CASE i # k
        <5>1. f[i] = g[i] /\ g[i] = Turned(i, g[i - 1])
          BY <4>2, <3>0, <3>2
        <5>2. CASE i = 0
          BY <5>1, <5>2, <1>0
        <5>3. CASE i # 0
          BY <4>2, <5>1, <5>3, <3>0
        <5> QED
          BY <5>2, <5>3
      <4> QED
        BY <4>1, <4>2
    <3>4. f = [left \in 0..k |-> Turned(left, f[left - 1])]
      BY <3>3
    <3>5. PlusRun(t, name, memos, rest, k, f)
      BY <3>4, Zenon DEF PlusRun, Turned
    <3> QED
      BY <3>5, <2>1
  <2> QED
    BY <2>2, <2>3
<1> QED
  BY <1>1

LEMMA PlusSteps ==
    ASSUME NEW t, NEW name, Len(name) \in Nat, NEW memos, NEW rest
    PROVE  \A left \in 0..Len(name) :
             Plus(t, name, memos, rest)[left] =
               PlusTurn(t, name, memos, rest, Len(name) - left, Plus(t, name, memos, rest)[left - 1])
<1> DEFINE run == CHOOSE f : PlusRun(t, name, memos, rest, Len(name), f)
<1>1. PlusRun(t, name, memos, rest, Len(name), run)
  BY PlusRuns, Zenon
<1>2. Plus(t, name, memos, rest) = run
  BY Zenon DEF Plus, PlusRun
<1> HIDE DEF run
<1>3. run = [left \in 0..Len(name) |-> PlusTurn(t, name, memos, rest, Len(name) - left, run[left - 1])]
  BY <1>1, Zenon DEF PlusRun
<1> QED
  BY <1>2, <1>3, Zenon

\* A memo that says no more than is true.
Sound(tokens, name, failed) ==
    /\ failed \in Memos(Len(tokens), Len(name))
    /\ \A t \in 0..Len(tokens), i \in 0..Len(name) :
         Key(t, i, Len(name)) \in failed => ~Fits(tokens, name, t, i)

\* A search that finds out, from every position, whether the tokens from ti on
\* fit, and leaves a memo that is sound.
Right(tokens, name, ti, search) ==
    \A ni \in 0..Len(name) : \A failed :
      Sound(tokens, name, failed) =>
        /\ search[ni][failed].ok <=> Fits(tokens, name, ti, ni)
        /\ Sound(tokens, name, search[ni][failed].failed)

LEMMA StarRight ==
    ASSUME NEW tokens, NEW name, Len(name) \in Nat, NEW t, NEW next, NEW rest, Right(tokens, name, next, rest),
           NEW left \in 0..Len(name), NEW failed, Sound(tokens, name, failed)
    PROVE  LET out == Star(t, name, Memos(Len(tokens), Len(name)), rest)[left][failed]
           IN /\ out.ok <=> Ahead(tokens, name, t, next, Len(name) - left)
              /\ Sound(tokens, name, out.failed)
<1> DEFINE size == Len(name)
           memos == Memos(Len(tokens), Len(name))
           run == Star(t, name, memos, rest)
           Fine(k) == \A f : Sound(tokens, name, f) =>
                        /\ run[k][f].ok <=> Ahead(tokens, name, t, next, size - k)
                        /\ Sound(tokens, name, run[k][f].failed)
           T == {k \in 0..size : ~Fine(k)}
<1>1. ASSUME NEW k \in 0..size, k # 0 => Fine(k - 1)
      PROVE  Fine(k)
  <2> SUFFICES ASSUME NEW f, Sound(tokens, name, f)
               PROVE  /\ run[k][f].ok <=> Ahead(tokens, name, t, next, size - k)
                      /\ Sound(tokens, name, run[k][f].failed)
    OBVIOUS
  <2> DEFINE ni == size - k
             here == rest[ni][f]
  <2>0. ni \in 0..size /\ size - (k - 1) = ni + 1
    OBVIOUS
  <2>1. run[k] = StarTurn(t, name, memos, rest, ni, run[k - 1])
    BY StarSteps
  <2>2. f \in memos
    BY DEF Sound
  <2> HIDE DEF run, memos
  <2>3. run[k][f] = IF here.ok \/ ~More(t, name, ni) THEN here ELSE run[k - 1][here.failed]
    BY <2>1, <2>2, Zenon DEF StarTurn
  <2>4. (here.ok <=> Fits(tokens, name, next, ni)) /\ Sound(tokens, name, here.failed)
    BY <2>0 DEF Right
  <2>5. Ahead(tokens, name, t, next, ni) <=>
          Fits(tokens, name, next, ni) \/ (More(t, name, ni) /\ Ahead(tokens, name, t, next, ni + 1))
    BY <2>0, AheadStep
  <2>6. CASE here.ok \/ ~More(t, name, ni)
    BY <2>3, <2>4, <2>5, <2>6, Zenon
  <2>7. CASE ~here.ok /\ More(t, name, ni)
    <3>1. k # 0
      BY <2>7 DEF More
    <3>2. /\ run[k - 1][here.failed].ok <=> Ahead(tokens, name, t, next, size - (k - 1))
          /\ Sound(tokens, name, run[k - 1][here.failed].failed)
      BY <1>1, <3>1, <2>4, Zenon
    <3>3. /\ run[k - 1][here.failed].ok <=> Ahead(tokens, name, t, next, ni + 1)
          /\ Sound(tokens, name, run[k - 1][here.failed].failed)
      BY <3>2, <2>0
    <3> QED
      BY <2>3, <2>4, <2>5, <2>7, <3>3, Zenon
  <2> QED
    BY <2>6, <2>7
<1>2. ASSUME T # {} PROVE FALSE
  <2> HIDE DEF Fine
  <2>0. T \subseteq Nat
    OBVIOUS
  <2>1. PICK k \in T : \A m \in T : k <= m
    BY <1>2, <2>0, LeastNatural, Zenon
  <2>2. k \in 0..size /\ (k # 0 => Fine(k - 1))
    BY <2>1
  <2> QED
    BY <2>1, <2>2, <1>1
<1> QED
  BY <1>2

LEMMA PlusRight ==
    ASSUME NEW tokens, NEW name, Len(name) \in Nat, NEW t, NEW next, NEW rest, Right(tokens, name, next, rest),
           NEW left \in 0..Len(name), NEW failed, Sound(tokens, name, failed)
    PROVE  LET out == Plus(t, name, Memos(Len(tokens), Len(name)), rest)[left][failed]
               ni == Len(name) - left
           IN /\ out.ok <=> More(t, name, ni) /\ Ahead(tokens, name, t, next, ni + 1)
              /\ Sound(tokens, name, out.failed)
<1> DEFINE size == Len(name)
           memos == Memos(Len(tokens), Len(name))
           run == Plus(t, name, memos, rest)
           Goes(ni) == More(t, name, ni) /\ Ahead(tokens, name, t, next, ni + 1)
           Fine(k) == \A f : Sound(tokens, name, f) =>
                        /\ run[k][f].ok <=> Goes(size - k)
                        /\ Sound(tokens, name, run[k][f].failed)
           T == {k \in 0..size : ~Fine(k)}
<1>1. ASSUME NEW k \in 0..size, k # 0 => Fine(k - 1)
      PROVE  Fine(k)
  <2> SUFFICES ASSUME NEW f, Sound(tokens, name, f)
               PROVE  /\ run[k][f].ok <=> Goes(size - k)
                      /\ Sound(tokens, name, run[k][f].failed)
    OBVIOUS
  <2> DEFINE ni == size - k
             here == rest[ni + 1][f]
  <2>0. ni \in 0..size /\ size - (k - 1) = ni + 1
    OBVIOUS
  <2>1. run[k] = PlusTurn(t, name, memos, rest, ni, run[k - 1])
    BY PlusSteps
  <2>2. f \in memos
    BY DEF Sound
  <2> HIDE DEF run, memos
  <2>3. run[k][f] = IF ~More(t, name, ni) THEN No(f) ELSE IF here.ok THEN here ELSE run[k - 1][here.failed]
    BY <2>1, <2>2, Zenon DEF PlusTurn
  <2>6. CASE ~More(t, name, ni)
    BY <2>3, <2>6 DEF No
  <2>7. CASE More(t, name, ni)
    <3>0. ni + 1 \in 0..size /\ k # 0
      BY <2>0, <2>7 DEF More
    <3>1. (here.ok <=> Fits(tokens, name, next, ni + 1)) /\ Sound(tokens, name, here.failed)
      BY <3>0 DEF Right
    <3>2. Ahead(tokens, name, t, next, ni + 1) <=> Fits(tokens, name, next, ni + 1) \/ Goes(ni + 1)
      BY <3>0, AheadStep
    <3>3. /\ run[k - 1][here.failed].ok <=> Goes(size - (k - 1))
          /\ Sound(tokens, name, run[k - 1][here.failed].failed)
      BY <1>1, <3>0, <3>1, Zenon
    <3>4. /\ run[k - 1][here.failed].ok <=> Goes(ni + 1)
          /\ Sound(tokens, name, run[k - 1][here.failed].failed)
      BY <3>3, <2>0
    <3> QED
      BY <2>3, <2>7, <3>1, <3>2, <3>4, Zenon
  <2> QED
    BY <2>6, <2>7
<1>2. ASSUME T # {} PROVE FALSE
  <2> HIDE DEF Fine
  <2>0. T \subseteq Nat
    OBVIOUS
  <2>1. PICK k \in T : \A m \in T : k <= m
    BY <1>2, <2>0, LeastNatural, Zenon
  <2>2. k \in 0..size /\ (k # 0 => Fine(k - 1))
    BY <2>1
  <2> QED
    BY <2>1, <2>2, <1>1
<1> QED
  BY <1>2

LEMMA OnceRight ==
    ASSUME NEW tokens, NEW name, Len(name) \in Nat, NEW t, NEW next, NEW rest, Right(tokens, name, next, rest),
           NEW ni \in 0..Len(name), NEW failed, Sound(tokens, name, failed)
    PROVE  LET out == Once(t, name, rest, ni, failed)
               onward == More(t, name, ni) /\ Fits(tokens, name, next, ni + 1)
           IN /\ t.quant = "?" => (out.ok <=> Fits(tokens, name, next, ni) \/ onward)
              /\ t.quant # "?" => (out.ok <=> onward)
              /\ Sound(tokens, name, out.failed)
<1> DEFINE skipped == IF t.quant = "?" THEN rest[ni][failed] ELSE No(failed)
           out == Once(t, name, rest, ni, failed)
<1>1. out = IF ~skipped.ok /\ More(t, name, ni) THEN rest[ni + 1][skipped.failed] ELSE skipped
  BY DEF Once
<1>2. /\ t.quant = "?" => (skipped.ok <=> Fits(tokens, name, next, ni))
      /\ t.quant # "?" => ~skipped.ok
      /\ Sound(tokens, name, skipped.failed)
  BY DEF Right, No
<1> HIDE DEF skipped, out
<1>3. CASE ~skipped.ok /\ More(t, name, ni)
  <2>1. ni + 1 \in 0..Len(name)
    BY <1>3 DEF More
  <2>2. /\ rest[ni + 1][skipped.failed].ok <=> Fits(tokens, name, next, ni + 1)
        /\ Sound(tokens, name, rest[ni + 1][skipped.failed].failed)
    BY <2>1, <1>2 DEF Right
  <2> QED
    BY <1>1, <1>2, <1>3, <2>2 DEF out
<1>4. CASE ~(~skipped.ok /\ More(t, name, ni))
  BY <1>1, <1>2, <1>4 DEF out
<1> QED
  BY <1>3, <1>4

\* One token more: if the search of those behind it is right, so is its own,
\* memo and all.
LEMMA SearchedRight ==
    ASSUME NEW tokens, Len(tokens) \in Nat, NEW name, Listed(name), NEW ti \in 0..Len(tokens), ti # Len(tokens),
           NEW rest, Right(tokens, name, ti + 1, rest)
    PROVE  Right(tokens, name, ti, Searched(tokens, name, Memos(Len(tokens), Len(name)), ti, rest))
<1> DEFINE size == Len(name)
           memos == Memos(Len(tokens), Len(name))
           t == tokens[ti + 1]
           search == Searched(tokens, name, memos, ti, rest)
<1>0. size \in Nat
  BY DEF Listed
<1> SUFFICES ASSUME NEW ni \in 0..size, NEW failed, Sound(tokens, name, failed)
             PROVE  /\ search[ni][failed].ok <=> Fits(tokens, name, ti, ni)
                    /\ Sound(tokens, name, search[ni][failed].failed)
  BY DEF Right
<1> DEFINE key == Key(ti, ni, size)
           out == Try(t, name, memos, rest, ni, failed)
<1>1. failed \in memos
  BY DEF Sound
<1>2. search[ni][failed] = IF key \in failed THEN No(failed) ELSE IF out.ok THEN out ELSE No(out.failed \cup {key})
  <2> HIDE DEF memos, key, out
  <2> QED
    BY <1>1, Zenon DEF Searched, key, out
<1>3. (out.ok <=> Fits(tokens, name, ti, ni)) /\ Sound(tokens, name, out.failed)
  <2> HIDE DEF t
  <2>0. size - ni \in 0..size /\ size - (size - ni) = ni
    BY <1>0
  <2>1. CASE t.run # "none"
    <3>1. out = Star(t, name, memos, rest)[size - ni][failed]
      BY <2>1 DEF Try
    <3>2. (out.ok <=> Ahead(tokens, name, t, ti + 1, size - (size - ni))) /\ Sound(tokens, name, out.failed)
      <4> HIDE DEF out
      <4> QED
        BY <1>0, <2>0, <3>1, StarRight
    <3>3. Fits(tokens, name, ti, ni) <=> Ahead(tokens, name, t, ti + 1, ni)
      BY <2>1, FitsByKind DEF t
    <3> HIDE DEF out
    <3> QED
      BY <2>0, <3>2, <3>3
  <2>2. CASE t.run = "none" /\ t.quant = "+"
    <3>1. out = Plus(t, name, memos, rest)[size - ni][failed]
      BY <2>2 DEF Try
    <3>2. /\ out.ok <=> More(t, name, size - (size - ni)) /\ Ahead(tokens, name, t, ti + 1, size - (size - ni) + 1)
          /\ Sound(tokens, name, out.failed)
      <4> HIDE DEF out
      <4> QED
        BY <1>0, <2>0, <3>1, PlusRight
    <3>3. Fits(tokens, name, ti, ni) <=> More(t, name, ni) /\ Ahead(tokens, name, t, ti + 1, ni + 1)
      BY <2>2, FitsByKind DEF t
    <3> HIDE DEF out
    <3> QED
      BY <2>0, <3>2, <3>3
  <2>3. CASE t.run = "none" /\ t.quant # "+"
    <3>1. out = Once(t, name, rest, ni, failed)
      BY <2>3 DEF Try
    <3> HIDE DEF out
    <3>2. /\ t.quant = "?" => (out.ok <=> Fits(tokens, name, ti + 1, ni) \/ (More(t, name, ni) /\ Fits(tokens, name, ti + 1, ni + 1)))
          /\ t.quant # "?" => (out.ok <=> More(t, name, ni) /\ Fits(tokens, name, ti + 1, ni + 1))
          /\ Sound(tokens, name, out.failed)
      BY <1>0, <3>1, OnceRight
    <3>3. /\ t.quant = "?" => (Fits(tokens, name, ti, ni) <=> Fits(tokens, name, ti + 1, ni) \/ (More(t, name, ni) /\ Fits(tokens, name, ti + 1, ni + 1)))
          /\ t.quant # "?" => (Fits(tokens, name, ti, ni) <=> More(t, name, ni) /\ Fits(tokens, name, ti + 1, ni + 1))
      <4>1. ASSUME t.quant = "?"
            PROVE  Fits(tokens, name, ti, ni) <=> Fits(tokens, name, ti + 1, ni) \/ (More(t, name, ni) /\ Fits(tokens, name, ti + 1, ni + 1))
        <5>1. t.run = "none" /\ t.quant = "?" =>
                (Fits(tokens, name, ti, ni) <=> Fits(tokens, name, ti + 1, ni) \/ (More(t, name, ni) /\ Fits(tokens, name, ti + 1, ni + 1)))
          BY FitsByKind, Zenon DEF t
        <5> QED
          BY <2>3, <4>1, <5>1, Zenon
      <4>2. ASSUME t.quant # "?"
            PROVE  Fits(tokens, name, ti, ni) <=> More(t, name, ni) /\ Fits(tokens, name, ti + 1, ni + 1)
        <5>1. t.quant \notin {"+", "?"}
          BY <2>3, <4>2
        <5> QED
          BY <2>3, <5>1, FitsByKind DEF t
      <4> QED
        BY <4>1, <4>2
    <3> QED
      <4>1. CASE t.quant = "?"
        BY <3>2, <3>3, <4>1, Zenon
      <4>2. CASE t.quant # "?"
        BY <3>2, <3>3, <4>2, Zenon
      <4> QED
        BY <4>1, <4>2, Zenon
  <2> QED
    BY <2>1, <2>2, <2>3
<1> HIDE DEF out, search
<1>4. CASE key \in failed
  <2>1. ~Fits(tokens, name, ti, ni)
    BY <1>4 DEF Sound
  <2> QED
    BY <1>2, <1>4, <2>1 DEF No
<1>5. CASE key \notin failed /\ out.ok
  BY <1>2, <1>3, <1>5
<1>6. CASE key \notin failed /\ ~out.ok
  <2>1. {key} \in memos
    BY <1>0, KeyInMemo
  <2>2. out.failed \cup {key} \in memos
    BY <2>1, <1>3 DEF Sound, Memos
  <2>3. ASSUME NEW u \in 0..Len(tokens), NEW i \in 0..size, Key(u, i, size) \in out.failed \cup {key}
        PROVE  ~Fits(tokens, name, u, i)
    <3>1. CASE Key(u, i, size) \in out.failed
      BY <1>3, <3>1 DEF Sound
    <3>2. CASE Key(u, i, size) = key
      <4>1. u = ti /\ i = ni
        BY <1>0, <3>2, KeysDiffer
      <4> QED
        BY <4>1, <1>3, <1>6
    <3> QED
      BY <2>3, <3>1, <3>2
  <2>4. Sound(tokens, name, out.failed \cup {key})
    BY <2>2, <2>3 DEF Sound
  <2> QED
    BY <1>2, <1>3, <1>6, <2>4 DEF No
<1> QED
  BY <1>4, <1>5, <1>6

LEMMA NameOverRight ==
    ASSUME NEW tokens, Len(tokens) \in Nat, NEW name, Len(name) \in Nat
    PROVE  Right(tokens, name, Len(tokens), NameOver(name, Memos(Len(tokens), Len(name))))
<1> SUFFICES ASSUME NEW ni \in 0..Len(name), NEW failed, Sound(tokens, name, failed)
             PROVE  LET out == NameOver(name, Memos(Len(tokens), Len(name)))[ni][failed]
                    IN (out.ok <=> Fits(tokens, name, Len(tokens), ni)) /\ Sound(tokens, name, out.failed)
  BY DEF Right
<1>1. failed \in Memos(Len(tokens), Len(name))
  BY DEF Sound
<1>2. NameOver(name, Memos(Len(tokens), Len(name)))[ni][failed] = [ok |-> ni = Len(name), failed |-> failed]
  BY <1>1, Zenon DEF NameOver
<1> DEFINE out == NameOver(name, Memos(Len(tokens), Len(name)))[ni][failed]
<1> HIDE DEF out
<1>3. out.ok = (ni = Len(name)) /\ out.failed = failed
  <2> DEFINE over == ni = Len(name)
  <2>1. out = [ok |-> over, failed |-> failed]
    BY <1>2, Zenon DEF out
  <2> HIDE DEF over
  <2>2. out.ok = over /\ out.failed = failed
    BY <2>1
  <2> QED
    BY <2>2 DEF over
<1>4. Fits(tokens, name, Len(tokens), ni) <=> ni = Len(name)
  BY FitsEnd
<1> QED
  BY <1>3, <1>4 DEF out

\* The search of the last left tokens, from the one of those behind the first.
SearchOf(tokens, name, left, next) ==
    IF left = 0 THEN NameOver(name, Memos(Len(tokens), Len(name)))
    ELSE Searched(tokens, name, Memos(Len(tokens), Len(name)), Len(tokens) - left, next)

SearchRun(tokens, name, n, f) ==
    f = [left \in 0..n |-> SearchOf(tokens, name, left, f[left - 1])]

LEMMA SearchRuns ==
    ASSUME NEW tokens, NEW name, NEW n \in Nat
    PROVE  \E f : SearchRun(tokens, name, n, f)
<1> DEFINE T == {k \in Nat : ~\E f : SearchRun(tokens, name, k, f)}
           Turned(left, next) == SearchOf(tokens, name, left, next)
<1>0. \A next, other : Turned(0, next) = Turned(0, other)
  BY DEF SearchOf
<1>1. ASSUME T # {} PROVE FALSE
  <2>1. PICK k \in T : \A m \in T : k <= m
    BY <1>1, LeastNatural
  <2>2. CASE k = 0
    <3> DEFINE f == [left \in 0..0 |-> Turned(left, name)]
    <3>1. f[0] = Turned(0, f[0 - 1])
      <4>1. f[0] = Turned(0, name)
        OBVIOUS
      <4> HIDE DEF f, Turned
      <4> QED
        BY <4>1, <1>0
    <3>2. f = [left \in 0..0 |-> Turned(left, f[left - 1])]
      <4> HIDE DEF Turned
      <4> QED
        BY <3>1
    <3>3. SearchRun(tokens, name, 0, f)
      BY <3>2, Zenon DEF SearchRun
    <3> QED
      BY <2>1, <2>2, <3>3
  <2>3. CASE k # 0
    <3>0. k - 1 \in Nat /\ k - 1 \notin T
      BY <2>1, <2>3
    <3>1. PICK g : SearchRun(tokens, name, k - 1, g)
      BY <3>0
    <3>2. g = [left \in 0..k - 1 |-> Turned(left, g[left - 1])]
      BY <3>1, Zenon DEF SearchRun
    <3> HIDE DEF Turned
    <3> DEFINE f == [i \in 0..k |-> IF i = k THEN Turned(k, g[k - 1]) ELSE g[i]]
    <3>3. ASSUME NEW i \in 0..k
          PROVE  f[i] = Turned(i, f[i - 1])
      <4>1. CASE i = k
        BY <4>1, <2>3, <3>0
      <4>2. CASE i # k
        <5>1. f[i] = g[i] /\ g[i] = Turned(i, g[i - 1])
          BY <4>2, <3>0, <3>2
        <5>2. CASE i = 0
          BY <5>1, <5>2, <1>0
        <5>3. CASE i # 0
          BY <4>2, <5>1, <5>3, <3>0
        <5> QED
          BY <5>2, <5>3
      <4> QED
        BY <4>1, <4>2
    <3>4. f = [left \in 0..k |-> Turned(left, f[left - 1])]
      BY <3>3
    <3>5. SearchRun(tokens, name, k, f)
      BY <3>4, Zenon DEF SearchRun, Turned
    <3> QED
      BY <3>5, <2>1
  <2> QED
    BY <2>2, <2>3
<1> QED
  BY <1>1

\* The whole search finds out whether the tokens fit the name.
LEMMA AtFits ==
    ASSUME NEW tokens, Len(tokens) \in Nat, NEW name, Listed(name)
    PROVE  At(tokens, name) <=> Fits(tokens, name, 0, 0)
<1> DEFINE n == Len(tokens)
           from == CHOOSE f : SearchRun(tokens, name, n, f)
           Fine(left) == Right(tokens, name, n - left, from[left])
           T == {left \in 0..n : ~Fine(left)}
<1>0. n \in Nat /\ Len(name) \in Nat
  BY DEF Listed
<1>1. SearchRun(tokens, name, n, from)
  BY SearchRuns, Zenon
<1>2. At(tokens, name) = from[n][0][{}].ok
  BY Zenon DEF At, SearchRun, SearchOf
<1> HIDE DEF from
<1>3. \A left \in 0..n : from[left] = SearchOf(tokens, name, left, from[left - 1])
  BY <1>1, Zenon DEF SearchRun
<1>4. ASSUME NEW left \in 0..n, left # 0 => Fine(left - 1)
      PROVE  Fine(left)
  <2>1. CASE left = 0
    <3>1. from[left] = NameOver(name, Memos(n, Len(name))) /\ n - left = n
      BY <1>0, <1>3, <2>1 DEF SearchOf
    <3> QED
      BY <1>0, <3>1, NameOverRight
  <2>2. CASE left # 0
    <3>1. from[left] = Searched(tokens, name, Memos(n, Len(name)), n - left, from[left - 1])
      BY <1>3, <2>2 DEF SearchOf
    <3>2. n - left \in 0..n /\ n - left # n /\ n - (left - 1) = n - left + 1
      BY <1>0, <2>2
    <3>3. Right(tokens, name, n - left + 1, from[left - 1])
      BY <1>4, <2>2, <3>2
    <3> QED
      BY <3>1, <3>2, <3>3, SearchedRight
  <2> QED
    BY <2>1, <2>2
<1>5. Fine(n)
  <2>1. ASSUME T # {} PROVE FALSE
    <3> HIDE DEF Fine
    <3>0. T \subseteq Nat
      BY <1>0
    <3>1. PICK k \in T : \A m \in T : k <= m
      BY <2>1, <3>0, LeastNatural, Zenon
    <3>2. k \in 0..n /\ (k # 0 => Fine(k - 1))
      BY <1>0, <3>1
    <3> QED
      BY <3>1, <3>2, <1>4
  <2> QED
    BY <1>0, <2>1
<1>6. Sound(tokens, name, {})
  BY DEF Sound, Memos
<1>7. 0 \in 0..Len(name) /\ n - n = 0
  BY <1>0
<1>8. from[n][0][{}].ok <=> Fits(tokens, name, 0, 0)
  BY <1>5, <1>6, <1>7 DEF Right
<1> QED
  BY <1>2, <1>8

\* parseFilter's loop, turns times.
ParseRun(p, n, f) ==
    f = [turns \in 0..n |-> IF turns = 0 THEN ParseStart ELSE ParseTurn(p, f[turns - 1])]

LEMMA ParseRuns ==
    ASSUME NEW p, NEW n \in Nat
    PROVE  \E f : ParseRun(p, n, f)
<1> DEFINE T == {k \in Nat : ~\E f : ParseRun(p, k, f)}
           Turned(turns, s) == IF turns = 0 THEN ParseStart ELSE ParseTurn(p, s)
<1>0. \A s, other : Turned(0, s) = Turned(0, other)
  OBVIOUS
<1>1. ASSUME T # {} PROVE FALSE
  <2>1. PICK k \in T : \A m \in T : k <= m
    BY <1>1, LeastNatural
  <2>2. CASE k = 0
    <3> DEFINE f == [turns \in 0..0 |-> Turned(turns, p)]
    <3>1. f[0] = Turned(0, f[0 - 1])
      <4>1. f[0] = Turned(0, p)
        OBVIOUS
      <4> HIDE DEF f, Turned
      <4> QED
        BY <4>1, <1>0
    <3>2. f = [turns \in 0..0 |-> Turned(turns, f[turns - 1])]
      <4> HIDE DEF Turned
      <4> QED
        BY <3>1
    <3>3. ParseRun(p, 0, f)
      BY <3>2, Zenon DEF ParseRun
    <3> QED
      BY <2>1, <2>2, <3>3
  <2>3. CASE k # 0
    <3>0. k - 1 \in Nat /\ k - 1 \notin T
      BY <2>1, <2>3
    <3>1. PICK g : ParseRun(p, k - 1, g)
      BY <3>0
    <3>2. g = [turns \in 0..k - 1 |-> Turned(turns, g[turns - 1])]
      BY <3>1, Zenon DEF ParseRun
    <3> HIDE DEF Turned
    <3> DEFINE f == [i \in 0..k |-> IF i = k THEN Turned(k, g[k - 1]) ELSE g[i]]
    <3>3. ASSUME NEW i \in 0..k
          PROVE  f[i] = Turned(i, f[i - 1])
      <4>1. CASE i = k
        BY <4>1, <2>3, <3>0
      <4>2. CASE i # k
        <5>1. f[i] = g[i] /\ g[i] = Turned(i, g[i - 1])
          BY <4>2, <3>0, <3>2
        <5>2. CASE i = 0
          BY <5>1, <5>2, <1>0
        <5>3. CASE i # 0
          BY <4>2, <5>1, <5>3, <3>0
        <5> QED
          BY <5>2, <5>3
      <4> QED
        BY <4>1, <4>2
    <3>4. f = [turns \in 0..k |-> Turned(turns, f[turns - 1])]
      BY <3>3
    <3>5. ParseRun(p, k, f)
      BY <3>4, Zenon DEF ParseRun, Turned
    <3> QED
      BY <3>5, <2>1
  <2> QED
    BY <2>2, <2>3
<1> QED
  BY <1>1

\* The tokens read so far are a sequence, whatever was read.
Parsing(s) ==
    /\ {"ok", "i", "tokens", "quantifiable"} \subseteq DOMAIN s
    /\ s.tokens \in Seq(ToSet(s.tokens))

LEMMA ParseKeeps ==
    ASSUME NEW p, NEW s, Parsing(s)
    PROVE  Parsing(ParseTurn(p, s))
<1>1. Parsing(Unread(s))
  BY DEF Parsing, Unread
<1>2. ASSUME NEW token, NEW next
      PROVE  Parsing(Add(s, token, next))
  <2> DEFINE more == Append(s.tokens, token)
             add == Add(s, token, next)
  <2>1. more \in Seq(ToSet(more))
    <3>1. /\ Len(more) \in Nat /\ DOMAIN more = 1..Len(more)
          /\ more = [i \in 1..Len(more) |-> more[i]]
      <4>1. s.tokens \in Seq(ToSet(s.tokens) \cup {token}) /\ token \in ToSet(s.tokens) \cup {token}
        BY DEF Parsing
      <4>2. more \in Seq(ToSet(s.tokens) \cup {token})
        BY <4>1
      <4> HIDE DEF more
      <4> QED
        BY <4>2
    <3> HIDE DEF more
    <3>2. \A i \in 1..Len(more) : more[i] \in ToSet(more)
      BY <3>1 DEF ToSet
    <3> QED
      BY <3>1, <3>2
  <2>2. DOMAIN add = DOMAIN s /\ add.tokens = more
    BY DEF Add, Parsing
  <2> QED
    BY <2>1, <2>2 DEF Parsing
<1>3. ASSUME NEW c
      PROVE  Parsing(Qualify(s, c))
  <2> DEFINE more == [s.tokens EXCEPT ![Len(s.tokens)].quant = c]
             qualify == Qualify(s, c)
  <2>1. more \in Seq(ToSet(more))
    <3>0. /\ Len(s.tokens) \in Nat /\ DOMAIN more = 1..Len(s.tokens)
          /\ more = [i \in DOMAIN more |-> more[i]]
      BY DEF Parsing
    <3> HIDE DEF more
    <3>2. \A i \in 1..Len(s.tokens) : more[i] \in ToSet(more)
      BY <3>0 DEF ToSet
    <3> QED
      BY <3>0, <3>2
  <2>2. DOMAIN qualify = DOMAIN s /\ qualify.tokens = more
    BY DEF Qualify, Parsing
  <2> QED
    BY <2>1, <2>2 DEF Parsing
<1>4. Parsing(AddClass(p, s))
  BY <1>1, <1>2, Zenon DEF AddClass
<1> QED
  BY <1>1, <1>2, <1>3, <1>4 DEF ParseTurn

LEMMA ParseListed ==
    ASSUME NEW p, Len(p) \in Nat
    PROVE  Parsing(ParseFilter(p))
<1> DEFINE n == Len(p)
           after == CHOOSE f : ParseRun(p, n, f)
           T == {turns \in 0..n : ~Parsing(after[turns])}
<1>1. ParseRun(p, n, after)
  BY ParseRuns, Zenon
<1>2. ParseFilter(p) = after[n]
  BY Zenon DEF ParseFilter, ParseRun
<1> HIDE DEF after
<1>3. \A turns \in 0..n : after[turns] = IF turns = 0 THEN ParseStart ELSE ParseTurn(p, after[turns - 1])
  BY <1>1, Zenon DEF ParseRun
<1>4. ASSUME NEW turns \in 0..n, turns # 0 => Parsing(after[turns - 1])
      PROVE  Parsing(after[turns])
  <2>1. Parsing(ParseStart)
    BY DEF Parsing, ParseStart
  <2> QED
    BY <2>1, <1>3, <1>4, ParseKeeps
<1>5. ASSUME T # {} PROVE FALSE
  <2>0. T \subseteq Nat
    OBVIOUS
  <2>1. PICK k \in T : \A m \in T : k <= m
    BY <1>5, <2>0, LeastNatural, Zenon
  <2>2. k \in 0..n /\ (k # 0 => Parsing(after[k - 1]))
    BY <2>1
  <2> QED
    BY <2>1, <2>2, <1>4
<1> QED
  BY <1>2, <1>5

\* What a pattern means is that its tokens fit the whole name.
LEMMA MeansFits ==
    ASSUME NEW pattern, Len(pattern) \in Nat, NEW name, Len(name) \in Nat
    PROVE  Means(pattern, name) <=> ParseFilter(pattern).ok /\ Fits(ParseFilter(pattern).tokens, name, 0, 0)
<1> DEFINE parsed == ParseFilter(pattern)
           n == Len(parsed.tokens)
<1>1. n \in Nat
  BY ParseListed DEF Parsing
<1>2. 0 + 1..n = 1..n
  BY <1>1
<1> HIDE DEF n, parsed
<1>3. Means(pattern, name) <=>
        /\ parsed.ok
        /\ \E cut \in [0..n -> 0..Len(name)] :
             /\ cut[0] = 0 /\ cut[n] = Len(name)
             /\ \A i \in 1..n : /\ cut[i - 1] <= cut[i]
                                /\ StandsFor(parsed.tokens[i], SubSeq(name, cut[i - 1] + 1, cut[i]))
  BY Zenon DEF Means, n, parsed
<1> QED
  BY <1>2, <1>3, Zenon DEF Fits, n, parsed

\* The search and the meaning agree on every pattern and every name.
LEMMA SearchMeans ==
    ASSUME NEW pattern, Len(pattern) \in Nat, NEW name, Listed(name)
    PROVE  MatchFilter(pattern, name) <=> Means(pattern, name)
<1>1. Len(ParseFilter(pattern).tokens) \in Nat
  BY ParseListed DEF Parsing
<1>2. Len(name) \in Nat
  BY DEF Listed
<1>3. At(ParseFilter(pattern).tokens, name) <=> Fits(ParseFilter(pattern).tokens, name, 0, 0)
  BY <1>1, AtFits
<1>4. MatchFilter(pattern, name) <=> ParseFilter(pattern).ok /\ At(ParseFilter(pattern).tokens, name)
  BY DEF MatchFilter
<1> QED
  BY <1>2, <1>3, <1>4, MeansFits, Zenon

\* A filter read from a workflow of the account, and a branch name, are spelt.
LEMMA FiltersAreSpelt ==
    ASSUME IInv, phase \in Snapped, NEW s \in snap.repos, NEW w \in Files(s), NEW p \in Filtered(w)
    PROVE  p \in DOMAIN Letters
<1>1. PICK r \in case.account.repos : s = Facts(r)
  BY DEF IInv
<1>2. PICK i \in DOMAIN Cases : case \in Cases[i]
  BY DEF IInv
<1>3. s.workflows = [k \in DOMAIN r.workflows |-> ParseWorkflow(r.workflows[k].path, r.workflows[k].doc)]
  BY <1>1, FactsKeep
<1>4. PICK k \in DOMAIN r.workflows : w = ParseWorkflow(r.workflows[k].path, r.workflows[k].doc)
  BY <1>3, Zenon DEF Files
<1> QED
  BY <1>1, <1>2, <1>4, LettersAssumption, Zenon

\* A branch filter admits exactly what its syntax says, whatever the pattern and
\* the name, and however the memo cuts the search short.
THEOREM SearchIsMeaning == Spec => []FilterMeaning
<1>1. IInv => FilterMeaning
  <2> SUFFICES ASSUME IInv, phase = "collected",
                      NEW s \in snap.repos, NEW w \in Files(s), NEW p \in Filtered(w), NEW b \in Branches
               PROVE  MatchFilter(Letters[p], Letters[b]) <=> Means(Letters[p], Letters[b])
    BY DEF FilterMeaning
  <2>1. p \in DOMAIN Letters
    BY FiltersAreSpelt DEF Snapped
  <2>2. b \in DOMAIN Letters
    BY LettersAssumption
  <2>3. Len(Letters[p]) \in Nat
    BY <2>1, LettersAssumption
  <2>4. Listed(Letters[b])
    BY <2>2, LettersAssumption DEF Listed
  <2> QED
    BY <2>3, <2>4, SearchMeans
<1> QED
  BY <1>1, Invariance, PTL

-----------------------------------------------------------------------------
(* Files that were not read. *)

\* What an observation says of a repository held to it: that all is well, or
\* that something is missing.
Fine(obs) == obs.unknown \/ (~obs.pending /\ obs.ok)
Fails(obs) == ~obs.unknown /\ ~obs.pending /\ ~obs.ok

LEMMA ObservedSays ==
    ASSUME NEW ok \in BOOLEAN, NEW value
    PROVE  (Fine(Observed(ok, value)) <=> ok) /\ (Fails(Observed(ok, value)) <=> ~ok)
BY DEF Fine, Fails, Observed

LEMMA NotApplicableSays == Fine(NotApplicable) /\ ~Fails(NotApplicable)
BY DEF Fine, Fails, NotApplicable, Observed

LEMMA NoProblemsSays ==
    ASSUME NEW problems
    PROVE  /\ Fine(NoProblems(problems)) <=> problems = {}
           /\ Fails(NoProblems(problems)) <=> problems # {}
<1> DEFINE none == problems = {}
<1>1. none \in BOOLEAN /\ NoProblems(problems) = Observed(none, problems)
  BY DEF NoProblems
<1> HIDE DEF none
<1>2. (Fine(NoProblems(problems)) <=> none) /\ (Fails(NoProblems(problems)) <=> ~none)
  BY <1>1, ObservedSays
<1> QED
  BY <1>2 DEF none

LEMMA CountOfSays ==
    ASSUME NEW missing, NEW judged \in BOOLEAN
    PROVE  /\ Fine(CountOf(missing, judged)) <=> ~judged \/ missing = {}
           /\ Fails(CountOf(missing, judged)) => judged /\ missing # {}
<1> DEFINE none == missing = {}
           value == IF missing = {} THEN {} ELSE {<<"count", ToString(Cardinality(missing))>>}
<1>1. none \in BOOLEAN /\ CountOf(missing, judged) = IF ~judged THEN NotApplicable ELSE Observed(none, value)
  BY DEF CountOf
<1>2. none <=> missing = {}
  OBVIOUS
<1> HIDE DEF none, value
<1>3. CASE judged
  <2>1. CountOf(missing, judged) = Observed(none, value)
    BY <1>1, <1>3
  <2> QED
    BY <1>1, <1>2, <1>3, <2>1, ObservedSays
<1>4. CASE ~judged
  <2>1. CountOf(missing, judged) = NotApplicable
    BY <1>1, <1>4
  <2> QED
    BY <1>4, <2>1, NotApplicableSays
<1> QED
  BY <1>3, <1>4

\* The fields a reading leaves as they are.
Untouched == RepositoryFields \ {"workflows", "actions", "claude", "nixGetFlake", "goPaths", "devshell"}

\* s is r with the files that were not read saying something.
WorkflowsAs(r, s) ==
    /\ DOMAIN s.workflows = DOMAIN r.workflows
    /\ \A i \in DOMAIN r.workflows :
         /\ s.workflows[i].path = r.workflows[i].path
         /\ ~r.workflows[i].parseError => s.workflows[i] = r.workflows[i]

ActionsAs(r, s) ==
    /\ IsFiniteSet(r.actions)
    /\ \A a \in r.actions : \E b \in s.actions : b.path = a.path /\ (~a.parseError => b = a)
    /\ \A b \in s.actions : \E a \in r.actions : b.path = a.path /\ (~a.parseError => b = a)

ScansAs(r, s) ==
    /\ s.nixGetFlake = [r.nixGetFlake EXCEPT !.files = Shown(@)]
    /\ s.goPaths = [r.goPaths EXCEPT !.files = Shown(@)]
    /\ s.devshell = [r.devshell EXCEPT !.scripts = Shown(@), !.wrapper = IF @ = "unreadable" THEN "read" ELSE @]

ClaudeAs(r, s) ==
    \E content :
      /\ s.claude = ReadClaude(r.claude, content)
      /\ r.claude.unreadable => ClaudeRecorded(content) /\ ~content.unreadable

ReadAs(r, s) ==
    /\ Recorded(r)
    /\ \A k \in Untouched : s[k] = r[k]
    /\ WorkflowsAs(r, s) /\ ActionsAs(r, s) /\ ScansAs(r, s) /\ ClaudeAs(r, s)

\* The path of a file is not read from it.
LEMMA ParseKeepsPath ==
    ASSUME NEW path, NEW doc
    PROVE  ParseWorkflow(path, doc).path = path /\ ParseComposite(path, doc).path = path
<1>1. \A d : Workflow(path, d).path = path /\ {"path", "parseError"} \subseteq DOMAIN Workflow(path, d)
  BY DEF Workflow
<1>2. ParseWorkflow(path, doc).path = path
  <2>1. CASE WorkflowOK(doc)
    BY <1>1, <2>1 DEF ParseWorkflow
  <2>2. CASE ~WorkflowOK(doc)
    BY <1>1, <2>2 DEF ParseWorkflow
  <2> QED
    BY <2>1, <2>2
<1>3. ParseComposite(path, doc).path = path
  BY DEF ParseComposite
<1> QED
  BY <1>2, <1>3

LEMMA SnappedAs ==
    ASSUME IInv, phase \in Snapped, NEW s \in snap.repos
    PROVE  Recorded(s) /\ IsFiniteSet(s.actions)
<1>1. PICK r \in case.account.repos : r.name \in Configured /\ s = Facts(r)
  BY DEF IInv
<1>2. /\ \A k \in DOMAIN r \ {"type", "published", "overrides", "workflows", "actions", "renovate"} : s[k] = r[k]
      /\ DOMAIN s = DOMAIN r /\ Recorded(r)
      /\ s.actions = {ParseComposite(a.path, a.doc) : a \in r.actions}
  BY <1>1, FactsKeep, Zenon
<1>3. IsFiniteSet(s.actions)
  <2> DEFINE parsed == [a \in r.actions |-> ParseComposite(a.path, a.doc)]
  <2>1. IsFiniteSet(r.actions)
    BY <1>2 DEF Recorded
  <2>2. s.actions = {parsed[a] : a \in r.actions} /\ DOMAIN parsed = r.actions
    BY <1>2
  <2>3. parsed = [a \in DOMAIN parsed |-> parsed[a]]
    OBVIOUS
  <2> HIDE DEF parsed
  <2>4. parsed \in [r.actions -> s.actions] /\ \A t \in s.actions : \E a \in r.actions : parsed[a] = t
    BY <2>2, <2>3
  <2>5. parsed \in Surjection(r.actions, s.actions)
    BY <2>4 DEF Surjection
  <2> QED
    BY <2>1, <2>5, FS_Surjection DEF ExistsSurjection
<1>4. s.claude = r.claude /\ s.nixGetFlake = r.nixGetFlake /\ s.goPaths = r.goPaths /\ s.devshell = r.devshell
  BY <1>2 DEF Recorded, RepositoryFields
<1> QED
  BY <1>2, <1>3, <1>4 DEF Recorded

\* The fields of a reading.
FieldsRead(r, s, workflows, composites, contents) ==
    /\ \A k \in Untouched : s[k] = r[k]
    /\ s.workflows = [i \in DOMAIN r.workflows |->
                        IF r.workflows[i].parseError
                          THEN ParseWorkflow(r.workflows[i].path, workflows[<<r.name, r.workflows[i].path>>])
                          ELSE r.workflows[i]]
    /\ s.actions = {IF a.parseError THEN ParseComposite(a.path, composites[<<r.name, a.path>>]) ELSE a : a \in r.actions}
    /\ s.claude = ReadClaude(r.claude, contents[r.name])
    /\ ScansAs(r, s)

LEMMA ReadingSets ==
    ASSUME NEW r, Recorded(r), NEW workflows, NEW composites, NEW contents
    PROVE  FieldsRead(r, Reading(r, workflows, composites, contents), workflows, composites, contents)
<1> DEFINE s == Reading(r, workflows, composites, contents)
           at == [i \in DOMAIN r.workflows |->
                    IF r.workflows[i].parseError
                      THEN ParseWorkflow(r.workflows[i].path, workflows[<<r.name, r.workflows[i].path>>])
                      ELSE r.workflows[i]]
           read == {IF a.parseError THEN ParseComposite(a.path, composites[<<r.name, a.path>>]) ELSE a : a \in r.actions}
           claude == ReadClaude(r.claude, contents[r.name])
           files == Shown(r.nixGetFlake.files)
           gofiles == Shown(r.goPaths.files)
           scripts == Shown(r.devshell.scripts)
<1>1. s = [r EXCEPT !.workflows = at, !.actions = read, !.claude = claude, !.nixGetFlake.files = files,
                    !.goPaths.files = gofiles, !.devshell.scripts = scripts,
                    !.devshell.wrapper = IF @ = "unreadable" THEN "read" ELSE @]
  BY Zenon DEF Reading
<1> HIDE DEF at, read, claude, files, gofiles, scripts, s
<1>2. /\ {"workflows", "actions", "claude", "nixGetFlake", "goPaths", "devshell"} \subseteq DOMAIN r
      /\ Untouched \subseteq DOMAIN r
      /\ {"nixFiles", "tooMany", "files"} \subseteq DOMAIN r.nixGetFlake
      /\ {"tooMany", "files"} \subseteq DOMAIN r.goPaths
      /\ {"tooMany", "scripts", "wrapper", "wrapperLines"} \subseteq DOMAIN r.devshell
  BY DEF Recorded, RepositoryFields, Untouched
<1>3. \A k \in Untouched : s[k] = r[k]
  BY <1>1, <1>2 DEF Untouched
<1>4. /\ s.workflows = at /\ s.actions = read /\ s.claude = claude
      /\ s.nixGetFlake = [r.nixGetFlake EXCEPT !.files = files]
      /\ s.goPaths = [r.goPaths EXCEPT !.files = gofiles]
  BY <1>1, <1>2
<1>5. s.devshell = [r.devshell EXCEPT !.scripts = scripts, !.wrapper = IF @ = "unreadable" THEN "read" ELSE @]
  BY <1>1, <1>2
<1> QED
  BY <1>3, <1>4, <1>5 DEF FieldsRead, ScansAs, at, read, claude, files, gofiles, scripts, s

LEMMA ReadingIsReadAs ==
    ASSUME IInv, phase \in Snapped, NEW read \in Readings, NEW r \in snap.repos
    PROVE  ReadAs(r, read[r])
<1>1. PICK workflows \in [UnreadWorkflows -> Documents], composites \in [UnreadComposites -> Documents],
           contents \in [UnreadClaudes -> Contents] :
         read = [q \in snap.repos |-> Reading(q, workflows, composites, contents)]
  BY DEF Readings
<1> DEFINE s == read[r]
<1>2. s = Reading(r, workflows, composites, contents)
  BY <1>1
<1> HIDE DEF s
<1>3. Recorded(r) /\ IsFiniteSet(r.actions)
  BY SnappedAs
<1>4. FieldsRead(r, s, workflows, composites, contents)
  BY <1>2, <1>3, ReadingSets
<1>5. WorkflowsAs(r, s)
  <2> DEFINE shown(w) == IF w.parseError THEN ParseWorkflow(w.path, workflows[<<r.name, w.path>>]) ELSE w
  <2>1. s.workflows = [i \in DOMAIN r.workflows |-> shown(r.workflows[i])]
    BY <1>4, Zenon DEF FieldsRead
  <2>2. \A w : shown(w).path = w.path /\ (~w.parseError => shown(w) = w)
    BY ParseKeepsPath
  <2> HIDE DEF shown
  <2> QED
    BY <2>1, <2>2 DEF WorkflowsAs
<1>6. ActionsAs(r, s)
  <2> DEFINE shown(a) == IF a.parseError THEN ParseComposite(a.path, composites[<<r.name, a.path>>]) ELSE a
  <2>1. s.actions = {shown(a) : a \in r.actions}
    BY <1>4 DEF FieldsRead
  <2>2. \A a : shown(a).path = a.path /\ (~a.parseError => shown(a) = a)
    BY ParseKeepsPath
  <2> HIDE DEF shown
  <2> QED
    BY <1>3, <2>1, <2>2 DEF ActionsAs
<1>7. ClaudeAs(r, s)
  <2>1. r.claude.unreadable => ClaudeRecorded(contents[r.name]) /\ ~contents[r.name].unreadable
    <3> SUFFICES ASSUME r.claude.unreadable
                 PROVE  ClaudeRecorded(contents[r.name]) /\ ~contents[r.name].unreadable
      OBVIOUS
    <3>1. r.name \in UnreadClaudes
      BY DEF UnreadClaudes
    <3> QED
      BY <3>1, ContentsAssumption
  <2> QED
    BY <1>4, <2>1 DEF ClaudeAs, FieldsRead
<1> QED
  BY <1>3, <1>4, <1>5, <1>6, <1>7 DEF ReadAs, FieldsRead, s

LEMMA HeldAlike ==
    ASSUME NEW r, NEW s, ReadAs(r, s), NEW c, NEW spec, NEW public
    PROVE  Held(c, spec, s, public) = Held(c, spec, r, public)
<1>1. s.overrides = r.overrides /\ s.published = r.published
  BY DEF ReadAs, Untouched, RepositoryFields
<1> QED
  BY <1>1, Zenon DEF Held

LEMMA RulesetsAlike ==
    ASSUME NEW r, NEW s, ReadAs(r, s), NEW target
    PROVE  ActiveRulesets(s, target) = ActiveRulesets(r, target)
<1> DEFINE active(rulesets) == SelectSeq(rulesets, LAMBDA x : x.target = target /\ x.enforcement = "ACTIVE")
<1>1. ActiveRulesets(s, target) = active(s.rulesets) /\ ActiveRulesets(r, target) = active(r.rulesets)
  BY DEF ActiveRulesets
<1>2. s.rulesets = r.rulesets
  BY DEF ReadAs, Untouched, RepositoryFields
<1> HIDE DEF active
<1> QED
  BY <1>1, <1>2

LEMMA PushedAlike ==
    ASSUME NEW r, NEW s, ReadAs(r, s)
    PROVE  ObserveDirectPush(s) = ObserveDirectPush(r)
<1>1. s.branch = r.branch
  BY DEF ReadAs, Untouched, RepositoryFields
<1> QED
  BY <1>1, RulesetsAlike, Zenon DEF ObserveDirectPush

\* The repositories a reading is judged as: fields no file was read for.
LEMMA FieldsAlike ==
    ASSUME NEW r, NEW s, ReadAs(r, s)
    PROVE  /\ s.name = r.name /\ s.type = r.type /\ s.published = r.published /\ s.overrides = r.overrides
           /\ s.visibility = r.visibility /\ s.description = r.description /\ s.homepage = r.homepage
           /\ s.license = r.license /\ s.topics = r.topics /\ s.empty = r.empty
           /\ s.identities = r.identities /\ s.files = r.files /\ s.present = r.present
           /\ s.renovate = r.renovate /\ s.dashboard = r.dashboard /\ s.flake = r.flake
           /\ s.releases = r.releases /\ s.rulesets = r.rulesets /\ s.branch = r.branch
           /\ s.settings = r.settings /\ s.ciState = r.ciState /\ s.lastDefaultRun = r.lastDefaultRun
           /\ s.storage = r.storage /\ s.defaultBranch = r.defaultBranch
BY DEF ReadAs, Untouched, RepositoryFields

LEMMA RealWorkflowAlike ==
    ASSUME NEW r, NEW s, ReadAs(r, s)
    PROVE  HasRealWorkflow(s) <=> HasRealWorkflow(r)
<1>1. /\ DOMAIN s.workflows = DOMAIN r.workflows
      /\ \A i \in DOMAIN r.workflows : s.workflows[i].path = r.workflows[i].path
  BY DEF ReadAs, WorkflowsAs
<1> QED
  BY <1>1 DEF HasRealWorkflow, Files, IsMergeGate

\* What is observed of a repository's settings does not turn on its files.
LEMMA RepositoryAlike ==
    ASSUME NEW r, NEW s, ReadAs(r, s), NEW c
    PROVE  ObserveRepository(c, s) = ObserveRepository(c, r)
<1>1. (HasRealWorkflow(s) <=> HasRealWorkflow(r)) /\ HasRealWorkflow(s) \in BOOLEAN /\ HasRealWorkflow(r) \in BOOLEAN
  BY RealWorkflowAlike DEF HasRealWorkflow
<1>2. Has(HasRealWorkflow(s)) = Has(HasRealWorkflow(r))
  <2> DEFINE a == HasRealWorkflow(s)
             b == HasRealWorkflow(r)
  <2>1. a = b
    BY <1>1
  <2> HIDE DEF a, b
  <2>2. Has(a) = Has(b)
    BY <2>1
  <2> QED
    BY <2>2 DEF a, b
<1>3. TagRuleset(s) = TagRuleset(r)
  BY RulesetsAlike, Zenon DEF TagRuleset
<1>4. /\ RequiredChecks(s) = RequiredChecks(r) /\ UpToDate(s) = UpToDate(r) /\ CIGreen(s) = CIGreen(r)
      /\ RenovateDashboard(s) = RenovateDashboard(r) /\ AutomergeMajor(s) = AutomergeMajor(r)
  <2>1. /\ s.branch = r.branch /\ s.ciState = r.ciState /\ s.files = r.files
        /\ s.settings = r.settings /\ s.dashboard = r.dashboard /\ s.renovate = r.renovate
    BY FieldsAlike
  <2>2. RequiredChecks(s) = RequiredChecks(r)
    BY <2>1, Zenon DEF RequiredChecks
  <2>3. UpToDate(s) = UpToDate(r)
    BY <2>1, Zenon DEF UpToDate
  <2>4. CIGreen(s) = CIGreen(r)
    BY <2>1, Zenon DEF CIGreen
  <2>5. RenovateDashboard(s) = RenovateDashboard(r)
    BY <2>1, Zenon DEF RenovateDashboard
  <2>6. AutomergeMajor(s) = AutomergeMajor(r)
    BY <2>1, Zenon DEF AutomergeMajor
  <2> QED
    BY <2>2, <2>3, <2>4, <2>5, <2>6
<1>5. CASE c = "community_files"
  <2> DEFINE found(present) == Cardinality({f \in CommunityFiles : present[f]})
             all == Cardinality(CommunityFiles)
  <2>1. \A q : ObserveRepository(c, q) = Observed(found(q.present) = all, Number(found(q.present)))
    BY <1>5 DEF ObserveRepository, PresentChecks
  <2> HIDE DEF found, all
  <2>2. s.present = r.present
    BY FieldsAlike
  <2> QED
    BY <2>1, <2>2
<1>6. CASE c = "ci_workflows"
  BY <1>2, <1>6 DEF ObserveRepository, PresentChecks
<1>7. CASE c \in {"tag_ruleset", "required_checks", "branch_up_to_date", "ci_green", "renovate_dashboard", "renovate_automerge_major"}
  BY <1>3, <1>4, <1>7 DEF ObserveRepository, PresentChecks
<1>8. CASE c \in {"description", "homepage", "license", "topics", "signed_commits", "secret_scanning", "vuln_reporting", "releases"}
  <2>1. /\ c = "description" => \A q : ObserveRepository(c, q) = Has(q.description)
        /\ c = "homepage" => \A q : ObserveRepository(c, q) = Has(q.homepage)
        /\ c = "license" => \A q : ObserveRepository(c, q) = Observed(q.license \notin {"", "NOASSERTION"}, {<<q.license>>})
        /\ c = "topics" => \A q : ObserveRepository(c, q) = Observed(q.topics > 0, Number(q.topics))
    BY DEF ObserveRepository, PresentChecks
  <2>3. /\ s.description = r.description /\ s.homepage = r.homepage /\ s.license = r.license /\ s.topics = r.topics
        /\ s.branch = r.branch /\ s.settings = r.settings /\ s.releases = r.releases
    BY FieldsAlike
  <2>4. CASE c = "description"
    BY <2>1, <2>3, <2>4, Zenon
  <2>5. CASE c = "homepage"
    BY <2>1, <2>3, <2>5, Zenon
  <2>6. CASE c = "license"
    BY <2>1, <2>3, <2>6, Zenon
  <2>7. CASE c = "topics"
    BY <2>1, <2>3, <2>7, Zenon
  <2>8. CASE c = "signed_commits"
    <3> DEFINE seen(branch) == IF branch.known THEN Has("required_signatures" \in branch.types) ELSE NotApplicable
    <3>1. \A q : ObserveRepository(c, q) = seen(q.branch)
      BY <2>8 DEF ObserveRepository, PresentChecks
    <3> HIDE DEF seen
    <3> QED
      BY <2>3, <3>1
  <2>9. CASE c = "secret_scanning"
    <3> DEFINE seen(settings) == IF settings.secretScanning = "" THEN NotApplicable ELSE Has(settings.secretScanning = "enabled")
    <3>1. \A q : ObserveRepository(c, q) = seen(q.settings)
      BY <2>9 DEF ObserveRepository, PresentChecks
    <3> HIDE DEF seen
    <3> QED
      BY <2>3, <3>1
  <2>10. CASE c = "vuln_reporting"
    <3> DEFINE seen(settings) == IF settings.vulnReporting = "unread" THEN NotApplicable ELSE Has(settings.vulnReporting = "on")
    <3>1. \A q : ObserveRepository(c, q) = seen(q.settings)
      BY <2>10 DEF ObserveRepository, PresentChecks
    <3> HIDE DEF seen
    <3> QED
      BY <2>3, <3>1
  <2>11. CASE c = "releases"
    <3> DEFINE seen(releases) == Observed(releases.total > releases.drafts, Number(releases.total - releases.drafts))
    <3>1. \A q : ObserveRepository(c, q) = seen(q.releases)
      BY <2>11 DEF ObserveRepository, PresentChecks
    <3> HIDE DEF seen
    <3> QED
      BY <2>3, <3>1
  <2> QED
    BY <1>8, <2>4, <2>5, <2>6, <2>7, <2>8, <2>9, <2>10, <2>11
<1>9. CASE c \in DOMAIN PresentChecks
  <2>1. c \in {"readme", "gitignore", "editorconfig", "flake_nix", "changelog"}
    BY <1>9 DEF PresentChecks
  <2>2. \A q : ObserveRepository(c, q) = Has(q.present[PresentChecks[c]])
    BY <2>1 DEF ObserveRepository, PresentChecks
  <2>3. s.present = r.present
    BY FieldsAlike
  <2> QED
    BY <2>2, <2>3
<1> DEFINE named == {"community_files", "ci_workflows"}
             \cup {"tag_ruleset", "required_checks", "branch_up_to_date", "ci_green", "renovate_dashboard", "renovate_automerge_major"}
             \cup {"description", "homepage", "license", "topics", "signed_commits", "secret_scanning", "vuln_reporting", "releases"}
             \cup DOMAIN PresentChecks
<1>10. CASE c \notin named
  <2>1. \A q : ObserveRepository(c, q) = Has(FALSE)
    BY <1>10 DEF ObserveRepository
  <2> QED
    BY <2>1, Zenon
<1> QED
  BY <1>5, <1>6, <1>7, <1>8, <1>9, <1>10

LEMMA IdentityAlike ==
    ASSUME NEW r, NEW s, ReadAs(r, s), NEW std
    PROVE  GitIdentity(s, std) = GitIdentity(r, std)
<1> DEFINE mine(ids) == Mine(std, ids)
           wrong(ids) == {id \in mine(ids) : Kind(std, id) = "wrong"}
           seen(empty, ids) ==
             IF empty \/ mine(ids) = {} THEN NotApplicable
             ELSE Observed(wrong(ids) = {}, IF wrong(ids) = {} THEN {} ELSE Number(Cardinality(wrong(ids))))
<1>1. GitIdentity(s, std) = seen(s.empty, s.identities) /\ GitIdentity(r, std) = seen(r.empty, r.identities)
  BY DEF GitIdentity
<1> HIDE DEF seen
<1> QED
  BY <1>1, FieldsAlike

LEMMA SameIsKept == \A obs : Fine(obs) => ~Fails(obs)
BY DEF Fine, Fails

LEMMA CachesAlike ==
    ASSUME NEW r, NEW s, ReadAs(r, s)
    PROVE  /\ \A tool : CacheFamilies(s, tool) = CacheFamilies(r, tool)
           /\ RecentDefaultRun(s) <=> RecentDefaultRun(r)
<1>1. s.storage = r.storage /\ s.defaultBranch = r.defaultBranch /\ s.lastDefaultRun = r.lastDefaultRun
  BY FieldsAlike
<1>2. ASSUME NEW tool PROVE CacheFamilies(s, tool) = CacheFamilies(r, tool)
  <2> DEFINE mine(caches, ref) == {c \in caches : c.ref = ref /\ c.tool = tool}
             newest(caches, ref) ==
               {c \in mine(caches, ref) : \A d \in mine(caches, ref) : d.family = c.family => d.created <= c.created}
  <2>1. \A q : CacheFamilies(q, tool) = newest(q.storage.caches, "refs/heads/" \o q.defaultBranch)
    BY DEF CacheFamilies
  <2> HIDE DEF newest
  <2> QED
    BY <1>1, <2>1, Zenon
<1> QED
  BY <1>1, <1>2 DEF RecentDefaultRun

LEMMA UsageAlike ==
    ASSUME NEW r, NEW s, ReadAs(r, s)
    PROVE  CacheUsage(s) = CacheUsage(r) /\ GoCache(s) = GoCache(r) /\ LockAge(s) = LockAge(r)
<1>1. /\ s.storage = r.storage /\ s.flake = r.flake /\ s.present = r.present
      /\ CacheFamilies(s, "go") = CacheFamilies(r, "go") /\ (RecentDefaultRun(s) <=> RecentDefaultRun(r))
  BY FieldsAlike, CachesAlike
<1>2. CacheUsage(s) = CacheUsage(r)
  BY <1>1, Zenon DEF CacheUsage
<1>3. LockAge(s) = LockAge(r)
  BY <1>1, Zenon DEF LockAge
<1>4. GoCache(s) = GoCache(r)
  <2> DEFINE seen(families) == Observed(families # {} /\ \A f \in families : f.size >= CacheFloor,
                                        IF families = {} THEN {<<"none on main">>} ELSE {<<"size">>})
  <2>1. \A q : GoCache(q) = IF ~q.present["go_mod"] \/ ~RecentDefaultRun(q) THEN NotApplicable
                            ELSE seen(CacheFamilies(q, "go"))
    BY DEF GoCache
  <2> HIDE DEF seen
  <2> QED
    BY <1>1, <2>1
<1> QED
  BY <1>2, <1>3, <1>4

-----------------------------------------------------------------------------
(* Triggers: a workflow that was read and runs is still there. *)

LEMMA TriggerKept ==
    ASSUME NEW r, NEW s, ReadAs(r, s), NEW was, NEW is, was \cap Files(s) \subseteq is,
           Fine(ObserveTrigger(r, was))
    PROVE  ~Fails(ObserveTrigger(s, is))
<1> DEFINE real(q) == {i \in DOMAIN q.workflows : ~IsMergeGate(q.workflows[i])}
           unreadable(q) == {i \in real(q) : q.workflows[i].parseError}
           first(q) == CHOOSE i \in unreadable(q) : \A k \in unreadable(q) : i <= k
           names(q) == IF unreadable(q) = {} THEN {} ELSE Unreadable({q.workflows[first(q)].path})
           running(q, runs) == \E i \in real(q) \ unreadable(q) : q.workflows[i] \in runs
<1>1. \A q, runs : ObserveTrigger(q, runs) = IF running(q, runs) THEN Observed(TRUE, {}) ELSE Observed(FALSE, names(q))
  BY DEF ObserveTrigger
<1>2. running(r, was) => running(s, is)
  <2> SUFFICES ASSUME NEW i \in real(r) \ unreadable(r), r.workflows[i] \in was PROVE running(s, is)
    OBVIOUS
  <2>1. i \in DOMAIN s.workflows /\ s.workflows[i] = r.workflows[i]
    BY DEF ReadAs, WorkflowsAs
  <2>2. s.workflows[i] \in is
    BY <2>1 DEF Files
  <2> QED
    BY <2>1, <2>2
<1> HIDE DEF running, names
<1>3. running(r, was)
  <2> SUFFICES ASSUME ~running(r, was) PROVE FALSE
    OBVIOUS
  <2>1. ObserveTrigger(r, was) = Observed(FALSE, names(r))
    BY <1>1
  <2> QED
    BY <2>1, ObservedSays
<1>4. ObserveTrigger(s, is) = Observed(TRUE, {})
  BY <1>1, <1>2, <1>3
<1> QED
  BY <1>4, ObservedSays

LEMMA TriggersKept ==
    ASSUME NEW r, NEW s, ReadAs(r, s)
    PROVE  /\ Fine(CIOnPR(r)) => ~Fails(CIOnPR(s))
           /\ Fine(CIOnPush(r)) => ~Fails(CIOnPush(s))
<1> DEFINE base == r.defaultBranch
           pr(q) == {w \in Files(q) : RunsOnSynchronize(w, base)}
           push(q) == {w \in Files(q) : RunsOnSynchronize(w, base) /\ PushAdmits(w, base)}
<1>1. s.defaultBranch = r.defaultBranch
  BY FieldsAlike
<1>2. /\ CIOnPR(r) = ObserveTrigger(r, pr(r)) /\ CIOnPR(s) = ObserveTrigger(s, pr(s))
      /\ CIOnPush(r) = ObserveTrigger(r, push(r)) /\ CIOnPush(s) = ObserveTrigger(s, push(s))
  BY <1>1, Zenon DEF CIOnPR, CIOnPush
<1>3. pr(r) \cap Files(s) \subseteq pr(s) /\ push(r) \cap Files(s) \subseteq push(s)
  OBVIOUS
<1> HIDE DEF pr, push
<1> QED
  BY <1>2, <1>3, TriggerKept

-----------------------------------------------------------------------------
(* Files: nothing changes where everything was read. *)

LEMMA FilesKept ==
    ASSUME NEW r, NEW s, ReadAs(r, s)
    PROVE  ReadFiles(r) \subseteq ReadFiles(s)
BY DEF ReadAs, WorkflowsAs, ReadFiles, Files

LEMMA AllFilesKept ==
    ASSUME NEW r, NEW s, ReadAs(r, s), UnreadableFiles(r) = {}
    PROVE  ReadFiles(s) = ReadFiles(r) /\ UnreadableFiles(s) = {}
<1>1. \A i \in DOMAIN r.workflows : ~r.workflows[i].parseError
  BY DEF UnreadableFiles, Files
<1>2. DOMAIN s.workflows = DOMAIN r.workflows /\ \A i \in DOMAIN r.workflows : s.workflows[i] = r.workflows[i]
  BY <1>1 DEF ReadAs, WorkflowsAs
<1>3. Files(s) = Files(r)
  BY <1>2 DEF Files
<1> QED
  BY <1>3 DEF ReadFiles, UnreadableFiles

LEMMA NothingUnreadable == \A paths : Unreadable(paths) = {} <=> paths = {}
BY DEF Unreadable

\* The two counts of what a workflow lacks.
LEMMA CountsKept ==
    ASSUME NEW r, NEW s, ReadAs(r, s)
    PROVE  /\ Fine(CancelSuperseded(r)) => ~Fails(CancelSuperseded(s))
           /\ Fine(JobTimeouts(r)) => ~Fails(JobTimeouts(s))
<1>1. s.defaultBranch = r.defaultBranch
  BY FieldsAlike
<1>2. Fine(CancelSuperseded(r)) => ~Fails(CancelSuperseded(s))
  <2> DEFINE runs(q) == {w \in ReadFiles(q) : RunsOnSynchronize(w, q.defaultBranch)}
             missing(q) == Unreadable(UnreadableFiles(q)) \cup {<<w.path>> : w \in {f \in runs(q) : ~CancelsSuperseded(f)}}
             judged(q) == UnreadableFiles(q) # {} \/ runs(q) # {}
  <2>1. \A q : CancelSuperseded(q) = CountOf(missing(q), judged(q)) /\ judged(q) \in BOOLEAN
    BY DEF CancelSuperseded, CancelMissing
  <2>2. \A q : missing(q) = {} \/ ~judged(q) => UnreadableFiles(q) = {}
    BY NothingUnreadable
  <2>3. UnreadableFiles(r) = {} => missing(s) = missing(r) /\ (judged(s) <=> judged(r))
    BY <1>1, AllFilesKept
  <2> HIDE DEF missing, judged
  <2> QED
    BY <2>1, <2>2, <2>3, CountOfSays
<1>3. Fine(JobTimeouts(r)) => ~Fails(JobTimeouts(s))
  <2> DEFINE own(q) == UNION {{<<w.path, j>> : j \in {k \in Jobs(w) : ~k.reusable}} : w \in ReadFiles(q)}
             missing(q) == Unreadable(UnreadableFiles(q)) \cup {<<o[1], o[2].id>> : o \in {x \in own(q) : x[2].timeout = ""}}
             judged(q) == UnreadableFiles(q) # {} \/ own(q) # {}
  <2>1. \A q : JobTimeouts(q) = CountOf(missing(q), judged(q)) /\ judged(q) \in BOOLEAN
    BY Zenon DEF JobTimeouts, TimeoutMissing
  <2>2. \A q : missing(q) = {} \/ ~judged(q) => UnreadableFiles(q) = {}
    <3> HIDE DEF own
    <3> QED
      BY NothingUnreadable
  <2>3. UnreadableFiles(r) = {} => own(s) = own(r) /\ UnreadableFiles(s) = {}
    BY AllFilesKept, Zenon
  <2>4. UnreadableFiles(r) = {} => missing(s) = missing(r) /\ (judged(s) <=> judged(r))
    <3> HIDE DEF own
    <3> QED
      BY <2>3
  <2> HIDE DEF missing, judged
  <2> QED
    BY <2>1, <2>2, <2>4, CountOfSays
<1> QED
  BY <1>2, <1>3

-----------------------------------------------------------------------------
(* Composites. *)

\* A local uses: names the same composites, whatever they say.
LEMMA CompositesKept ==
    ASSUME NEW r, NEW s, ReadAs(r, s), NEW uses
    PROVE  /\ \A a \in Composites(r, uses) : ~a.parseError => a \in Composites(s, uses)
           /\ \A b \in Composites(s, uses) : \E a \in Composites(r, uses) : b.path = a.path /\ (~a.parseError => b = a)
           /\ Composites(s, uses) = {} <=> Composites(r, uses) = {}
<1> DEFINE dir == ActionRef[uses].dir
           at(q, name) == {a \in q.actions : dir # "" /\ a.path = <<dir, name>>}
<1>1. \A q : Composites(q, uses) = IF at(q, "action.yml") # {} THEN at(q, "action.yml") ELSE at(q, "action.yaml")
  BY DEF Composites
<1>2. ASSUME NEW name
      PROVE  /\ \A a \in at(r, name) : \E b \in at(s, name) : b.path = a.path /\ (~a.parseError => b = a)
             /\ \A b \in at(s, name) : \E a \in at(r, name) : b.path = a.path /\ (~a.parseError => b = a)
  <2>1. /\ \A a \in r.actions : \E b \in s.actions : b.path = a.path /\ (~a.parseError => b = a)
        /\ \A b \in s.actions : \E a \in r.actions : b.path = a.path /\ (~a.parseError => b = a)
    BY DEF ReadAs, ActionsAs
  <2>2. ASSUME NEW a \in at(r, name)
        PROVE  \E b \in at(s, name) : b.path = a.path /\ (~a.parseError => b = a)
    <3>1. PICK b \in s.actions : b.path = a.path /\ (~a.parseError => b = a)
      BY <2>1
    <3> QED
      BY <3>1
  <2>3. ASSUME NEW b \in at(s, name)
        PROVE  \E a \in at(r, name) : b.path = a.path /\ (~a.parseError => b = a)
    <3>1. PICK a \in r.actions : b.path = a.path /\ (~a.parseError => b = a)
      BY <2>1
    <3> QED
      BY <3>1
  <2> QED
    BY <2>2, <2>3
<1> HIDE DEF at
<1>3. ASSUME NEW name PROVE at(s, name) = {} <=> at(r, name) = {}
  BY <1>2
<1>4. PICK name : Composites(r, uses) = at(r, name) /\ Composites(s, uses) = at(s, name)
  BY <1>1, <1>3
<1> QED
  BY <1>2, <1>3, <1>4

LEMMA CompositesSame ==
    ASSUME NEW r, NEW s, ReadAs(r, s), NEW uses, \A a \in Composites(r, uses) : ~a.parseError
    PROVE  Composites(s, uses) = Composites(r, uses)
<1>1. Composites(r, uses) \subseteq Composites(s, uses)
  BY CompositesKept
<1>2. ASSUME NEW b \in Composites(s, uses) PROVE b \in Composites(r, uses)
  <2>1. PICK a \in Composites(r, uses) : b.path = a.path /\ (~a.parseError => b = a)
    BY CompositesKept
  <2> QED
    BY <2>1
<1> QED
  BY <1>1, <1>2

-----------------------------------------------------------------------------
(* The steps of a job. *)

\* Where every file on the way was read, a job has the steps it had.
LEMMA StepsKept ==
    ASSUME NEW r, NEW s, ReadAs(r, s), NEW w, NEW j, Reached(r, w, j).unreadable = {}
    PROVE  Reached(s, w, j) = Reached(r, w, j)
<1> DEFINE used == {j.uses[i] : i \in DOMAIN j.uses}
           local(q) == UNION {Composites(q, u.action) : u \in used}
           reached(all) ==
             [steps |-> {<<u, w.path>> : u \in used} \cup
                        UNION {{<<ca.uses[i], ca.path[1]>> : i \in DOMAIN ca.uses} :
                                 ca \in {c \in all : ~c.parseError}},
              composites |-> all,
              unreadable |-> {ca.path[1] : ca \in {c \in all : c.parseError}}]
<1>1. \A q : Reached(q, w, j) = reached(local(q))
  BY DEF Reached
<1>2. \A all : reached(all).unreadable = {ca.path[1] : ca \in {c \in all : c.parseError}}
  OBVIOUS
<1> HIDE DEF reached
<1>3. \A c \in local(r) : ~c.parseError
  <2> HIDE DEF local
  <2> SUFFICES ASSUME NEW c \in local(r), c.parseError PROVE FALSE
    OBVIOUS
  <2>1. Reached(r, w, j).unreadable = {ca.path[1] : ca \in {x \in local(r) : x.parseError}}
    BY <1>1, <1>2
  <2>2. c.path[1] \in Reached(r, w, j).unreadable
    BY <2>1
  <2> QED
    BY <2>2
<1>4. \A u \in used : Composites(s, u.action) = Composites(r, u.action)
  BY <1>3, CompositesSame
<1>5. local(s) = local(r)
  <2>1. {Composites(s, u.action) : u \in used} = {Composites(r, u.action) : u \in used}
    <3> HIDE DEF used
    <3> QED
      BY <1>4
  <2> QED
    BY <2>1, Zenon
<1> HIDE DEF local
<1> QED
  BY <1>1, <1>5

LEMMA AllStepsKept ==
    ASSUME NEW r, NEW s, ReadAs(r, s), UnreadFiles(r) = {}
    PROVE  /\ JobsOf(s) = JobsOf(r) /\ UnreadFiles(s) = {}
           /\ \A x \in JobsOf(r) : Reached(s, x[1], x[2]) = Reached(r, x[1], x[2])
           /\ AllSteps(s) = AllSteps(r)
<1>1. UnreadableFiles(r) = {} /\ \A x \in JobsOf(r) : Reached(r, x[1], x[2]).unreadable = {}
  BY DEF UnreadFiles
<1>2. JobsOf(s) = JobsOf(r) /\ UnreadableFiles(s) = {}
  BY <1>1, AllFilesKept, Zenon DEF JobsOf
<1>3. \A x \in JobsOf(r) : Reached(s, x[1], x[2]) = Reached(r, x[1], x[2])
  BY <1>1, StepsKept
<1>4. AllSteps(s) = AllSteps(r)
  BY <1>2, <1>3 DEF AllSteps
<1>5. UnreadFiles(s) = {}
  BY <1>1, <1>2, <1>3 DEF UnreadFiles
<1> QED
  BY <1>2, <1>3, <1>4, <1>5

LEMMA GrantsAlike ==
    ASSUME NEW r, NEW s, ReadAs(r, s), NEW w, NEW j
    PROVE  GrantsActionsWrite(s, w, j) <=> GrantsActionsWrite(r, w, j)
<1>1. s.settings = r.settings
  BY FieldsAlike
<1> QED
  BY <1>1 DEF GrantsActionsWrite

LEMMA CacheNixStepsKept ==
    ASSUME NEW r, NEW s, ReadAs(r, s), UnreadFiles(r) = {}
    PROVE  CacheNixSteps(s) = CacheNixSteps(r)
<1> DEFINE found(q, x) ==
             {[u |-> y[1], write |-> GrantsActionsWrite(q, x[1], x[2])] :
                y \in {z \in Reached(q, x[1], x[2]).steps : UsesAction(z[1].action, CacheNix)}}
<1>1. \A q : CacheNixSteps(q) = UNION {found(q, x) : x \in JobsOf(q)}
  BY DEF CacheNixSteps
<1>2. ASSUME NEW x \in JobsOf(r) PROVE found(s, x) = found(r, x)
  <2> DEFINE of(steps, grants) == {[u |-> y[1], write |-> grants] : y \in {z \in steps : UsesAction(z[1].action, CacheNix)}}
             grants(q) == GrantsActionsWrite(q, x[1], x[2])
  <2>1. \A q : found(q, x) = of(Reached(q, x[1], x[2]).steps, grants(q))
    OBVIOUS
  <2>2. Reached(s, x[1], x[2]) = Reached(r, x[1], x[2])
    BY AllStepsKept
  <2>3. grants(s) = grants(r)
    <3>1. (grants(s) <=> grants(r)) /\ grants(s) \in BOOLEAN /\ grants(r) \in BOOLEAN
      BY GrantsAlike DEF GrantsActionsWrite
    <3> HIDE DEF grants
    <3> QED
      BY <3>1
  <2> HIDE DEF of, grants, found
  <2> QED
    BY <2>1, <2>2, <2>3
<1>3. JobsOf(s) = JobsOf(r)
  BY AllStepsKept
<1> HIDE DEF found
<1> QED
  BY <1>1, <1>2, <1>3

LEMMA NixCacheKept ==
    ASSUME NEW r, NEW s, ReadAs(r, s), Fine(NixCache(r))
    PROVE  ~Fails(NixCache(s))
<1> DEFINE problems(q) == CacheNixProblems(CacheNixSteps(q), UnreadFiles(q))
           inRange(families) == \A f \in families : CacheFloor <= f.size /\ f.size <= NixCacheCeiling
           judged(families, wrong) ==
             Observed(families # {} /\ inRange(families) /\ wrong = {},
                      wrong \cup IF families = {} THEN {<<"none on main">>} ELSE {<<"size">>})
           applies(q) == q.present["flake_nix"] /\ RecentDefaultRun(q)
<1>1. \A q : NixCache(q) = IF ~applies(q) THEN NotApplicable ELSE judged(CacheFamilies(q, "nix"), problems(q))
  BY DEF NixCache
<1>2. s.present = r.present /\ CacheFamilies(s, "nix") = CacheFamilies(r, "nix")
      /\ (RecentDefaultRun(s) <=> RecentDefaultRun(r))
  BY FieldsAlike, CachesAlike
<1>3. applies(s) <=> applies(r)
  BY <1>2
<1>4. \A families, wrong : Fine(judged(families, wrong)) => wrong = {}
  <2> SUFFICES ASSUME NEW families, NEW wrong, Fine(judged(families, wrong)) PROVE wrong = {}
    OBVIOUS
  <2> DEFINE ok == families # {} /\ inRange(families) /\ wrong = {}
             value == wrong \cup IF families = {} THEN {<<"none on main">>} ELSE {<<"size">>}
  <2>1. ok \in BOOLEAN /\ judged(families, wrong) = Observed(ok, value) /\ (ok => wrong = {})
    OBVIOUS
  <2> HIDE DEF ok, value, judged
  <2> QED
    BY <2>1, ObservedSays
<1>5. problems(r) = {} => UnreadFiles(r) = {}
  BY NothingUnreadable DEF CacheNixProblems
<1>6. UnreadFiles(r) = {} => problems(s) = problems(r)
  BY CacheNixStepsKept, AllStepsKept
<1> HIDE DEF problems, judged, applies
<1>7. CASE applies(r)
  <2>1. NixCache(r) = judged(CacheFamilies(r, "nix"), problems(r))
    BY <1>1, <1>7
  <2>2. problems(s) = problems(r)
    BY <1>4, <1>5, <1>6, <2>1
  <2>3. NixCache(s) = NixCache(r)
    BY <1>1, <1>2, <1>3, <1>7, <2>2
  <2> QED
    BY <2>3, SameIsKept
<1>8. CASE ~applies(r)
  BY <1>1, <1>3, <1>8, NotApplicableSays
<1> QED
  BY <1>7, <1>8

LEMMA InstallerKept ==
    ASSUME NEW r, NEW s, ReadAs(r, s), NEW pick, Fine(NixInstaller(r, pick))
    PROVE  ~Fails(NixInstaller(s, pick))
<1>1. s.present = r.present
  BY FieldsAlike
<1>2. \A q : NixInstaller(q, pick) = IF ~q.present["flake_nix"] THEN NotApplicable
                                     ELSE InstallerCell(AllSteps(q), UnreadFiles(q), pick)
  BY DEF NixInstaller
<1>3. ASSUME NEW steps, NEW unreadable, Fine(InstallerCell(steps, unreadable, pick))
      PROVE  unreadable = {}
  <2> DEFINE others == {<<n>> : n \in {o \in OtherNixInstallers : \E x \in steps : UsesOneOf(x[1], {o})}}
             told == UNION {{<<p, x[2]>> : x \in {y \in steps : Telltale(p, y[1], pick)}} :
                              p \in {"telemetry on in", "diagnostics on in", "statistics on in"}}
             problems == Unreadable(unreadable) \cup told
             none == others = {} /\ problems = {} /\ InstallerCell(steps, unreadable, pick) = NotApplicable
  <2>1. none \/ InstallerCell(steps, unreadable, pick) = NoProblems(others \cup problems)
    BY DEF InstallerCell
  <2>2. problems = {} => unreadable = {}
    <3> HIDE DEF told
    <3> QED
      BY NothingUnreadable
  <2> HIDE DEF others, problems
  <2>3. CASE none
    BY <2>2, <2>3
  <2>4. CASE ~none
    <3>1. others \cup problems = {}
      BY <1>3, <2>1, <2>4, NoProblemsSays
    <3> QED
      BY <2>2, <3>1
  <2> QED
    BY <2>3, <2>4
<1>4. CASE r.present["flake_nix"]
  <2>1. UnreadFiles(r) = {}
    BY <1>2, <1>3, <1>4
  <2>2. NixInstaller(s, pick) = NixInstaller(r, pick)
    BY <1>1, <1>2, <2>1, AllStepsKept
  <2> QED
    BY <2>2, SameIsKept
<1>5. CASE ~r.present["flake_nix"]
  BY <1>1, <1>2, <1>5, NotApplicableSays
<1> QED
  BY <1>4, <1>5

\* What refreshes flake.lock still does.
LEMMA RefreshKept ==
    ASSUME NEW r, NEW s, ReadAs(r, s), ScheduledFlakeUpdate(r).refreshes
    PROVE  ScheduledFlakeUpdate(s).refreshes
<1> DEFINE does(q, w, j) ==
             \/ j.flakeUpdate
             \/ \E i \in DOMAIN j.uses : UsesAction(j.uses[i].action, "determinatesystems/update-flake-lock")
             \/ \E ca \in Reached(q, w, j).composites : ~ca.parseError /\ ca.flakeUpdate
           refreshes(q) == \E w \in {x \in ReadFiles(q) : "schedule" \in x.events} : \E j \in Jobs(w) : does(q, w, j)
<1>1. \A q : ScheduledFlakeUpdate(q).refreshes = refreshes(q)
  BY Zenon DEF ScheduledFlakeUpdate
<1>2. ASSUME NEW w, NEW j, NEW ca \in Reached(r, w, j).composites, ~ca.parseError
      PROVE  ca \in Reached(s, w, j).composites
  <2> DEFINE used == {j.uses[i] : i \in DOMAIN j.uses}
  <2>1. \A q : Reached(q, w, j).composites = UNION {Composites(q, u.action) : u \in used}
    BY DEF Reached
  <2> HIDE DEF used
  <2>2. PICK u \in used : ca \in Composites(r, u.action)
    BY <1>2, <2>1
  <2>3. ca \in Composites(s, u.action)
    BY <1>2, <2>2, CompositesKept
  <2> QED
    BY <2>1, <2>3
<1>3. \A w, j : does(r, w, j) => does(s, w, j)
  BY <1>2
<1>4. ReadFiles(r) \subseteq ReadFiles(s)
  BY FilesKept
<1> HIDE DEF does
<1>5. refreshes(r) => refreshes(s)
  BY <1>3, <1>4
<1> HIDE DEF refreshes
<1> QED
  BY <1>1, <1>5

LEMMA LockRefreshKept ==
    ASSUME NEW r, NEW s, ReadAs(r, s), Fine(LockRefresh(r))
    PROVE  ~Fails(LockRefresh(s))
<1> DEFINE renovates(q) == /\ q.files["renovate"] # {} /\ q.renovate.nixManager
                           /\ q.renovate.lockFileMaintenance \/ q.flake.allRevPinned
           works(q) == ScheduledFlakeUpdate(q).refreshes
           sources(q) == {x \in {"Renovate", "workflow"} : IF x = "workflow" THEN works(q) ELSE renovates(q)}
           shown(q) == {<<x>> : x \in sources(q)}
           unread(q) == Unreadable(ScheduledFlakeUpdate(q).unreadable)
<1>1. \A q : LockRefresh(q) = IF ~q.flake.hasLock THEN NotApplicable
                              ELSE IF sources(q) # {} THEN Observed(TRUE, shown(q)) ELSE Observed(FALSE, unread(q))
  BY Zenon DEF LockRefresh
<1>2. s.files = r.files /\ s.renovate = r.renovate /\ s.flake = r.flake
  BY FieldsAlike
<1>3. works(r) => works(s)
  BY RefreshKept
<1>4. renovates(s) <=> renovates(r)
  BY <1>2
<1> HIDE DEF works, renovates
<1>5. sources(r) # {} => sources(s) # {}
  BY <1>3, <1>4
<1> HIDE DEF sources, shown, unread
<1>6. CASE ~r.flake.hasLock
  BY <1>1, <1>2, <1>6, NotApplicableSays
<1>7. CASE r.flake.hasLock
  <2>1. sources(r) # {}
    <3> SUFFICES ASSUME sources(r) = {} PROVE FALSE
      OBVIOUS
    <3>1. LockRefresh(r) = Observed(FALSE, unread(r))
      BY <1>1, <1>7
    <3> QED
      BY <3>1, ObservedSays
  <2>2. LockRefresh(s) = Observed(TRUE, shown(s))
    BY <1>1, <1>2, <1>5, <1>7, <2>1
  <2> QED
    BY <2>2, ObservedSays
<1> QED
  BY <1>6, <1>7

-----------------------------------------------------------------------------
(* Files the collector scanned. *)

LEMMA ShownSame ==
    ASSUME NEW items, Marked(items), \A x \in items : ~x.unreadable
    PROVE  Shown(items) = items
<1>1. ASSUME NEW x \in items PROVE [x EXCEPT !.unreadable = FALSE] = x
  <2>1. x = [k \in DOMAIN x |-> x[k]] /\ "unreadable" \in DOMAIN x /\ x.unreadable = FALSE
    BY DEF Marked
  <2> QED
    BY <2>1
<1> QED
  BY <1>1 DEF Shown

LEMMA NoneUnreadable ==
    ASSUME NEW items, Unreadable({f.path : f \in {x \in items : x.unreadable}}) = {}
    PROVE  \A x \in items : ~x.unreadable
<1>1. {f.path : f \in {x \in items : x.unreadable}} = {}
  BY NothingUnreadable
<1> QED
  BY <1>1

LEMMA ScannedAs ==
    ASSUME NEW r, NEW s, ReadAs(r, s)
    PROVE  /\ s.nixGetFlake.nixFiles = r.nixGetFlake.nixFiles /\ s.nixGetFlake.tooMany = r.nixGetFlake.tooMany
           /\ s.nixGetFlake.files = Shown(r.nixGetFlake.files) /\ Marked(r.nixGetFlake.files)
           /\ s.goPaths.tooMany = r.goPaths.tooMany
           /\ s.goPaths.files = Shown(r.goPaths.files) /\ Marked(r.goPaths.files)
           /\ s.devshell.tooMany = r.devshell.tooMany /\ s.devshell.wrapperLines = r.devshell.wrapperLines
           /\ s.devshell.scripts = Shown(r.devshell.scripts) /\ Marked(r.devshell.scripts)
           /\ s.devshell.wrapper = IF r.devshell.wrapper = "unreadable" THEN "read" ELSE r.devshell.wrapper
BY DEF ReadAs, Recorded, ScansAs

LEMMA GetFlakeKept ==
    ASSUME NEW r, NEW s, ReadAs(r, s), Fine(NixGetFlakeGit(r))
    PROVE  ~Fails(NixGetFlakeGit(s))
<1> DEFINE around(files) ==
             {<<"not via git in", f.path>> : f \in {x \in files : ~x.unreadable /\ (\E a \in x.args : ~GetFlakeThroughGit(a))}}
           wrong(files) == around(files) \cup Unreadable({f.path : f \in {x \in files : x.unreadable}})
           seen(nixFiles, tooMany, files) ==
             IF ~nixFiles THEN NotApplicable
             ELSE IF tooMany THEN NoProblems({<<"too many Nix files">>}) ELSE NoProblems(wrong(files))
<1>1. \A q : NixGetFlakeGit(q) = seen(q.nixGetFlake.nixFiles, q.nixGetFlake.tooMany, q.nixGetFlake.files)
  BY DEF NixGetFlakeGit
<1>2. \A files : wrong(files) = {} => \A x \in files : ~x.unreadable
  <2> HIDE DEF around
  <2> QED
    BY NoneUnreadable
<1> HIDE DEF wrong
<1> DEFINE nixFiles == r.nixGetFlake.nixFiles
           tooMany == r.nixGetFlake.tooMany
           files == r.nixGetFlake.files
<1>3. NixGetFlakeGit(r) = seen(nixFiles, tooMany, files) /\ NixGetFlakeGit(s) = seen(nixFiles, tooMany, Shown(files))
  <2>1. s.nixGetFlake.nixFiles = nixFiles /\ s.nixGetFlake.tooMany = tooMany /\ s.nixGetFlake.files = Shown(files)
    BY ScannedAs
  <2> HIDE DEF seen
  <2> QED
    BY <1>1, <2>1
<1>4. Marked(files)
  BY ScannedAs
<1> HIDE DEF nixFiles, tooMany, files
<1>5. CASE ~nixFiles
  BY <1>3, <1>5, NotApplicableSays
<1>6. CASE nixFiles
  <2>1. ~tooMany /\ wrong(files) = {}
    BY <1>3, <1>6, NoProblemsSays
  <2>2. Shown(files) = files
    BY <1>2, <1>4, <2>1, ShownSame
  <2> QED
    BY <1>3, <2>2, SameIsKept
<1> QED
  BY <1>5, <1>6

LEMMA GoPathsKept ==
    ASSUME NEW r, NEW s, ReadAs(r, s), Fine(GoPaths(r))
    PROVE  ~Fails(GoPaths(s))
<1> DEFINE unset(files) == {<<n>> : n \in {m \in GoPathNames : \A f \in files : f.unreadable \/ m \notin f.lines}}
           wrong(files) == unset(files) \cup Unreadable({f.path : f \in {h \in files : h.unreadable}})
           judged(q) == q.present["go_mod"] /\ q.present["flake_nix"]
           seen(tooMany, files) ==
             IF tooMany THEN Observed(FALSE, {<<"too many Nix files">>}) ELSE NoProblems(wrong(files))
<1>1. \A q : GoPaths(q) = IF ~judged(q) THEN NotApplicable ELSE seen(q.goPaths.tooMany, q.goPaths.files)
  BY DEF GoPaths
<1>2. \A files : wrong(files) = {} => \A x \in files : ~x.unreadable
  <2> HIDE DEF unset
  <2> QED
    BY NoneUnreadable
<1>3. judged(s) <=> judged(r)
  <2>1. s.present = r.present
    BY FieldsAlike
  <2> QED
    BY <2>1
<1> HIDE DEF wrong, judged
<1> DEFINE tooMany == r.goPaths.tooMany
           files == r.goPaths.files
<1>4. /\ GoPaths(r) = IF ~judged(r) THEN NotApplicable ELSE seen(tooMany, files)
      /\ GoPaths(s) = IF ~judged(r) THEN NotApplicable ELSE seen(tooMany, Shown(files))
  <2>1. s.goPaths.tooMany = tooMany /\ s.goPaths.files = Shown(files)
    BY ScannedAs
  <2> HIDE DEF seen
  <2> QED
    BY <1>1, <1>3, <2>1
<1>5. Marked(files)
  BY ScannedAs
<1> HIDE DEF tooMany, files
<1>6. CASE ~judged(r)
  BY <1>4, <1>6, NotApplicableSays
<1>7. CASE judged(r)
  <2>1. ~tooMany /\ wrong(files) = {}
    BY <1>4, <1>7, NoProblemsSays, ObservedSays
  <2>2. Shown(files) = files
    BY <1>2, <1>5, <2>1, ShownSame
  <2> QED
    BY <1>4, <2>2, SameIsKept
<1> QED
  BY <1>6, <1>7

\* Scripts that were all read are judged as they were.
LEMMA JudgedKept ==
    ASSUME NEW r, NEW s, ReadAs(r, s), \A x \in r.devshell.scripts : ~x.unreadable
    PROVE  /\ s.devshell.scripts = r.devshell.scripts
           /\ DevshellJudged(s.devshell) <=> DevshellJudged(r.devshell)
           /\ DevshellScriptProblems(s.devshell) = DevshellScriptProblems(r.devshell)
<1>1. s.devshell.scripts = r.devshell.scripts /\ s.devshell.tooMany = r.devshell.tooMany
  BY ScannedAs, ShownSame
<1>2. DevshellJudged(s.devshell) <=> DevshellJudged(r.devshell)
  BY <1>1 DEF DevshellJudged
<1>3. s.devshell.wrapper = "none" <=> r.devshell.wrapper = "none"
  BY ScannedAs
<1>4. DevshellScriptProblems(s.devshell) = DevshellScriptProblems(r.devshell)
  <2> DEFINE wrapped(d) == IF DevshellJudged(d) /\ d.wrapper = "none" THEN {<<"no .ci/in-devshell">>} ELSE {}
             failing(scripts) == {<<p>> : p \in {x.path : x \in {y \in scripts : ~y.unreadable /\ y.exempt = "no" /\ ~y.wraps}}}
             bare(scripts) ==
               {<<x.path, "exempt without a reason">> : x \in {y \in scripts : ~y.unreadable /\ y.exempt = "bare"}}
             unread(scripts) == Unreadable({x.path : x \in {y \in scripts : y.unreadable}})
  <2>1. \A d : DevshellScriptProblems(d) =
          IF d.tooMany THEN {<<"too many files">>}
          ELSE wrapped(d) \cup failing(d.scripts) \cup bare(d.scripts) \cup unread(d.scripts)
    BY Zenon DEF DevshellScriptProblems, FailingScripts
  <2>2. wrapped(s.devshell) = wrapped(r.devshell)
    BY <1>2, <1>3
  <2> HIDE DEF wrapped, failing, bare, unread
  <2> QED
    BY <1>1, <2>1, <2>2
<1> QED
  BY <1>1, <1>2, <1>4

LEMMA ScriptsKept ==
    ASSUME NEW r, NEW s, ReadAs(r, s), Fine(DevshellScripts(r))
    PROVE  ~Fails(DevshellScripts(s))
<1>1. \A q : DevshellScripts(q) = IF DevshellJudged(q.devshell) THEN NoProblems(DevshellScriptProblems(q.devshell))
                                  ELSE NotApplicable
  BY DEF DevshellScripts
<1>2. \A x \in r.devshell.scripts : ~x.unreadable
  <2>1. CASE DevshellJudged(r.devshell)
    <3>1. DevshellScriptProblems(r.devshell) = {}
      BY <1>1, <2>1, NoProblemsSays
    <3>2. Unreadable({x.path : x \in {y \in r.devshell.scripts : y.unreadable}}) = {}
      BY <3>1 DEF DevshellScriptProblems
    <3> QED
      BY <3>2, NoneUnreadable
  <2>2. CASE ~DevshellJudged(r.devshell)
    BY <2>2 DEF DevshellJudged
  <2> QED
    BY <2>1, <2>2
<1>3. DevshellScripts(s) = DevshellScripts(r)
  BY <1>1, <1>2, JudgedKept
<1> QED
  BY <1>3, SameIsKept

LEMMA WrapperKept ==
    ASSUME NEW r, NEW s, ReadAs(r, s), Fine(DevshellTmpCleanup(r))
    PROVE  ~Fails(DevshellTmpCleanup(s))
<1> DEFINE applies(q) == q.devshell.wrapper # "none" \/ DevshellJudged(q.devshell)
<1>1. \A q : DevshellTmpCleanup(q) = IF applies(q) THEN NoProblems(DevshellWrapperProblems(q.devshell)) ELSE NotApplicable
  BY DEF DevshellTmpCleanup
<1>2. \A d : d.wrapper \notin {"none", "unreadable"} => DevshellWrapperProblems(d) = {<<l>> : l \in WrapperLines \ d.wrapperLines}
  BY DEF DevshellWrapperProblems
<1>3. CASE applies(r)
  <2>1. DevshellWrapperProblems(r.devshell) = {}
    BY <1>1, <1>3, NoProblemsSays
  <2>2. r.devshell.wrapper \notin {"none", "unreadable"}
    BY <2>1 DEF DevshellWrapperProblems
  <2>3. s.devshell.wrapper = r.devshell.wrapper /\ s.devshell.wrapperLines = r.devshell.wrapperLines
    BY <2>2, ScannedAs
  <2>4. DevshellWrapperProblems(s.devshell) = {}
    BY <1>2, <2>1, <2>2, <2>3
  <2> QED
    BY <1>1, <2>4, NoProblemsSays, NotApplicableSays
<1>4. CASE ~applies(r)
  <2>1. r.devshell.wrapper = "none" /\ ~DevshellJudged(r.devshell)
    BY <1>4
  <2>2. \A x \in r.devshell.scripts : ~x.unreadable
    BY <2>1 DEF DevshellJudged
  <2>3. ~applies(s)
    BY <2>1, <2>2, JudgedKept, ScannedAs
  <2> QED
    BY <1>1, <2>3, NotApplicableSays
<1> QED
  BY <1>3, <1>4

-----------------------------------------------------------------------------
(* Cache steps: the places a job leads to, composite by composite. *)

\* The composites the steps of some places lead into.
Beyond(q, places) == UNION {Inside(q, x) : x \in places}

PlacesRun(q, start, n, f) == f = [depth \in 0..n |-> IF depth = 0 THEN start ELSE Beyond(q, f[depth - 1])]

LEMMA PlacesRuns ==
    ASSUME NEW q, NEW start, NEW n \in Nat
    PROVE  \E f : PlacesRun(q, start, n, f)
<1> DEFINE T == {k \in Nat : ~\E f : PlacesRun(q, start, k, f)}
<1>1. ASSUME T # {} PROVE FALSE
  <2>1. PICK k \in T : \A m \in T : k <= m
    BY <1>1, LeastNatural
  <2>2. CASE k = 0
    <3>1. PlacesRun(q, start, 0, [i \in 0..0 |-> start])
      BY DEF PlacesRun
    <3> QED
      BY <2>1, <2>2, <3>1
  <2>3. CASE k # 0
    <3>0. k - 1 \in Nat /\ k - 1 \notin T
      BY <2>1, <2>3
    <3>1. PICK g : PlacesRun(q, start, k - 1, g)
      BY <3>0
    <3>2. g = [i \in 0..k - 1 |-> IF i = 0 THEN start ELSE Beyond(q, g[i - 1])]
      BY <3>1 DEF PlacesRun
    <3> DEFINE f == [i \in 0..k |-> IF i = k THEN Beyond(q, g[k - 1]) ELSE g[i]]
    <3>3. ASSUME NEW i \in 0..k
          PROVE  f[i] = IF i = 0 THEN start ELSE Beyond(q, f[i - 1])
      <4>1. CASE i = k
        BY <4>1, <2>3, <3>0
      <4>2. CASE i # k
        BY <4>2, <3>0, <3>2
      <4> QED
        BY <4>1, <4>2
    <3>4. PlacesRun(q, start, k, f)
      BY <3>3 DEF PlacesRun
    <3> QED
      BY <3>4, <2>1
  <2> QED
    BY <2>2, <2>3
<1> QED
  BY <1>1

\* The places of a job, depth by depth.
PlacesFrom(q, start, n, f) == f[0] = start /\ \A depth \in 1..n : f[depth] = Beyond(q, f[depth - 1])

PlacesBy(q, w, j, n, f) == Places(q, w, j) = UNION {f[depth] : depth \in 0..n} /\ PlacesFrom(q, {StartOf(w, j)}, n, f)

LEMMA PlacesRunFrom ==
    ASSUME NEW q, NEW start, NEW n \in Nat, NEW f, PlacesRun(q, start, n, f)
    PROVE  PlacesFrom(q, start, n, f)
BY DEF PlacesRun, PlacesFrom

LEMMA PlacesSteps ==
    ASSUME NEW q, NEW w, NEW j, NEW n \in Nat, n = Cardinality({ca.path : ca \in q.actions})
    PROVE  \E f : PlacesBy(q, w, j, n, f)
<1> DEFINE start == {StartOf(w, j)}
           at == CHOOSE f : PlacesRun(q, start, n, f)
<1>1. PlacesRun(q, start, n, at)
  BY PlacesRuns, Zenon
<1>2. Places(q, w, j) = UNION {at[depth] : depth \in 0..n}
  BY Zenon DEF Places, PlacesRun, Beyond
<1> HIDE DEF at
<1>3. PlacesFrom(q, start, n, at)
  <2> HIDE DEF start
  <2> QED
    BY <1>1, PlacesRunFrom, Zenon
<1> QED
  BY <1>2, <1>3, Zenon DEF PlacesBy

\* A reading has the paths there were, finitely many.
LEMMA PathsKept ==
    ASSUME NEW r, NEW s, ReadAs(r, s)
    PROVE  /\ {ca.path : ca \in s.actions} = {ca.path : ca \in r.actions}
           /\ Cardinality({ca.path : ca \in r.actions}) \in Nat
<1>1. {ca.path : ca \in s.actions} = {ca.path : ca \in r.actions}
  BY DEF ReadAs, ActionsAs
<1>2. IsFiniteSet({ca.path : ca \in r.actions})
  <2> DEFINE paths == {ca.path : ca \in r.actions}
             path == [ca \in r.actions |-> ca.path]
  <2>1. path \in Surjection(r.actions, paths)
    BY DEF Surjection
  <2>2. IsFiniteSet(r.actions)
    BY DEF ReadAs, ActionsAs
  <2> HIDE DEF path, paths
  <2>3. IsFiniteSet(paths)
    BY <2>1, <2>2, FS_Surjection
  <2> QED
    BY <2>3 DEF paths
<1> QED
  BY <1>1, <1>2, FS_CardinalityType

\* The steps at a place from which every composite was read.
LEMMA UsedKept ==
    ASSUME NEW r, NEW s, ReadAs(r, s), NEW x, NEW u \in ToSet(x.uses),
           \A t \in StepsAt(r, x) : t.kind # "unreadable"
    PROVE  /\ Used(s, x, u) = Used(r, x, u) /\ \A ca \in Used(r, x, u) : ~ca.parseError
           /\ Composites(s, u.action) = {} <=> Composites(r, u.action) = {}
<1> DEFINE found(v) ==
          IF Composites(r, v.action) # {}
            THEN {[path |-> ca.path[1], kind |-> "unreadable"] : ca \in {a \in Used(r, x, v) : a.parseError}}
          ELSE IF ActionRef[v.action].pinned /\ ActionRef[v.action].name \in DOMAIN CacheSavers
            THEN CacheStep(r, x, v) ELSE {}
<1>1. StepsAt(r, x) = UNION {found(v) : v \in ToSet(x.uses)}
  BY DEF StepsAt
<1>2. Used(r, x, u) \subseteq Composites(r, u.action)
  BY DEF Used
<1>3. ASSUME NEW ca \in Used(r, x, u), ca.parseError PROVE FALSE
  <2>1. Composites(r, u.action) # {}
    BY <1>2, <1>3
  <2>2. [path |-> ca.path[1], kind |-> "unreadable"] \in found(u)
    BY <1>3, <2>1
  <2> HIDE DEF found
  <2>3. [path |-> ca.path[1], kind |-> "unreadable"] \in StepsAt(r, x)
    BY <1>1, <2>2
  <2> QED
    BY <2>3
<1>4. Used(r, x, u) \subseteq Used(s, x, u)
  BY <1>3, CompositesKept DEF Used
<1>5. ASSUME NEW b \in Used(s, x, u) PROVE b \in Used(r, x, u)
  <2>1. b \in Composites(s, u.action) /\ b.path \notin x.seen
    BY DEF Used
  <2>2. PICK a \in Composites(r, u.action) : b.path = a.path /\ (~a.parseError => b = a)
    BY <2>1, CompositesKept
  <2>3. a \in Used(r, x, u)
    BY <2>1, <2>2 DEF Used
  <2> QED
    BY <1>3, <2>2, <2>3
<1> QED
  BY <1>3, <1>4, <1>5, CompositesKept

LEMMA PlaceKept ==
    ASSUME NEW r, NEW s, ReadAs(r, s), NEW x, \A t \in StepsAt(r, x) : t.kind # "unreadable"
    PROVE  Inside(s, x) = Inside(r, x) /\ StepsAt(s, x) = StepsAt(r, x)
<1>1. \A u \in ToSet(x.uses) :
        /\ Used(s, x, u) = Used(r, x, u)
        /\ Composites(s, u.action) = {} <=> Composites(r, u.action) = {}
  BY UsedKept
<1>2. Inside(s, x) = Inside(r, x)
  <2> DEFINE into(u, used) ==
        {[path |-> ca.path[1], uses |-> ca.uses, conds |-> x.conds \cup {u.cond}, seen |-> x.seen \cup {ca.path}] :
           ca \in {a \in used : ~a.parseError}}
  <2>1. \A q : Inside(q, x) = UNION {into(u, Used(q, x, u)) : u \in ToSet(x.uses)}
    BY DEF Inside
  <2> HIDE DEF into
  <2> QED
    BY <1>1, <2>1
<1>3. StepsAt(s, x) = StepsAt(r, x)
  <2> DEFINE unread(used) == {[path |-> ca.path[1], kind |-> "unreadable"] : ca \in {a \in used : a.parseError}}
             found(q, u) ==
               IF Composites(q, u.action) # {} THEN unread(Used(q, x, u))
               ELSE IF ActionRef[u.action].pinned /\ ActionRef[u.action].name \in DOMAIN CacheSavers
                 THEN CacheStep(q, x, u) ELSE {}
  <2>1. \A q : StepsAt(q, x) = UNION {found(q, u) : u \in ToSet(x.uses)}
    BY DEF StepsAt
  <2>2. \A u : CacheStep(s, x, u) = CacheStep(r, x, u)
    <3>1. s.defaultBranch = r.defaultBranch
      BY FieldsAlike
    <3> QED
      BY <3>1, Zenon DEF CacheStep
  <2>3. ASSUME NEW u \in ToSet(x.uses) PROVE found(s, u) = found(r, u)
    <3> HIDE DEF unread
    <3> QED
      BY <1>1, <2>2
  <2> HIDE DEF found
  <2> QED
    BY <2>1, <2>3
<1> QED
  BY <1>2, <1>3

LEMMA PlacesKept ==
    ASSUME NEW r, NEW s, ReadAs(r, s), NEW w, NEW j,
           \A t \in CacheSteps(r, w, j) : t.kind # "unreadable"
    PROVE  CacheSteps(s, w, j) = CacheSteps(r, w, j)
<1> DEFINE n == Cardinality({ca.path : ca \in r.actions})
<1>0. n \in Nat /\ n = Cardinality({ca.path : ca \in s.actions})
  BY PathsKept
<1> HIDE DEF n
<1>a. (\E f : PlacesBy(r, w, j, n, f)) /\ (\E g : PlacesBy(s, w, j, n, g))
  BY <1>0, PlacesSteps DEF n
<1>1. PICK f : PlacesBy(r, w, j, n, f)
  BY <1>a
<1>2. PICK g : PlacesBy(s, w, j, n, g)
  BY <1>a
<1>3. \A x \in Places(r, w, j) : Inside(s, x) = Inside(r, x) /\ StepsAt(s, x) = StepsAt(r, x)
  <2> SUFFICES ASSUME NEW x \in Places(r, w, j), NEW t \in StepsAt(r, x) PROVE t.kind # "unreadable"
    BY PlaceKept
  <2> QED
    BY DEF CacheSteps
<1>4. \A depth \in 0..n : g[depth] = f[depth]
  <2> DEFINE T == {depth \in 0..n : g[depth] # f[depth]}
  <2>1. ASSUME T # {} PROVE FALSE
    <3>1. T \subseteq Nat
      BY <1>0
    <3>2. PICK k \in T : \A m \in T : k <= m
      BY <2>1, <3>1, LeastNatural
    <3>3. k # 0
      BY <1>1, <1>2, <3>2 DEF PlacesBy, PlacesFrom
    <3>4. k \in 1..n /\ k - 1 \in 0..n /\ k - 1 \notin T
      BY <1>0, <3>2, <3>3
    <3>5. g[k - 1] = f[k - 1]
      BY <3>4
    <3>6. \A x \in f[k - 1] : Inside(s, x) = Inside(r, x)
      BY <1>1, <1>3, <3>4 DEF PlacesBy, PlacesFrom
    <3>7. Beyond(s, f[k - 1]) = Beyond(r, f[k - 1])
      BY <3>6 DEF Beyond
    <3>8. g[k] = f[k]
      BY <1>1, <1>2, <3>4, <3>5, <3>7 DEF PlacesBy, PlacesFrom
    <3> QED
      BY <3>2, <3>8
  <2> QED
    BY <2>1
<1>5. Places(s, w, j) = Places(r, w, j)
  BY <1>1, <1>2, <1>4 DEF PlacesBy, PlacesFrom
<1> QED
  BY <1>3, <1>5 DEF CacheSteps

LEMMA CacheSaveKept ==
    ASSUME NEW r, NEW s, ReadAs(r, s), Fine(CacheSaveDefaultBranch(r))
    PROVE  ~Fails(CacheSaveDefaultBranch(s))
<1> DEFINE off(q) == {w \in ReadFiles(q) : ~DefaultBranchOnly(w, q.defaultBranch)}
           steps(q) == UNION {UNION {CacheSteps(q, w, j) : j \in Jobs(w)} : w \in off(q)}
           unread(found) == {x.path : x \in {t \in found : t.kind = "unreadable"}}
           saving(found) == {<<"saves off the default branch in", p>> : p \in {x.path : x \in {t \in found : t.kind = "saves"}}}
           cell(files, found) ==
             IF files \cup unread(found) = {} /\ found = {} THEN NotApplicable
             ELSE NoProblems(saving(found) \cup Unreadable(files \cup unread(found)))
<1>1. \A q : CacheSaveDefaultBranch(q) = cell(UnreadableFiles(q), steps(q))
  BY Zenon DEF CacheSaveDefaultBranch
<1>2. \A files, found : Fine(cell(files, found)) => files \cup unread(found) = {}
  <2> SUFFICES ASSUME NEW files, NEW found, Fine(cell(files, found)) PROVE files \cup unread(found) = {}
    OBVIOUS
  <2> HIDE DEF unread, saving
  <2>1. CASE files \cup unread(found) = {} /\ found = {}
    BY <2>1
  <2>2. CASE ~(files \cup unread(found) = {} /\ found = {})
    <3>1. saving(found) \cup Unreadable(files \cup unread(found)) = {}
      BY <2>2, NoProblemsSays
    <3> QED
      BY <3>1, NothingUnreadable
  <2> QED
    BY <2>1, <2>2
<1> HIDE DEF cell
<1>3. UnreadableFiles(r) = {} /\ unread(steps(r)) = {}
  BY <1>1, <1>2
<1>4. off(s) = off(r) /\ UnreadableFiles(s) = {}
  <2>1. s.defaultBranch = r.defaultBranch
    BY FieldsAlike
  <2> QED
    BY <1>3, <2>1, AllFilesKept
<1>5. ASSUME NEW w \in off(r), NEW j \in Jobs(w) PROVE CacheSteps(s, w, j) = CacheSteps(r, w, j)
  <2> SUFFICES ASSUME NEW t \in CacheSteps(r, w, j), t.kind = "unreadable" PROVE FALSE
    BY PlacesKept
  <2> HIDE DEF off
  <2>1. t \in steps(r)
    OBVIOUS
  <2> HIDE DEF steps
  <2>2. t.path \in unread(steps(r))
    BY <2>1
  <2> HIDE DEF unread
  <2> QED
    BY <1>3, <2>2
<1>6. steps(s) = steps(r)
  <2> DEFINE of(q, w) == UNION {CacheSteps(q, w, j) : j \in Jobs(w)}
  <2>1. \A w \in off(r) : of(s, w) = of(r, w)
    <3> HIDE DEF off
    <3> QED
      BY <1>5
  <2>2. \A q : steps(q) = UNION {of(q, w) : w \in off(q)}
    OBVIOUS
  <2> HIDE DEF off, of, steps
  <2> QED
    BY <1>4, <2>1, <2>2
<1> HIDE DEF steps
<1>7. CacheSaveDefaultBranch(s) = CacheSaveDefaultBranch(r)
  BY <1>1, <1>3, <1>4, <1>6
<1> QED
  BY <1>7, SameIsKept

-----------------------------------------------------------------------------
(* Every check of the workflow files, Nix and the files scanned. *)
LEMMA WorkflowsKept ==
    ASSUME NEW r, NEW s, ReadAs(r, s), NEW c \in WorkflowChecks, NEW pick,
           Fine(ObserveWorkflows(c, r, pick))
    PROVE  ~Fails(ObserveWorkflows(c, s, pick))
<1>1. CASE c \in {"ci_on_pr", "ci_on_push"}
  BY <1>1, TriggersKept DEF ObserveWorkflows
<1>2. CASE c \in {"ci_cancel_superseded", "job_timeouts"}
  BY <1>2, CountsKept DEF ObserveWorkflows
<1>3. CASE c = "cache_save_default_branch"
  BY <1>3, CacheSaveKept DEF ObserveWorkflows
<1>4. CASE c \in {"cache_usage", "go_cache", "nix_lock_age"}
  BY <1>4, UsageAlike, SameIsKept DEF ObserveWorkflows
<1>5. CASE c = "go_paths"
  BY <1>5, GoPathsKept DEF ObserveWorkflows
<1>6. CASE c = "nix_lock_refresh"
  BY <1>6, LockRefreshKept DEF ObserveWorkflows
<1>7. CASE c = "nix_cache"
  BY <1>7, NixCacheKept DEF ObserveWorkflows
<1>8. CASE c = "nix_installer"
  BY <1>8, InstallerKept DEF ObserveWorkflows
<1>9. CASE c = "nix_getflake_git"
  BY <1>9, GetFlakeKept DEF ObserveWorkflows
<1>10. CASE c = "devshell_scripts"
  BY <1>10, ScriptsKept DEF ObserveWorkflows
<1>11. CASE c = "devshell_tmp_cleanup"
  BY <1>11, WrapperKept DEF ObserveWorkflows
<1> QED
  BY <1>1, <1>2, <1>3, <1>4, <1>5, <1>6, <1>7, <1>8, <1>9, <1>10, <1>11 DEF WorkflowChecks

-----------------------------------------------------------------------------
(* Claude Code files. *)

\* Whether there is a plugin is known of files that were not read.
LEMMA PluginKept ==
    ASSUME NEW r, NEW s, ReadAs(r, s)
    PROVE  /\ IsPlugin(s) <=> IsPlugin(r)
           /\ ~s.claude.unreadable
           /\ ~r.claude.unreadable => /\ s.claude.plugin = r.claude.plugin
                                      /\ s.claude.skills = Shown(r.claude.skills)
                                      /\ s.claude.commands = Shown(r.claude.commands)
                                      /\ s.claude.hooks = Shown(r.claude.hooks)
<1>1. PICK content :
        /\ s.claude = ReadClaude(r.claude, content)
        /\ r.claude.unreadable => ClaudeRecorded(content) /\ ~content.unreadable
  BY DEF ReadAs, ClaudeAs
<1>2. ClaudeRecorded(r.claude)
  BY DEF ReadAs, Recorded
<1>3. CASE r.claude.unreadable
  <2>1. s.claude = [content EXCEPT !.plugin.present = r.claude.plugin.present]
    BY <1>1, <1>3 DEF ReadClaude
  <2>2. ClaudeRecorded(content) /\ ~content.unreadable
    BY <1>1, <1>3
  <2>3. s.claude.unreadable = content.unreadable
    BY <2>1, <2>2 DEF ClaudeRecorded
  <2>4. s.claude.plugin = [content.plugin EXCEPT !.present = r.claude.plugin.present]
    BY <2>1, <2>2 DEF ClaudeRecorded
  <2>5. s.claude.plugin.present = r.claude.plugin.present /\ s.claude.plugin.unreadable = content.plugin.unreadable
    BY <2>2, <2>4 DEF ClaudeRecorded
  <2>6. ~content.plugin.unreadable
    BY <2>2 DEF ClaudeRecorded
  <2>7. r.claude.plugin.unreadable => r.claude.plugin.present
    BY <1>2 DEF ClaudeRecorded
  <2> QED
    BY <1>3, <2>2, <2>3, <2>5, <2>6, <2>7 DEF IsPlugin
<1>4. CASE ~r.claude.unreadable
  <2> DEFINE skills == Shown(r.claude.skills)
             commands == Shown(r.claude.commands)
             hooks == Shown(r.claude.hooks)
  <2>1. s.claude = [r.claude EXCEPT !.skills = skills, !.commands = commands, !.hooks = hooks]
    BY <1>1, <1>4 DEF ReadClaude
  <2> HIDE DEF skills, commands, hooks
  <2>2. /\ s.claude.plugin = r.claude.plugin /\ s.claude.unreadable = r.claude.unreadable
        /\ s.claude.skills = skills /\ s.claude.commands = commands /\ s.claude.hooks = hooks
    BY <1>2, <2>1 DEF ClaudeRecorded
  <2> QED
    BY <1>4, <2>2 DEF IsPlugin, skills, commands, hooks
<1> QED
  BY <1>3, <1>4

LEMMA CountedSays ==
    ASSUME NEW items, Fine(CountedCell(items))
    PROVE  \A i \in items : ~i.unreadable
<1> SUFFICES ASSUME NEW i \in items, i.unreadable PROVE FALSE
  OBVIOUS
<1>1. CountedCell(items) = Observed(FALSE, {<<"unreadable">>})
  BY DEF CountedCell
<1> QED
  BY <1>1, ObservedSays

LEMMA PluginChecksKept ==
    ASSUME NEW r, NEW s, ReadAs(r, s), NEW c, ~r.claude.unreadable
    PROVE  ObservePlugin(c, s) = ObservePlugin(c, r)
<1>1. s.claude.plugin = r.claude.plugin /\ s.releases = r.releases
  BY PluginKept, FieldsAlike
<1> DEFINE seen(plugin, releases) ==
      IF ~(plugin.present \/ plugin.unreadable) THEN NotApplicable
      ELSE IF plugin.unreadable THEN Observed(FALSE, {<<"unreadable">>})
      ELSE CASE c = "plugin_manifest_fields" -> NoProblems({<<f>> : f \in RequiredPluginFields \ plugin.fields})
             [] c = "plugin_no_own_marketplace" -> Observed(~plugin.ownMarketplace, {})
             [] c = "plugin_releases" -> Observed(releases.latest # "", {})
             [] OTHER -> IF releases.latest = "" THEN NotApplicable
                         ELSE Observed(AtLeast(plugin.version, releases.latest), {<<plugin.version, releases.latest>>})
<1>2. \A q : ObservePlugin(c, q) = seen(q.claude.plugin, q.releases)
  BY Zenon DEF ObservePlugin, IsPlugin
<1> HIDE DEF seen
<1> QED
  BY <1>1, <1>2

LEMMA SkillsKept ==
    ASSUME NEW r, NEW s, ReadAs(r, s), ~r.claude.unreadable, NEW c,
           Fine(CountedCell(SkillItems(c, SkillsJudged(c, r.claude))))
    PROVE  ~Fails(CountedCell(SkillItems(c, SkillsJudged(c, s.claude))))
<1> DEFINE judged == SkillsJudged(c, r.claude)
<1>1. Marked(r.claude.skills) /\ Marked(r.claude.commands)
  BY DEF ReadAs, Recorded, ClaudeRecorded
<1>2. s.claude.skills = Shown(r.claude.skills) /\ s.claude.commands = Shown(r.claude.commands)
  BY PluginKept
<1>3. SkillsJudged(c, s.claude) = Shown(judged) /\ Marked(judged)
  BY <1>1, <1>2 DEF SkillsJudged, Shown, Marked
<1>4. \A x \in judged : ~x.unreadable
  <2> HIDE DEF judged
  <2> SUFFICES ASSUME NEW x \in judged, x.unreadable PROVE FALSE
    OBVIOUS
  <2> DEFINE item == [name |-> x.path, ok |-> ~x.unreadable /\ SkillOK(c, x), unreadable |-> x.unreadable]
  <2>1. item \in SkillItems(c, judged)
    BY DEF SkillItems
  <2>2. item.unreadable = x.unreadable
    OBVIOUS
  <2> HIDE DEF item
  <2>3. ~item.unreadable
    BY <2>1, CountedSays DEF judged
  <2> QED
    BY <2>2, <2>3
<1>5. SkillsJudged(c, s.claude) = judged
  BY <1>3, <1>4, ShownSame
<1> QED
  BY <1>5, SameIsKept

\* A hook outside a plugin, read or not, is not one the plugin root is asked of.
LEMMA HooksKept ==
    ASSUME NEW r, NEW s, ReadAs(r, s), ~r.claude.unreadable, NEW c,
           Fine(CountedCell(HookItems(c, r.claude.hooks)))
    PROVE  ~Fails(CountedCell(HookItems(c, s.claude.hooks)))
<1> DEFINE hooks == r.claude.hooks
           item(h) == [name |-> h.source, ok |-> ~h.unreadable /\ HookOK(c, h), unreadable |-> h.unreadable]
           about(all) == {h \in HooksJudged(c, all) : h.unreadable \/ HookApplies(c, h)}
<1>1. \A all : HookItems(c, all) = {item(h) : h \in about(all)}
  BY DEF HookItems
<1>2. \A h : item(h).unreadable = h.unreadable
  OBVIOUS
<1>3. s.claude.hooks = Shown(hooks)
  BY PluginKept
<1>4. Marked(hooks) /\ \A h \in hooks : "plugin" \in DOMAIN h
  BY DEF ReadAs, Recorded, ClaudeRecorded
<1> HIDE DEF hooks, item
<1>5. \A h \in HooksJudged(c, hooks) : ~h.unreadable
  <2> SUFFICES ASSUME NEW h \in HooksJudged(c, hooks), h.unreadable PROVE FALSE
    OBVIOUS
  <2>1. item(h) \in HookItems(c, hooks)
    BY <1>1
  <2>2. ~item(h).unreadable
    BY <2>1, CountedSays DEF hooks
  <2> QED
    BY <1>2, <2>2
<1>6. about(Shown(hooks)) = about(hooks)
  <2>1. CASE c # "hook_plugin_root"
    <3>1. HooksJudged(c, hooks) = hooks
      BY <2>1 DEF HooksJudged
    <3> QED
      BY <1>4, <1>5, <3>1, ShownSame
  <2>2. CASE c = "hook_plugin_root"
    <3>1. \A all : about(all) = {h \in all : (~h.unreadable \/ h.plugin) /\ (h.unreadable \/ (h.plugin /\ RunsScript(h)))}
      BY <2>2 DEF HooksJudged, HookApplies
    <3>2. \A h \in hooks : h.unreadable => ~h.plugin
      BY <1>5, <2>2 DEF HooksJudged
    <3>3. ASSUME NEW h \in hooks, ~h.unreadable PROVE [h EXCEPT !.unreadable = FALSE] = h
      <4>1. h = [k \in DOMAIN h |-> h[k]] /\ "unreadable" \in DOMAIN h /\ h.unreadable = FALSE
        BY <1>4, <3>3 DEF Marked
      <4> QED
        BY <4>1
    <3>4. ASSUME NEW h \in hooks, h.unreadable
          PROVE  [h EXCEPT !.unreadable = FALSE].plugin = h.plugin /\ ~[h EXCEPT !.unreadable = FALSE].unreadable
      BY <1>4 DEF Marked
    <3> HIDE DEF about
    <3>5. about(hooks) \subseteq about(Shown(hooks))
      <4> SUFFICES ASSUME NEW h \in about(hooks) PROVE h \in about(Shown(hooks))
        OBVIOUS
      <4>1. h \in hooks /\ h.plugin /\ ~h.unreadable /\ RunsScript(h)
        BY <3>1, <3>2
      <4>2. h \in Shown(hooks)
        BY <3>3, <4>1 DEF Shown
      <4> QED
        BY <3>1, <4>1, <4>2
    <3>6. about(Shown(hooks)) \subseteq about(hooks)
      <4> SUFFICES ASSUME NEW g \in about(Shown(hooks)) PROVE g \in about(hooks)
        OBVIOUS
      <4>1. PICK h \in hooks : g = [h EXCEPT !.unreadable = FALSE]
        BY <3>1 DEF Shown
      <4>2. ~h.unreadable
        BY <3>1, <3>2, <3>4, <4>1
      <4>3. g = h
        BY <3>3, <4>1, <4>2
      <4> QED
        BY <3>1, <4>2, <4>3
    <3> QED
      BY <3>5, <3>6
  <2> QED
    BY <2>1, <2>2
<1> HIDE DEF about
<1>7. HookItems(c, s.claude.hooks) = HookItems(c, r.claude.hooks)
  BY <1>1, <1>3, <1>6 DEF hooks
<1> QED
  BY <1>7, SameIsKept

LEMMA SizeKept ==
    ASSUME NEW r, NEW s, ReadAs(r, s), ~r.claude.unreadable, Fine(ObserveSkillSize(r.claude.skills))
    PROVE  ~Fails(ObserveSkillSize(s.claude.skills))
<1>1. s.claude.skills = Shown(r.claude.skills) /\ Marked(r.claude.skills)
  BY PluginKept DEF ReadAs, Recorded, ClaudeRecorded
<1>2. \A x \in r.claude.skills : ~x.unreadable
  <2> SUFFICES ASSUME NEW x \in r.claude.skills, x.unreadable PROVE FALSE
    OBVIOUS
  <2>1. ObserveSkillSize(r.claude.skills) = Observed(FALSE, {<<"unreadable">>})
    BY DEF ObserveSkillSize
  <2> QED
    BY <2>1, ObservedSays
<1>3. s.claude.skills = r.claude.skills
  BY <1>1, <1>2, ShownSame
<1> QED
  BY <1>3, SameIsKept

\* An account with every repository read.
AccountAs(account, there) ==
    /\ there.owner = account.owner /\ there.marketplace = account.marketplace /\ there.identity = account.identity
    /\ \A q \in account.repos : \E p \in there.repos : ReadAs(q, p)
    /\ \A p \in there.repos : \E q \in account.repos : ReadAs(q, p)

LEMMA EntriesAlike ==
    ASSUME NEW account, NEW there, AccountAs(account, there), NEW name
    PROVE  EntriesFor(name, there) = EntriesFor(name, account)
<1> DEFINE mine(entries, owner) == SelectSeq(entries, LAMBDA e : e.owner = owner /\ e.repo = name)
<1>1. \A a : EntriesFor(name, a) = mine(a.marketplace.entries, a.owner)
  BY DEF EntriesFor
<1>2. there.owner = account.owner /\ there.marketplace = account.marketplace
  BY DEF AccountAs
<1> HIDE DEF mine
<1> QED
  BY <1>1, <1>2

LEMMA CompleteAlike ==
    ASSUME NEW account, NEW there, AccountAs(account, there)
    PROVE  MarketplaceComplete(there) = MarketplaceComplete(account)
<1> DEFINE absent(a) == {p \in a.repos : IsPlugin(p) /\ p.visibility = "public" /\ EntriesFor(p.name, a) = <<>>}
           missing(a) == {<<r.name>> : r \in absent(a)}
<1>1. \A a : MarketplaceComplete(a) = NoProblems(missing(a))
  BY DEF MarketplaceComplete
<1>2. \A q, p : ReadAs(q, p) =>
        /\ p.name = q.name /\ p.visibility = q.visibility /\ (IsPlugin(p) <=> IsPlugin(q))
        /\ EntriesFor(p.name, there) = EntriesFor(q.name, account)
  BY FieldsAlike, PluginKept, EntriesAlike
<1>3. /\ \A q \in absent(account) : \E p \in absent(there) : p.name = q.name
      /\ \A p \in absent(there) : \E q \in absent(account) : p.name = q.name
  BY <1>2 DEF AccountAs
<1> HIDE DEF absent
<1>4. missing(there) = missing(account)
  BY <1>3
<1> HIDE DEF missing
<1> QED
  BY <1>1, <1>4

\* The marketplace's entries, when none is of a repository that was not read.
LEMMA EntryItemsKept ==
    ASSUME NEW account, NEW there, AccountAs(account, there), Fine(CountedCell(EntryItems(account)))
    PROVE  ~Fails(CountedCell(EntryItems(there)))
<1> DEFINE entries == {account.marketplace.entries[i] : i \in DOMAIN account.marketplace.entries}
           target(a, e) == {r \in a.repos : e.owner = a.owner /\ r.name = e.repo /\ r.visibility = "public"}
           sound(a, e) == target(a, e) # {} /\ ~e.hasVersion
           good(a, e) == sound(a, e) /\ \E r \in target(a, e) : IsPlugin(r)
           unread(a, e) == sound(a, e) /\ \E r \in target(a, e) : ~IsPlugin(r) /\ r.claude.unreadable
           item(a, e) == [name |-> e.name, ok |-> good(a, e), unreadable |-> unread(a, e)]
<1>1. there.owner = account.owner /\ there.marketplace = account.marketplace
  BY DEF AccountAs
<1>2. EntryItems(account) = {item(account, e) : e \in entries} /\ EntryItems(there) = {item(there, e) : e \in entries}
  BY <1>1, Zenon DEF EntryItems
<1>3. \A q, p : ReadAs(q, p) =>
        /\ p.name = q.name /\ p.visibility = q.visibility /\ (IsPlugin(p) <=> IsPlugin(q)) /\ ~p.claude.unreadable
  BY FieldsAlike, PluginKept
<1>4. ASSUME NEW e
      PROVE  /\ \A q \in target(account, e) : \E p \in target(there, e) : IsPlugin(p) <=> IsPlugin(q)
             /\ \A p \in target(there, e) : \E q \in target(account, e) : IsPlugin(p) <=> IsPlugin(q)
             /\ \A p \in target(there, e) : ~p.claude.unreadable
  BY <1>1, <1>3 DEF AccountAs
<1> HIDE DEF target
<1>5. ASSUME NEW e PROVE (good(there, e) <=> good(account, e)) /\ ~unread(there, e)
  BY <1>4
<1>6. ASSUME NEW e \in entries PROVE ~unread(account, e)
  <2>1. item(account, e) \in EntryItems(account)
    BY <1>2
  <2>2. item(account, e).unreadable = unread(account, e)
    OBVIOUS
  <2>3. ~item(account, e).unreadable
    BY <2>1, CountedSays
  <2> QED
    BY <2>2, <2>3
<1>7. ASSUME NEW e \in entries PROVE item(there, e) = item(account, e)
  <2>1. /\ good(there, e) \in BOOLEAN /\ good(account, e) \in BOOLEAN /\ unread(there, e) \in BOOLEAN
        /\ unread(account, e) \in BOOLEAN
    OBVIOUS
  <2>2. (good(there, e) <=> good(account, e)) /\ (unread(there, e) <=> unread(account, e))
    BY <1>5, <1>6
  <2> HIDE DEF good, unread
  <2> QED
    BY <2>1, <2>2
<1> HIDE DEF item, entries
<1>8. EntryItems(there) = EntryItems(account)
  BY <1>2, <1>7
<1> QED
  BY <1>8, SameIsKept

\* The plugin rows: what is listed of a repository does not turn on its files.
LEMMA RowsAlike ==
    ASSUME NEW account, NEW there, AccountAs(account, there), NEW r, NEW s, ReadAs(r, s), NEW c \in PluginRows
    PROVE  ObserveMarketplace(c, s, there) = ObserveMarketplace(c, r, account)
<1> DEFINE row(unreadable, entries, releases) ==
      IF unreadable THEN Observed(FALSE, {<<"unreadable">>})
      ELSE IF c = "plugin_listed" THEN Observed(entries # <<>>, {})
      ELSE IF entries = <<>> THEN NotApplicable
      ELSE IF c = "plugin_pin_valid" THEN NoProblems(PinProblems(Head(entries)))
      ELSE IF PinProblems(Head(entries)) # {} THEN NotApplicable
      ELSE Observed(PinCurrent(Head(entries).ref, releases), {<<Head(entries).ref, releases.latest>>})
<1>1. \A q, a : ObserveMarketplace(c, q, a) =
        IF ~(IsPlugin(q) /\ q.visibility = "public") THEN NotApplicable
        ELSE row(a.marketplace.unreadable, EntriesFor(q.name, a), q.releases)
  BY DEF ObserveMarketplace, PluginRows
<1>2. /\ s.visibility = r.visibility /\ s.name = r.name /\ s.releases = r.releases /\ (IsPlugin(s) <=> IsPlugin(r))
      /\ there.marketplace = account.marketplace /\ EntriesFor(r.name, there) = EntriesFor(r.name, account)
  BY FieldsAlike, PluginKept, EntriesAlike DEF AccountAs
<1> HIDE DEF row
<1> QED
  BY <1>1, <1>2

LEMMA ClaudeKept ==
    ASSUME NEW account, NEW there, AccountAs(account, there), NEW r, NEW s, ReadAs(r, s), NEW c \in ClaudeChecks,
           Fine(ObserveClaude(c, r, account))
    PROVE  ~Fails(ObserveClaude(c, s, there))
<1>1. /\ s.name = r.name /\ ~s.claude.unreadable /\ there.marketplace = account.marketplace
      /\ ~r.claude.unreadable => s.claude.skills = Shown(r.claude.skills)
  BY FieldsAlike, PluginKept DEF AccountAs
<1>2. MarketplaceNA(c, s, there.marketplace) <=> MarketplaceNA(c, r, account.marketplace)
  BY <1>1 DEF MarketplaceNA
<1>3. CASE MarketplaceNA(c, r, account.marketplace)
  BY <1>2, <1>3, NotApplicableSays DEF ObserveClaude
<1>4. CASE ~MarketplaceNA(c, r, account.marketplace) /\ c \in MarketplaceRows
  <2>1. /\ ObserveClaude(c, r, account) = ObserveMarketplace(c, r, account)
        /\ ObserveClaude(c, s, there) = ObserveMarketplace(c, s, there)
    BY <1>2, <1>4 DEF ObserveClaude, MarketplaceRows, PluginRows, PluginChecks, SkillChecks, HookChecks
  <2>2. c \notin PluginRows
    BY <1>4 DEF PluginRows, MarketplaceRows
  <2>3. ~account.marketplace.unreadable
    <3> SUFFICES ASSUME account.marketplace.unreadable PROVE FALSE
      OBVIOUS
    <3>1. ObserveMarketplace(c, r, account) = Observed(FALSE, {<<"unreadable">>})
      BY <2>2 DEF ObserveMarketplace
    <3> QED
      BY <2>1, <3>1, ObservedSays
  <2>4. CASE c = "marketplace_entries_valid"
    <3>1. /\ ObserveMarketplace(c, r, account) = CountedCell(EntryItems(account))
          /\ ObserveMarketplace(c, s, there) = CountedCell(EntryItems(there))
      BY <1>1, <2>2, <2>3, <2>4 DEF ObserveMarketplace
    <3> QED
      BY <2>1, <3>1, EntryItemsKept
  <2>5. CASE c = "marketplace_complete"
    <3>1. /\ ObserveMarketplace(c, r, account) = MarketplaceComplete(account)
          /\ ObserveMarketplace(c, s, there) = MarketplaceComplete(there)
      BY <1>1, <2>2, <2>3, <2>5 DEF ObserveMarketplace
    <3> QED
      BY <2>1, <3>1, CompleteAlike, SameIsKept
  <2> QED
    BY <1>4, <2>4, <2>5 DEF MarketplaceRows
<1>5. CASE ~MarketplaceNA(c, r, account.marketplace) /\ c \notin MarketplaceRows
  <2>1. ~r.claude.unreadable
    <3> SUFFICES ASSUME r.claude.unreadable PROVE FALSE
      OBVIOUS
    <3>1. ObserveClaude(c, r, account) = Observed(FALSE, {<<"unreadable">>})
      BY <1>5, Zenon DEF ObserveClaude
    <3> QED
      BY <3>1, ObservedSays
  <2> DEFINE one(q, a) ==
        CASE c \in PluginRows \cup MarketplaceRows -> ObserveMarketplace(c, q, a)
          [] c \in PluginChecks -> ObservePlugin(c, q)
          [] c \in SkillChecks -> CountedCell(SkillItems(c, SkillsJudged(c, q.claude)))
          [] c \in HookChecks -> CountedCell(HookItems(c, q.claude.hooks))
          [] OTHER -> ObserveSkillSize(q.claude.skills)
  <2>2. ObserveClaude(c, r, account) = one(r, account) /\ ObserveClaude(c, s, there) = one(s, there)
    BY <1>1, <1>2, <1>5, <2>1, Zenon DEF ObserveClaude
  <2>3. CASE c \in PluginRows
    <3>1. one(r, account) = ObserveMarketplace(c, r, account) /\ one(s, there) = ObserveMarketplace(c, s, there)
      BY <2>3 DEF PluginRows, MarketplaceRows, PluginChecks, SkillChecks, HookChecks
    <3> HIDE DEF one
    <3> QED
      BY <2>2, <2>3, <3>1, RowsAlike, SameIsKept
  <2>4. CASE c \in PluginChecks
    <3>1. one(r, account) = ObservePlugin(c, r) /\ one(s, there) = ObservePlugin(c, s)
      BY <2>4 DEF PluginRows, MarketplaceRows, PluginChecks, SkillChecks, HookChecks
    <3> HIDE DEF one
    <3> QED
      BY <2>1, <2>2, <3>1, PluginChecksKept, SameIsKept
  <2>5. CASE c \in SkillChecks
    <3>1. /\ one(r, account) = CountedCell(SkillItems(c, SkillsJudged(c, r.claude)))
          /\ one(s, there) = CountedCell(SkillItems(c, SkillsJudged(c, s.claude)))
      BY <2>5 DEF PluginRows, MarketplaceRows, PluginChecks, SkillChecks, HookChecks
    <3> HIDE DEF one
    <3> QED
      BY <2>1, <2>2, <3>1, SkillsKept
  <2>6. CASE c \in HookChecks
    <3>1. /\ one(r, account) = CountedCell(HookItems(c, r.claude.hooks))
          /\ one(s, there) = CountedCell(HookItems(c, s.claude.hooks))
      BY <2>6 DEF PluginRows, MarketplaceRows, PluginChecks, SkillChecks, HookChecks
    <3> HIDE DEF one
    <3> QED
      BY <2>1, <2>2, <3>1, HooksKept
  <2>7. CASE c = "skill_size"
    <3>1. one(r, account) = ObserveSkillSize(r.claude.skills) /\ one(s, there) = ObserveSkillSize(s.claude.skills)
      BY <2>7 DEF PluginRows, MarketplaceRows, PluginChecks, SkillChecks, HookChecks
    <3> HIDE DEF one
    <3> QED
      BY <2>1, <2>2, <3>1, SizeKept
  <2> QED
    BY <1>5, <2>3, <2>4, <2>5, <2>6, <2>7 DEF ClaudeChecks
<1> QED
  BY <1>3, <1>4, <1>5

-----------------------------------------------------------------------------
(* A cell. *)

LEMMA ObserveKept ==
    ASSUME NEW account, NEW there, AccountAs(account, there), NEW r, NEW s, ReadAs(r, s), NEW c, NEW pick,
           Fine(Observe(c, r, account, pick))
    PROVE  ~Fails(Observe(c, s, there, pick))
<1>1. there.identity = account.identity /\ s.files = r.files
  BY FieldsAlike DEF AccountAs
<1> DEFINE paths == PathChecks \cup {"claude_mcp_config", "claude_settings"}
           one(k, q, a) ==
             CASE k = "git_identity" -> IF a.identity = NoStandard THEN NotApplicable ELSE GitIdentity(q, a.identity)
               [] k \in paths -> PathObservation(q.files[k])
               [] k \in ClaudeChecks -> ObserveClaude(k, q, a)
               [] k \in WorkflowChecks -> ObserveWorkflows(k, q, pick)
               [] OTHER -> ObserveRepository(k, q)
<1>2. \A k, q, a : Observe(k, q, a, pick) = one(k, q, a)
  BY Zenon DEF Observe
<1>3. CASE c = "git_identity"
  <2>1. /\ one(c, r, account) = IF account.identity = NoStandard THEN NotApplicable ELSE GitIdentity(r, account.identity)
        /\ one(c, s, there) = IF there.identity = NoStandard THEN NotApplicable ELSE GitIdentity(s, there.identity)
    BY <1>3 DEF PathChecks, ClaudeChecks, SkillChecks, HookChecks, PluginChecks, PluginRows, MarketplaceRows, WorkflowChecks
  <2>2. one(c, s, there) = one(c, r, account)
    BY <1>1, <2>1, IdentityAlike
  <2> HIDE DEF one
  <2> QED
    BY <1>2, <2>2, SameIsKept
<1>4. CASE c \in paths
  <2>1. one(c, r, account) = PathObservation(r.files[c]) /\ one(c, s, there) = PathObservation(s.files[c])
    BY <1>4 DEF PathChecks, ClaudeChecks, SkillChecks, HookChecks, PluginChecks, PluginRows, MarketplaceRows, WorkflowChecks
  <2> HIDE DEF one
  <2> QED
    BY <1>1, <1>2, <2>1, SameIsKept
<1>5. CASE c \in ClaudeChecks
  <2>1. one(c, r, account) = ObserveClaude(c, r, account) /\ one(c, s, there) = ObserveClaude(c, s, there)
    BY <1>5 DEF PathChecks, ClaudeChecks, SkillChecks, HookChecks, PluginChecks, PluginRows, MarketplaceRows, WorkflowChecks
  <2> HIDE DEF one
  <2> QED
    BY <1>2, <1>5, <2>1, ClaudeKept
<1>6. CASE c \in WorkflowChecks
  <2>1. one(c, r, account) = ObserveWorkflows(c, r, pick) /\ one(c, s, there) = ObserveWorkflows(c, s, pick)
    BY <1>6 DEF PathChecks, ClaudeChecks, SkillChecks, HookChecks, PluginChecks, PluginRows, MarketplaceRows, WorkflowChecks
  <2> HIDE DEF one
  <2> QED
    BY <1>2, <1>6, <2>1, WorkflowsKept
<1>7. CASE c \notin {"git_identity"} \cup paths \cup ClaudeChecks \cup WorkflowChecks
  <2>1. one(c, r, account) = ObserveRepository(c, r) /\ one(c, s, there) = ObserveRepository(c, s)
    <3> HIDE DEF paths
    <3> QED
      BY <1>7
  <2> HIDE DEF one
  <2> QED
    BY <1>2, <2>1, RepositoryAlike, SameIsKept
<1> QED
  BY <1>3, <1>4, <1>5, <1>6, <1>7

\* What is held of a repository does not turn on its files.
LEMMA PushCellAlike ==
    ASSUME NEW r, NEW s, ReadAs(r, s), NEW held
    PROVE  /\ DirectPushCell(s, held) = DirectPushCell(r, held)
           /\ MinReleaseAgeCell(s, held) = MinReleaseAgeCell(r, held)
<1>1. s.files = r.files /\ s.renovate = r.renovate /\ ObserveDirectPush(s) = ObserveDirectPush(r)
  BY FieldsAlike, PushedAlike
<1>2. DirectPushCell(s, held) = DirectPushCell(r, held)
  <2> DEFINE cell(observed) ==
        Cell(IF held.exp = "not_required" THEN "na" ELSE IF observed = held.want THEN "pass" ELSE "fail", {<<observed>>})
  <2>1. \A q : DirectPushCell(q, held) = cell(ObserveDirectPush(q))
    BY Zenon DEF DirectPushCell
  <2> HIDE DEF cell
  <2> QED
    BY <1>1, <2>1
<1>3. MinReleaseAgeCell(s, held) = MinReleaseAgeCell(r, held)
  <2> DEFINE cell(rn, files) ==
        LET age == IF rn.error \/ rn.minReleaseAge = "" THEN NoDuration ELSE ParseRenovateDuration(rn.minReleaseAge)
            value == IF rn.error \/ (rn.minReleaseAge # "" /\ age = NoDuration) THEN "unresolved"
                     ELSE IF rn.minReleaseAge = "" THEN "none" ELSE rn.minReleaseAge
        IN IF files["renovate"] = {} THEN Cell("na", {})
           ELSE Cell(CASE held.exp = "info" -> "info"
                       [] held.exp = "required" -> IF age # NoDuration /\ age >= held.age THEN "pass" ELSE "fail"
                       [] OTHER -> "na", {<<value>>})
  <2>1. \A q : MinReleaseAgeCell(q, held) = cell(q.renovate, q.files)
    BY Zenon DEF MinReleaseAgeCell
  <2> HIDE DEF cell
  <2> QED
    BY <1>1, <2>1
<1> QED
  BY <1>2, <1>3

LEMMA VerdictKept ==
    ASSUME NEW exp, NEW obs, NEW seen, Fine(obs) => ~Fails(seen), NEW open \in BOOLEAN,
           VerdictFor(IF open \/ obs.unknown THEN "not_required" ELSE exp, obs) \in {"pass", "na"}
    PROVE  VerdictFor(IF open \/ seen.unknown THEN "not_required" ELSE exp, seen) # "fail"
<1>1. CASE open \/ exp # "required"
  BY <1>1 DEF VerdictFor
<1>2. CASE ~open /\ exp = "required"
  <2>1. Fine(obs)
    BY <1>2 DEF VerdictFor, Fine
  <2> QED
    BY <1>2, <2>1 DEF VerdictFor, Fails
<1> QED
  BY <1>1, <1>2

LEMMA CellKept ==
    ASSUME NEW account, NEW there, AccountAs(account, there), NEW r, NEW s, ReadAs(r, s), NEW c, NEW spec, NEW pick,
           EvaluateCell(c, r, spec, account, pick).verdict \in {"pass", "na"}
    PROVE  EvaluateCell(c, s, spec, there, pick).verdict # "fail"
<1> DEFINE held == Held(c, spec, r, r.visibility = "public")
           obs == Observe(c, r, account, pick)
           seen == Observe(c, s, there, pick)
           open == c \in {"required_checks", "branch_up_to_date"} /\ ObserveDirectPush(r) = "allowed"
<1>1. Held(c, spec, s, s.visibility = "public") = held
  BY FieldsAlike, HeldAlike
<1>2. EvaluateCell(c, r, spec, account, pick) = CellFor(c, r, held, obs)
  BY Zenon DEF EvaluateCell
<1>3. EvaluateCell(c, s, spec, there, pick) = CellFor(c, s, held, seen)
  BY <1>1 DEF EvaluateCell
<1>4. Fine(obs) => ~Fails(seen)
  BY ObserveKept
<1> HIDE DEF held, obs, seen
<1>5. ObserveDirectPush(s) = ObserveDirectPush(r)
  BY PushedAlike
<1>6. CASE c \in {"direct_push", Threshold}
  <2>1. CellFor(c, s, held, seen) = CellFor(c, r, held, obs)
    BY <1>6, PushCellAlike DEF CellFor, Threshold
  <2> QED
    BY <1>2, <1>3, <2>1
<1>7. CASE c \notin {"direct_push", Threshold}
  <2>1. CellFor(c, r, held, obs).verdict = VerdictFor(IF open \/ obs.unknown THEN "not_required" ELSE held.exp, obs)
    BY <1>7 DEF CellFor, Cell
  <2>2. CellFor(c, s, held, seen).verdict = VerdictFor(IF open \/ seen.unknown THEN "not_required" ELSE held.exp, seen)
    BY <1>5, <1>7 DEF CellFor, Cell
  <2>3. open \in BOOLEAN
    OBVIOUS
  <2> HIDE DEF open
  <2> QED
    BY <1>2, <1>3, <1>4, <2>1, <2>2, <2>3, VerdictKept
<1> QED
  BY <1>6, <1>7

-----------------------------------------------------------------------------
(* A snapshot. *)

\* Every reading of the snapshot is an account with every repository read.
LEMMA AccountRead ==
    ASSUME IInv, phase \in Snapped, NEW read \in Readings,
           NEW there, there = [snap EXCEPT !.repos = {read[r] : r \in snap.repos}]
    PROVE  AccountAs(snap, there) /\ there.types = snap.types
<1> DEFINE all == {read[r] : r \in snap.repos}
<1>1. {"owner", "types", "identity", "repos", "marketplace"} \subseteq DOMAIN snap
  BY DEF IInv
<1>2. there = [snap EXCEPT !.repos = all]
  OBVIOUS
<1>3. \A r \in snap.repos : ReadAs(r, read[r])
  BY ReadingIsReadAs
<1>4. \A p \in all : \E q \in snap.repos : p = read[q]
  OBVIOUS
<1>5. \A q \in snap.repos : read[q] \in all
  OBVIOUS
<1> HIDE DEF all
<1>6. /\ there.repos = all /\ there.owner = snap.owner /\ there.types = snap.types
      /\ there.identity = snap.identity /\ there.marketplace = snap.marketplace
  BY <1>1, <1>2
<1>7. /\ \A q \in snap.repos : \E p \in there.repos : ReadAs(q, p)
      /\ \A p \in there.repos : \E q \in snap.repos : ReadAs(q, p)
  BY <1>3, <1>4, <1>5, <1>6
<1> QED
  BY <1>6, <1>7 DEF AccountAs

\* A file that could not be read never hides a failure, for every account and
\* whatever the files that were not read hold: a cell that passes or does not
\* apply is no failure of the account read in full (observeTrigger,
\* cacheNixProblems, countedCell and appendFiles report what they could not
\* judge before anything else).
THEOREM UnreadNeverHides == Spec => []UnreadHidesNoFailure
<1>1. IInv => UnreadHidesNoFailure
  <2> SUFFICES ASSUME IInv, phase = "validated", NEW read \in Readings, NEW pick \in Picks,
                      NEW there, there = [snap EXCEPT !.repos = {read[r] : r \in snap.repos}],
                      NEW r \in snap.repos, NEW c \in Check, Verdict(c, r, snap, pick) \in {"pass", "na"}
               PROVE  Verdict(c, read[r], there, pick) # "fail"
    BY DEF UnreadHidesNoFailure
  <2>1. phase \in Snapped
    BY DEF Snapped
  <2>2. AccountAs(snap, there) /\ there.types = snap.types
    BY <2>1, AccountRead
  <2>3. ReadAs(r, read[r])
    BY <2>1, ReadingIsReadAs
  <2> DEFINE s == read[r]
             spec == TypeSpec(snap.types[r.type])
  <2>4. TypeSpec(there.types[s.type]) = spec
    <3>1. s.type = r.type
      BY <2>3, FieldsAlike
    <3> QED
      BY <2>2, <3>1
  <2>5. /\ Verdict(c, r, snap, pick) = EvaluateCell(c, r, spec, snap, pick).verdict
        /\ Verdict(c, s, there, pick) = EvaluateCell(c, s, spec, there, pick).verdict
    BY <2>4 DEF Verdict
  <2> HIDE DEF s, spec
  <2>6. ReadAs(r, s)
    BY <2>3 DEF s
  <2>7. Verdict(c, s, there, pick) # "fail"
    BY <2>2, <2>5, <2>6, CellKept
  <2> QED
    BY <2>7 DEF s
<1> QED
  BY <1>1, Invariance, PTL
=============================================================================
