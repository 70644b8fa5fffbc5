------------------------------- MODULE Audit -------------------------------
(***************************************************************************)
(* From one snapshot to one report (internal/rules/evaluate.go): what each *)
(* check observes of a repository, its verdict, and the lists drawn from   *)
(* the verdicts (gaps.go, modal.go, deviation.go, identitylines.go).  A    *)
(* snapshot is [types, identity, owner, marketplace, repos, drift], repos  *)
(* a set of repository records; pick is the spelling of a step's input     *)
(* that a walk over a Go map meets first (NixRules!Input).                 *)
(***************************************************************************)
EXTENDS ClaudeRules, Standard

(***************************************************************************)
(* Rules on the repository, its branch and its settings.                   *)
(***************************************************************************)
Has(ok) == Observed(ok, {})

PathObservation(paths) == Observed(paths # {}, {<<p>> : p \in paths})

Number(n) == {<<ToString(n)>>}

ActiveRulesets(r, target) == SelectSeq(r.rulesets, LAMBDA s : s.target = target /\ s.enforcement = "ACTIVE")

TagRuleset(r) ==
    LET tags == ActiveRulesets(r, "TAG")
    IN IF tags = <<>> THEN Has(FALSE)
       ELSE Observed(TRUE, {<<IF Head(tags).whole THEN "default" ELSE Head(tags).name>>})

MergeGateCheck == "merge-gate"

RequiredChecks(r) ==
    LET own == r.branch.requiredChecks \ {MergeGateCheck}
    IN IF ~r.branch.known THEN NotApplicable
       ELSE Observed(own # {}, IF own = {} THEN {} ELSE Number(Cardinality(own)))

UpToDate(r) ==
    IF ~r.branch.known THEN NotApplicable
    ELSE Has(r.branch.strict /\ r.branch.requiredChecks # {})

\* A run still going is no failure.
CIGreen(r) ==
    [Observed(r.ciState \in {"SUCCESS", "EXPECTED"}, IF r.ciState = "" THEN {} ELSE {<<r.ciState>>})
       EXCEPT !.pending = r.ciState = "PENDING"]

HasRealWorkflow(r) == \E w \in Files(r) : ~IsMergeGate(w)

\* The rules of the branch when they are known, else the rulesets'.
ObserveDirectPush(r) ==
    IF \/ r.branch.known /\ "pull_request" \in r.branch.types
       \/ ~r.branch.known /\ \E i \in DOMAIN ActiveRulesets(r, "BRANCH") :
                               "PULL_REQUEST" \in ActiveRulesets(r, "BRANCH")[i].rules
      THEN "blocked" ELSE "allowed"

RenovateDashboard(r) ==
    IF r.files["renovate"] = {} THEN NotApplicable
    ELSE Observed(r.settings.hasIssues /\ r.dashboard = "open",
                  {<<IF r.settings.hasIssues THEN r.dashboard ELSE "issues off">>})

AutomergeMajor(r) ==
    IF r.files["renovate"] = {} THEN NotApplicable
    ELSE Observed(r.renovate.automergeMajor,
                  IF ~r.renovate.automergeMajor /\ r.renovate.error THEN {<<"unresolved">>} ELSE {})

GitIdentity(r, std) ==
    IF r.empty \/ Mine(std, r.identities) = {} THEN NotApplicable
    ELSE LET wrong == {id \in Mine(std, r.identities) : Kind(std, id) = "wrong"}
         IN Observed(wrong = {}, IF wrong = {} THEN {} ELSE Number(Cardinality(wrong)))

(***************************************************************************)
(* What a check observes.                                                  *)
(***************************************************************************)
CommunityFiles == {"security", "contributing", "code_of_conduct"}

PresentChecks == [readme |-> "readme", gitignore |-> "gitignore", editorconfig |-> "editorconfig",
                  flake_nix |-> "flake_nix", changelog |-> "changelog"]

ObserveRepository(c, r) ==
    CASE c \in DOMAIN PresentChecks -> Has(r.present[PresentChecks[c]])
      [] c = "description" -> Has(r.description)
      [] c = "homepage" -> Has(r.homepage)
      [] c = "license" -> Observed(r.license \notin {"", "NOASSERTION"}, {<<r.license>>})
      [] c = "topics" -> Observed(r.topics > 0, Number(r.topics))
      [] c = "community_files" ->
           LET n == Cardinality({f \in CommunityFiles : r.present[f]})
           IN Observed(n = Cardinality(CommunityFiles), Number(n))
      [] c = "signed_commits" ->
           IF r.branch.known THEN Has("required_signatures" \in r.branch.types) ELSE NotApplicable
      [] c = "secret_scanning" ->
           IF r.settings.secretScanning = "" THEN NotApplicable ELSE Has(r.settings.secretScanning = "enabled")
      [] c = "vuln_reporting" ->
           IF r.settings.vulnReporting = "unread" THEN NotApplicable ELSE Has(r.settings.vulnReporting = "on")
      [] c = "ci_workflows" -> Has(HasRealWorkflow(r))
      [] c = "releases" -> Observed(r.releases.total > r.releases.drafts, Number(r.releases.total - r.releases.drafts))
      [] c = "tag_ruleset" -> TagRuleset(r)
      [] c = "required_checks" -> RequiredChecks(r)
      [] c = "branch_up_to_date" -> UpToDate(r)
      [] c = "ci_green" -> CIGreen(r)
      [] c = "renovate_dashboard" -> RenovateDashboard(r)
      [] c = "renovate_automerge_major" -> AutomergeMajor(r)
      [] OTHER -> Has(FALSE)

ObserveWorkflows(c, r, pick) ==
    CASE c = "ci_on_pr" -> CIOnPR(r)
      [] c = "ci_on_push" -> CIOnPush(r)
      [] c = "ci_cancel_superseded" -> CancelSuperseded(r)
      [] c = "job_timeouts" -> JobTimeouts(r)
      [] c = "cache_save_default_branch" -> CacheSaveDefaultBranch(r)
      [] c = "cache_usage" -> CacheUsage(r)
      [] c = "go_cache" -> GoCache(r)
      [] c = "go_paths" -> GoPaths(r)
      [] c = "nix_lock_age" -> LockAge(r)
      [] c = "nix_lock_refresh" -> LockRefresh(r)
      [] c = "nix_cache" -> NixCache(r)
      [] c = "nix_installer" -> NixInstaller(r, pick)
      [] c = "nix_getflake_git" -> NixGetFlakeGit(r)
      [] c = "devshell_scripts" -> DevshellScripts(r)
      [] c = "devshell_tmp_cleanup" -> DevshellTmpCleanup(r)

WorkflowChecks == {"ci_on_pr", "ci_on_push", "ci_cancel_superseded", "job_timeouts",
                   "cache_save_default_branch", "cache_usage", "go_cache", "go_paths", "nix_lock_age",
                   "nix_lock_refresh", "nix_cache", "nix_installer", "nix_getflake_git",
                   "devshell_scripts", "devshell_tmp_cleanup"}

Observe(c, r, snap, pick) ==
    CASE c = "git_identity" -> IF snap.identity = NoStandard THEN NotApplicable ELSE GitIdentity(r, snap.identity)
      [] c \in PathChecks \cup {"claude_mcp_config", "claude_settings"} -> PathObservation(r.files[c])
      [] c \in ClaudeChecks -> ObserveClaude(c, r, snap)
      [] c \in WorkflowChecks -> ObserveWorkflows(c, r, pick)
      [] OTHER -> ObserveRepository(c, r)

(***************************************************************************)
(* Cells.                                                                  *)
(***************************************************************************)
Cell(verdict, value) == [verdict |-> verdict, value |-> value]

DirectPushCell(r, held) ==
    LET observed == ObserveDirectPush(r)
    IN Cell(IF held.exp = "not_required" THEN "na" ELSE IF observed = held.want THEN "pass" ELSE "fail",
            {<<observed>>})

MinReleaseAgeCell(r, held) ==
    LET rn == r.renovate
        age == IF rn.error \/ rn.minReleaseAge = "" THEN NoDuration ELSE ParseRenovateDuration(rn.minReleaseAge)
        value == IF rn.error \/ (rn.minReleaseAge # "" /\ age = NoDuration) THEN "unresolved"
                 ELSE IF rn.minReleaseAge = "" THEN "none" ELSE rn.minReleaseAge
    IN IF r.files["renovate"] = {} THEN Cell("na", {})
       ELSE Cell(CASE held.exp = "info" -> "info"
                   [] held.exp = "required" -> IF age # NoDuration /\ age >= held.age THEN "pass" ELSE "fail"
                   [] OTHER -> "na", {<<value>>})

\* evaluateRepo for one check held to held and observed as obs.  Requiring
\* checks, or an up to date branch, on a branch anyone may push to says nothing.
CellFor(c, r, held, obs) ==
    LET open == c \in {"required_checks", "branch_up_to_date"} /\ ObserveDirectPush(r) = "allowed"
        exp == IF open \/ obs.unknown THEN "not_required" ELSE held.exp
    IN CASE c = "direct_push" -> DirectPushCell(r, held)
         [] c = Threshold -> MinReleaseAgeCell(r, held)
         [] OTHER -> Cell(VerdictFor(exp, obs), obs.value)

EvaluateCell(c, r, spec, snap, pick) ==
    CellFor(c, r, Held(c, spec, r, r.visibility = "public"), Observe(c, r, snap, pick))

EvaluateRepo(r, snap, pick) ==
    [c \in Check |-> EvaluateCell(c, r, TypeSpec(snap.types[r.type]), snap, pick)]

\* The snapshot holds something evaluateRepo cannot judge: it returns an error,
\* and there is no report.
EvaluateFails(snap) ==
    \E r \in snap.repos :
      \/ r.type \notin DOMAIN snap.types
      \/ /\ snap.identity = NoStandard
         /\ Held("git_identity", TypeSpec(snap.types[r.type]), r, r.visibility = "public").exp # "not_required"

(***************************************************************************)
(* The worklist.  A gap is [check, label, repos].                          *)
(***************************************************************************)
Unlabelled == ValueOnly \cup {"community_files", "direct_push"}

Failing(cells, c) == {n \in DOMAIN cells : cells[n][c].verdict = "fail"}

CommunityGaps(repos, cells) ==
    {[check |-> "community_files", label |-> f,
      repos |-> {r.name : r \in {q \in repos : q.name \in Failing(cells, "community_files") /\ ~q.present[f]}}] :
       f \in CommunityFiles}

DirectPushGaps(cells) ==
    {[check |-> "direct_push", label |-> o,
      repos |-> {n \in Failing(cells, "direct_push") : cells[n]["direct_push"].value = {<<o>>}}] :
       o \in {"allowed", "blocked"}}

\* Mutant: the community gaps are listed whether or not the check failed.
CollectGapsUnjudged(repos, cells) ==
    {g \in {[check |-> "community_files", label |-> f,
             repos |-> {r.name : r \in {q \in repos : ~q.present[f]}}] : f \in CommunityFiles}
            \cup DirectPushGaps(cells)
            \cup {[check |-> c, label |-> c, repos |-> Failing(cells, c)] : c \in Check \ Unlabelled} :
       g.repos # {}}

CollectGaps(repos, cells) ==
    {g \in CommunityGaps(repos, cells) \cup DirectPushGaps(cells)
            \cup {[check |-> c, label |-> c, repos |-> Failing(cells, c)] : c \in Check \ Unlabelled} :
       g.repos # {}}

CollectOverrides(repos) == UNION {{<<r.name, c, r.overrides[c]>> : c \in DOMAIN r.overrides} : r \in repos}

(***************************************************************************)
(* Norms: settings that are read are on or off or a word; "" was not read. *)
(***************************************************************************)
SettingValues(repos, label) ==
    LET read == {r \in repos : r.settings.norms[label] # ""}
    IN [n \in {r.name : r \in read} |-> (CHOOSE r \in read : r.name = n).settings.norms[label]]

SettingLabels(repos) == UNION {DOMAIN r.settings.norms : r \in repos}

Exceptions(repos) ==
    UNION {{<<n, l>> : n \in ModalExceptions(SettingValues(repos, l))} : l \in SettingLabels(repos)}

NoConsensus(repos) ==
    {l \in SettingLabels(repos) : SettingValues(repos, l) # <<>> /\ ModalValue(SettingValues(repos, l)) = ""}

Deviations(cells) ==
    UNION {{<<n, c>> : n \in Deviates([m \in DOMAIN cells |-> cells[m][c].value])} : c \in PathChecks}

(***************************************************************************)
(* The report.                                                             *)
(***************************************************************************)
ReportOf(snap, cells) ==
    LET detail(c, Items(_)) ==
          {r.name : r \in DetailLists(snap.repos, LAMBDA r : cells[r.name][c].verdict, Items)}
    IN [cells |-> cells, gaps |-> CollectGaps(snap.repos, cells), drift |-> snap.drift,
        cancelMissing |-> detail("ci_cancel_superseded", LAMBDA r : CancelMissing(r).missing),
        timeoutMissing |-> detail("job_timeouts", LAMBDA r : TimeoutMissing(r).missing),
        devshellScripts |-> detail("devshell_scripts", LAMBDA r : DevshellScriptProblems(r.devshell)),
        devshellWrapper |-> detail("devshell_tmp_cleanup", LAMBDA r : DevshellWrapperProblems(r.devshell)),
        timing |-> {<<r.name, CITimingLine(r)>> : r \in snap.repos},
        caches |-> {<<r.name, CacheLists(r), PRCaches(r)>> : r \in snap.repos},
        overrides |-> CollectOverrides(snap.repos),
        exceptions |-> Exceptions(snap.repos), noConsensus |-> NoConsensus(snap.repos),
        deviations |-> Deviations(cells),
        identities |-> IF snap.identity = NoStandard THEN {}
                       ELSE {<<r.name, IdentityLine(snap.identity, r.identities)>> :
                               r \in {q \in snap.repos : Mine(snap.identity, q.identities) # {}}}]

Evaluate(snap, pick) ==
    LET repo(n) == CHOOSE r \in snap.repos : r.name = n
    IN ReportOf(snap, [n \in {r.name : r \in snap.repos} |-> EvaluateRepo(repo(n), snap, pick)])
=============================================================================
