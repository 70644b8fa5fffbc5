------------------------------ MODULE Standard ------------------------------
(***************************************************************************)
(* What repos.toml may say and what it makes the rules expect of one       *)
(* repository: the checks and the words (internal/rules/check.go,          *)
(* types.go, expectation.go), durations (duration.go), overrides and which *)
(* of them are dead (validate.go, releaseage.go), the owner's identities   *)
(* (identity.go), the account's norms (modal.go, deviation.go) and the     *)
(* validation of the file (internal/config/config.go).  Everything here is *)
(* a function of its arguments.                                            *)
(***************************************************************************)
EXTENDS Integers, Sequences, FiniteSets

CONSTANTS Spelling,         \* repos.toml duration word -> [n, unit]
          RenovateSpelling, \* minimumReleaseAge as Renovate reads it -> sequence of [n, unit]
          MaxDuration       \* the longest time.Duration, in minutes

ASSUME DurationAssumption == MaxDuration \in Nat \ {0}

(***************************************************************************)
(* Checks, in the order of the worklist.                                   *)
(***************************************************************************)
Checks == <<
  "readme", "description", "license", "gitignore", "ci_workflows", "required_checks", "ci_on_pr",
  "ci_on_push", "branch_up_to_date", "ci_green", "renovate", "renovate_min_release_age",
  "renovate_automerge_major", "renovate_dashboard", "editorconfig", "flake_nix", "justfile",
  "homepage", "topics", "community_files", "releases", "changelog", "license_file",
  "security_policy", "codeowners", "pr_template", "claude_md", "commitlint", "git_cliff", "treefmt",
  "compose", "typos", "yamllint", "markdownlint", "prettier", "editorconfig_checker", "lychee",
  "zizmor", "codecov", "mkdocs", "signed_commits", "git_identity", "tag_ruleset", "direct_push",
  "secret_scanning", "vuln_reporting", "nix_lock_age", "nix_lock_refresh", "nix_cache",
  "nix_installer", "nix_getflake_git", "devshell_scripts", "devshell_tmp_cleanup", "go_paths",
  "go_cache", "cache_save_default_branch", "cache_usage", "ci_cancel_superseded", "job_timeouts",
  "skill_slash_only", "skill_name_matches_dir", "skill_known_keys", "skill_description_length",
  "skill_no_wrapper_commands", "hook_known_events", "hook_command_executable", "hook_plugin_root",
  "hook_timeout", "hook_matcher", "plugin_manifest_fields", "plugin_no_own_marketplace",
  "plugin_releases", "plugin_version_matches_tag", "plugin_listed", "plugin_pin_valid",
  "plugin_pin_current", "marketplace_entries_valid", "marketplace_complete", "last_release_age",
  "last_push", "open_prs", "branches", "artifact_storage", "skill_size", "claude_mcp_config",
  "claude_settings" >>

Check == {Checks[i] : i \in DOMAIN Checks}

ValueOnly == {"last_release_age", "last_push", "open_prs", "branches", "artifact_storage",
              "skill_size", "claude_mcp_config", "claude_settings"}

PathChecks == {"justfile", "renovate", "license_file", "security_policy", "codeowners",
               "pr_template", "claude_md", "commitlint", "git_cliff", "treefmt", "compose", "typos",
               "yamllint", "markdownlint", "prettier", "editorconfig_checker", "lychee", "zizmor",
               "codecov", "mkdocs"}

Threshold == "renovate_min_release_age"

(***************************************************************************)
(* Durations, in minutes; NoDuration is a word that is not one.            *)
(***************************************************************************)
NoDuration == -1

Units == [minute |-> 1, hour |-> 60, day |-> 1440, week |-> 10080, month |-> 43200, year |-> 525960]

\* A repos.toml threshold; a count too large for a time.Duration is refused.
ParseThreshold(word) ==
    IF word \notin DOMAIN Spelling THEN NoDuration
    ELSE LET s == Spelling[word]
         IN IF s.n > MaxDuration \div Units[s.unit] THEN NoDuration ELSE s.n * Units[s.unit]

\* A value as Renovate reads it: its parts summed; a negative total, or one too
\* large, is not a quarantine to credit.
ParseRenovateDuration(value) ==
    IF value \notin DOMAIN RenovateSpelling THEN NoDuration
    ELSE LET parts == RenovateSpelling[value]
             sum[i \in 0..Len(parts)] ==
               IF i = 0 THEN 0 ELSE sum[i - 1] + parts[i].n * Units[parts[i].unit]
         IN IF parts = <<>> \/ sum[Len(parts)] < 0 \/ sum[Len(parts)] > MaxDuration
              THEN NoDuration ELSE sum[Len(parts)]

(***************************************************************************)
(* Words.  An expectation is written as the word that spells it.           *)
(***************************************************************************)
Expectations == {"not_required", "required", "public", "public_published", "info"}

\* A duration is spelt with a count and a unit, as none of these words is.
ASSUME SpellingAssumption == ({"none"} \cup Expectations) \cap DOMAIN Spelling = {}

AllowedWords(c) ==
    CASE c = "direct_push" -> {"blocked", "allowed"}
      [] c \in ValueOnly \cup {Threshold} -> {"info", "not_required"}
      [] OTHER -> Expectations

WordAccepted(c, word) ==
    (c = Threshold /\ ParseThreshold(word) # NoDuration) \/ word \in AllowedWords(c)

\* What an override may say: a type's words, and for direct push two more.
ValidOverride(c, word) ==
    IF c = Threshold THEN ParseThreshold(word) # NoDuration \/ word \in {"not_required", "info"}
    ELSE word \in AllowedWords(c) \cup IF c = "direct_push" THEN {"required", "not_required"} ELSE {}

\* Every (type, key) that makes a types table unusable.
TypeProblems(types) ==
    UNION {{<<t, c>> : c \in {k \in Check \cup DOMAIN types[t] :
                                \/ k \notin Check \/ k \notin DOMAIN types[t]
                                \/ ~WordAccepted(k, types[t][k])}} : t \in DOMAIN types}

\* compileTypes for one type: direct push is always judged, against its word; a
\* duration means "at least this long".
TypeSpec(words) ==
    LET age == ParseThreshold(words[Threshold])
    IN [cells |-> [c \in Check |-> IF c = "direct_push" \/ (c = Threshold /\ age # NoDuration)
                                     THEN "required" ELSE words[c]],
        directPush |-> words["direct_push"],
        minReleaseAge |-> age]

\* Visibility and publication applied to an expectation.
Resolve(exp, public, published) ==
    CASE exp = "public" -> IF public THEN "required" ELSE "not_required"
      [] exp = "public_published" -> IF public /\ published THEN "required" ELSE "not_required"
      [] OTHER -> exp

Conditional == {"public", "public_published"}

Decides(exp) == exp \in Expectations \ Conditional

OverrideUnconditional(word) == word \notin Conditional

(***************************************************************************)
(* What one repository is held to on one check, overrides included: the    *)
(* expectation evaluateRepo, directPushCell and minReleaseAgeCell arrive   *)
(* at before they look at what was collected.                              *)
(***************************************************************************)
Held(c, spec, decl, public) ==
    LET over == IF c \in DOMAIN decl.overrides THEN decl.overrides[c] ELSE "none"
        base == spec.cells[c]
        age == ParseThreshold(over)
    IN CASE over = "none" ->
              [exp |-> Resolve(base, public, decl.published), want |-> spec.directPush,
               age |-> spec.minReleaseAge]
         [] c = "direct_push" /\ over # "none" ->
              [exp |-> IF over = "not_required" THEN "not_required" ELSE "required",
               want |-> IF over \in {"not_required", "required"} THEN spec.directPush ELSE over,
               age |-> spec.minReleaseAge]
         [] c = Threshold /\ over # "none" ->
              [exp |-> IF over \in {"not_required", "info"} THEN over
                       ELSE IF age # NoDuration THEN "required" ELSE base,
               want |-> spec.directPush,
               age |-> IF over \notin {"not_required", "info"} /\ age # NoDuration
                         THEN age ELSE spec.minReleaseAge]
         [] OTHER ->
              [exp |-> Resolve(IF over \in Expectations THEN over ELSE base, public, decl.published),
               want |-> spec.directPush, age |-> spec.minReleaseAge]

(***************************************************************************)
(* Dead overrides.                                                         *)
(***************************************************************************)
ThresholdDead(spec, exp, word) ==
    \/ exp = "info"
    \/ exp = "not_required" /\ word = "not_required"
    \/ exp = "required" /\ ParseThreshold(word) # NoDuration /\ ParseThreshold(word) = spec.minReleaseAge

Dead(c, spec, exp, word) ==
    CASE c = Threshold -> ThresholdDead(spec, exp, word)
      [] c = "direct_push" ->
           word = "required" \/ (word # "not_required" /\ word = spec.directPush)
      [] OTHER -> word \in Expectations /\ word = exp

\* The overrides the declarations and the types alone condemn.
OfflineDead(types, decl) ==
    IF decl.type \notin DOMAIN types THEN {}
    ELSE LET spec == TypeSpec(types[decl.type])
         IN {c \in DOMAIN decl.overrides \cap Check :
               /\ Decides(spec.cells[c]) /\ OverrideUnconditional(decl.overrides[c])
               /\ Dead(c, spec, spec.cells[c], decl.overrides[c])}

\* Mutant: a conditional word is compared as it is written, not as it resolves.
LiveDeadWritten(types, decl, public) ==
    LET spec == TypeSpec(types[decl.type])
    IN {c \in DOMAIN decl.overrides \cap Check :
          /\ ~(Decides(spec.cells[c]) /\ OverrideUnconditional(decl.overrides[c]))
          /\ Dead(c, spec, Resolve(spec.cells[c], public, decl.published), decl.overrides[c])}

\* Those that need the live visibility: Validate's part.
LiveDead(types, decl, public) ==
    LET spec == TypeSpec(types[decl.type])
        word(c) == IF decl.overrides[c] \in Expectations
                     THEN Resolve(decl.overrides[c], public, decl.published)
                     ELSE decl.overrides[c]
    IN {c \in DOMAIN decl.overrides \cap Check :
          /\ ~(Decides(spec.cells[c]) /\ OverrideUnconditional(decl.overrides[c]))
          /\ Dead(c, spec, Resolve(spec.cells[c], public, decl.published), word(c))}

\* Validate: published on a repository that is not public has no answer.
LiveProblems(types, decl, public) ==
    LiveDead(types, decl, public) \cup IF decl.published /\ ~public THEN {"published"} ELSE {}

(***************************************************************************)
(* Verdicts.                                                               *)
(***************************************************************************)
VerdictFor(exp, obs) ==
    CASE exp = "info" -> "info"
      [] exp = "required" -> IF obs.pending THEN "info" ELSE IF obs.ok THEN "pass" ELSE "fail"
      [] OTHER -> "na"

(***************************************************************************)
(* The owner's identities.  An address is compared without its case, so    *)
(* an identity is [name, email, form]; form orders the spellings.          *)
(***************************************************************************)
Malformed == [name |-> "", email |-> "", form |-> 0]

SameIdentity(a, b) == a.name = b.name /\ a.email = b.email

NoStandard == [canonical |-> Malformed, accepted |-> <<>>, match |-> {}, compiles |-> FALSE]

\* Every way an [identity] table is unusable.
IdentityProblems(std) ==
    LET ok == std.canonical # Malformed
        parsed == {i \in DOMAIN std.accepted : std.accepted[i] # Malformed}
    IN \/ ~ok \/ ~std.compiles
       \/ ok /\ std.compiles /\ std.canonical \notin std.match
       \/ \E i \in DOMAIN std.accepted :
            \/ i \notin parsed
            \/ std.compiles /\ std.accepted[i] \notin std.match
            \/ ok /\ SameIdentity(std.accepted[i], std.canonical)
            \/ \E k \in parsed : k < i /\ SameIdentity(std.accepted[i], std.accepted[k])

Kind(std, id) ==
    CASE SameIdentity(id, std.canonical) -> "canonical"
      [] \E i \in DOMAIN std.accepted : SameIdentity(id, std.accepted[i]) -> "accepted"
      [] OTHER -> "wrong"

\* The spelling the standard gives an identity it names.
Declared(std, id) ==
    CASE SameIdentity(id, std.canonical) -> std.canonical
      [] \E i \in DOMAIN std.accepted : SameIdentity(id, std.accepted[i]) ->
           std.accepted[CHOOSE i \in DOMAIN std.accepted : SameIdentity(id, std.accepted[i])]
      [] OTHER -> id

\* The owner's identities: what match accepts, one spelling each.
Mine(std, ids) ==
    {Declared(std, id) : id \in {a \in ids \cap std.match :
        \A b \in ids \cap std.match : SameIdentity(a, b) => a.form <= b.form}}

\* A line of the identities listing.
IdentityLine(std, ids) ==
    LET mine == Mine(std, ids)
    IN [identities |-> mine,
        mixed |-> Cardinality({id \in mine : Kind(std, id) # "accepted"}) >= 2,
        clean |-> \A id \in mine : Kind(std, id) # "wrong"]

(***************************************************************************)
(* The account's norms: values is a function from the repositories a       *)
(* setting applies to.  "" is no consensus.                                *)
(***************************************************************************)
Count(values, v) == Cardinality({r \in DOMAIN values : values[r] = v})

Values(values) == {values[r] : r \in DOMAIN values}

\* The values no other outnumbers.
Best(values) == {v \in Values(values) : \A w \in Values(values) : Count(values, w) <= Count(values, v)}

\* modalValue: the first of the best in the order of their spelling, when more
\* than half the repositories have it; CHOOSE stands for that order.
ModalValue(values) ==
    LET best == CHOOSE v \in Best(values) : TRUE
    IN IF Best(values) = {} \/ 2 * Count(values, best) <= Cardinality(DOMAIN values) THEN "" ELSE best

ModalExceptions(values) ==
    IF ModalValue(values) = "" THEN {} ELSE {r \in DOMAIN values : values[r] # ModalValue(values)}

\* The repositories whose path is not the usual one; nothing when the highest
\* count is shared or there is one value only.
Deviates(values) ==
    LET found == [r \in {q \in DOMAIN values : values[q] # {}} |-> values[r]]
    IN IF Cardinality(Values(found)) < 2 \/ Cardinality(Best(found)) # 1 THEN {}
       ELSE {r \in DOMAIN found : found[r] \notin Best(found)}

(***************************************************************************)
(* The file.                                                               *)
(***************************************************************************)
\* Mutant: an override cannot make a check judged.
JudgesByType(config, c) ==
    \E t \in DOMAIN config.types :
      c \in DOMAIN config.types[t] /\ config.types[t][c] \notin {"", "not_required"}

\* Some type or override gives the check a word other than not_required.
Judges(config, c) ==
    \/ \E t \in DOMAIN config.types :
         c \in DOMAIN config.types[t] /\ config.types[t][c] \notin {"", "not_required"}
    \/ \E r \in DOMAIN config.repos :
         /\ c \in DOMAIN config.repos[r].overrides
         /\ config.repos[r].overrides[c] # "not_required"

\* One entry: a possible name, a known type, and overrides that mean something.
EntryProblems(config, r) ==
    LET e == config.repos[r]
    IN IF r \in config.impossible THEN TRUE
       ELSE \/ e.type \notin DOMAIN config.types
            \/ \E c \in DOMAIN e.overrides :
                 c \notin Check \/ e.overrides[c] = "" \/ ~ValidOverride(c, e.overrides[c])

IdentityTableProblems(config) ==
    CASE config.identity = NoStandard -> Judges(config, "git_identity")
      [] config.identity # NoStandard /\ ~Judges(config, "git_identity") -> TRUE
      [] OTHER -> IdentityProblems(config.identity)

\* config.Parse accepts the file.
Parses(config) ==
    /\ ~config.unknownKeys
    /\ DOMAIN config.types # {} /\ DOMAIN config.repos # {}
    /\ TypeProblems(config.types) = {}
    /\ \A r \in DOMAIN config.repos : ~EntryProblems(config, r)
    /\ ~IdentityTableProblems(config)
    /\ config.marketplace = "" \/ config.marketplace \in DOMAIN config.repos

\* Where the file and the account disagree about which repositories exist.
Coverage(discovered, declared) ==
    [unconfigured |-> discovered \ declared, stale |-> declared \ discovered]
=============================================================================
