---------------------------- MODULE ClaudeRules ----------------------------
(***************************************************************************)
(* The checks on Claude Code files (internal/rules/claude.go): skills and  *)
(* commands, hooks, the plugin manifest, and the account's marketplace.    *)
(* account is [repos, owner, marketplace]: every repository audited, and   *)
(* the marketplace, whose repo is "" when the account keeps none.          *)
(***************************************************************************)
EXTENDS NixRules

CONSTANT Semver  \* a version or a tag -> [valid, core, pre], a v before it dropped

(***************************************************************************)
(* Cells over items.  An item is [name, ok, unreadable]; one that could    *)
(* not be read fails the cell whatever the others are.                     *)
(***************************************************************************)
\* Mutant: an item that could not be read is passed over.
CountedReadable(items) ==
    CASE items = {} -> NotApplicable
      [] OTHER -> LET failed == {i.name : i \in {k \in items : ~k.ok /\ ~k.unreadable}}
                  IN Observed(failed = {}, {<<n>> : n \in failed})

CountedCell(items) ==
    CASE items = {} -> NotApplicable
      [] \E i \in items : i.unreadable -> Observed(FALSE, {<<"unreadable">>})
      [] OTHER -> LET failed == {i.name : i \in {k \in items : ~k.ok}}
                  IN Observed(failed = {}, {<<n>> : n \in failed})

KnownSkillKeys ==
    {"name", "description", "when_to_use", "argument-hint", "arguments", "disable-model-invocation",
     "user-invocable", "allowed-tools", "disallowed-tools", "model", "effort", "context", "agent",
     "background", "hooks", "paths", "shell", "metadata", "license", "compatibility", "version"}

\* The YAML tag a key's value must have; "" is any.
SkillKeyType(key) ==
    CASE key \in {"disable-model-invocation", "user-invocable"} -> "!!bool"
      [] key = "agent" -> "!!str"
      [] OTHER -> ""

KnownKeys(keys) ==
    \A k \in DOMAIN keys : k \in KnownSkillKeys /\ SkillKeyType(k) \in {"", keys[k]}

SkillDescriptionMax == 1536

KnownHookEvents ==
    {"SessionStart", "Setup", "UserPromptSubmit", "UserPromptExpansion", "PreToolUse",
     "PermissionRequest", "PermissionDenied", "PostToolUse", "PostToolUseFailure", "PostToolBatch",
     "Notification", "MessageDisplay", "SubagentStart", "SubagentStop", "TaskCreated",
     "TaskCompleted", "Stop", "StopFailure", "TeammateIdle", "InstructionsLoaded", "ConfigChange",
     "CwdChanged", "DirectoryAdded", "FileChanged", "WorktreeCreate", "WorktreeRemove", "PreCompact",
     "PostCompact", "PreModelSwitch", "PostModelSwitch", "Elicitation", "ElicitationResult",
     "SessionEnd"}

ToolMatcherEvents == {"PreToolUse", "PostToolUse", "PostToolUseFailure", "PermissionRequest", "PermissionDenied"}

RunsScript(h) == h.script # "" /\ h.type \in {"", "command"}

SkillOK(c, s) ==
    CASE c = "skill_slash_only" -> s.disableModel /\ ~s.userInvocableFalse
      [] c = "skill_name_matches_dir" -> s.name # "" /\ s.name = s.dir
      [] c = "skill_known_keys" -> KnownKeys(s.keys)
      [] c = "skill_description_length" -> s.description \in 1..SkillDescriptionMax
      [] OTHER -> s.wraps = ""

\* Which of a repository's files a skill check is about.
SkillsJudged(c, cl) ==
    CASE c \in {"skill_slash_only", "skill_known_keys"} -> cl.skills \cup cl.commands
      [] c = "skill_no_wrapper_commands" -> cl.commands
      [] OTHER -> cl.skills

SkillItems(c, skills) ==
    {[name |-> s.path, ok |-> ~s.unreadable /\ SkillOK(c, s), unreadable |-> s.unreadable] : s \in skills}

HookApplies(c, h) ==
    CASE c = "hook_command_executable" -> RunsScript(h)
      [] c = "hook_plugin_root" -> h.plugin /\ RunsScript(h)
      [] c = "hook_matcher" -> h.event \in ToolMatcherEvents
      [] OTHER -> TRUE

HookOK(c, h) ==
    CASE c = "hook_known_events" -> h.event \in KnownHookEvents
      [] c = "hook_command_executable" -> h.mode # "" /\ (h.interpreter \/ h.mode = "100755")
      [] c = "hook_plugin_root" -> h.pathForm = "plugin_root"
      [] c = "hook_timeout" -> h.timeoutSet
      [] OTHER -> h.matcher # ""

\* A source outside a plugin holds no plugin hook, read or not.
HooksJudged(c, hooks) ==
    IF c = "hook_plugin_root" THEN {h \in hooks : ~h.unreadable \/ h.plugin} ELSE hooks

HookItems(c, hooks) ==
    {[name |-> h.source, ok |-> ~h.unreadable /\ HookOK(c, h), unreadable |-> h.unreadable] :
       h \in {k \in HooksJudged(c, hooks) : k.unreadable \/ HookApplies(c, k)}}

ObserveSkillSize(skills) ==
    CASE skills = {} -> NotApplicable
      [] \E s \in skills : s.unreadable -> Observed(FALSE, {<<"unreadable">>})
      [] OTHER -> Observed(TRUE, {<<"lines">>})

(***************************************************************************)
(* Versions, by semver precedence: -1, 0 or 1.                             *)
(***************************************************************************)
CompareNumbers(a, b) == IF a = b THEN 0 ELSE IF a < b THEN -1 ELSE 1

\* A prerelease identifier is [num, text]: text is its rank, 0 for a number.
ComparePre(a, b) ==
    CASE a.text = 0 /\ b.text = 0 -> CompareNumbers(a.num, b.num)
      [] a.text = 0 /\ b.text # 0 -> -1
      [] a.text # 0 /\ b.text = 0 -> 1
      [] OTHER -> CompareNumbers(a.text, b.text)

\* The first place two sequences differ, else their lengths.
CompareSeqs(a, b, Compare(_, _)) ==
    LET shared == 1..(IF Len(a) < Len(b) THEN Len(a) ELSE Len(b))
        differ == {i \in shared : Compare(a[i], b[i]) # 0}
    IN IF differ = {} THEN CompareNumbers(Len(a), Len(b))
       ELSE LET i == CHOOSE k \in differ : \A l \in differ : k <= l IN Compare(a[i], b[i])

CompareVersions(a, b) ==
    LET core == CompareSeqs(a.core, b.core, CompareNumbers)
    IN CASE core # 0 -> core
         [] core = 0 /\ (a.pre = <<>> \/ b.pre = <<>>) ->
              IF a.pre = b.pre THEN 0 ELSE IF a.pre = <<>> THEN 1 ELSE -1
         [] OTHER -> CompareSeqs(a.pre, b.pre, ComparePre)

Comparable(version, tag) == Semver[version].valid /\ Semver[tag].valid

AtLeast(version, tag) == Comparable(version, tag) /\ CompareVersions(Semver[version], Semver[tag]) >= 0

(***************************************************************************)
(* The plugin manifest.                                                    *)
(***************************************************************************)
RequiredPluginFields == {"$schema", "author", "description", "homepage", "license", "name", "repository", "version"}

IsPlugin(r) == r.claude.plugin.present \/ r.claude.plugin.unreadable

ObservePlugin(c, r) ==
    LET p == r.claude.plugin
        tag == r.releases.latest
    IN IF ~IsPlugin(r) THEN NotApplicable
       ELSE IF p.unreadable THEN Observed(FALSE, {<<"unreadable">>})
       ELSE CASE c = "plugin_manifest_fields" -> NoProblems({<<f>> : f \in RequiredPluginFields \ p.fields})
              [] c = "plugin_no_own_marketplace" -> Observed(~p.ownMarketplace, {})
              [] c = "plugin_releases" -> Observed(tag # "", {})
              [] OTHER -> IF tag = "" THEN NotApplicable
                          ELSE Observed(AtLeast(p.version, tag), {<<p.version, tag>>})

(***************************************************************************)
(* The marketplace.                                                        *)
(***************************************************************************)
PluginRows == {"plugin_listed", "plugin_pin_valid", "plugin_pin_current"}
MarketplaceRows == {"marketplace_entries_valid", "marketplace_complete"}

MarketplaceNA(c, r, m) ==
    \/ c \in PluginRows \cup MarketplaceRows /\ m.repo = ""
    \/ c \in MarketplaceRows /\ r.name # m.repo

\* The entries whose source is the owner's repository of that name, in file
\* order; a repository is judged by the first.
EntriesFor(name, account) ==
    SelectSeq(account.marketplace.entries, LAMBDA e : e.owner = account.owner /\ e.repo = name)

PinProblems(e) ==
    LET problem == [ref |-> e.ref = "", release |-> e.ref # "" /\ ~e.releaseTag,
                    sha |-> e.sha = "", commit |-> e.sha # "" /\ e.ref # "" /\ e.tagCommit # e.sha,
                    name |-> e.pluginName = "" \/ e.pluginName # e.name]
    IN {<<p>> : p \in {q \in DOMAIN problem : problem[q]}}

PinLagLimit == 7

\* A pin behind the latest release passes while that release is a week old at most.
PinCurrent(ref, releases) ==
    \/ ref = releases.latest
    \/ AtLeast(ref, releases.latest)
    \/ releases.latest # "" /\ Within(releases.publishedAt, PinLagLimit)

\* An entry's source is a public audited plugin, and its version is the
\* manifest's to say.  Whether it is a plugin may be unknown.
EntryItems(account) ==
    LET m == account.marketplace
        target(e) == {r \in account.repos : e.owner = account.owner /\ r.name = e.repo /\ r.visibility = "public"}
        sound(e) == target(e) # {} /\ ~e.hasVersion
    IN {[name |-> e.name,
         ok |-> sound(e) /\ \E r \in target(e) : IsPlugin(r),
         unreadable |-> sound(e) /\ \E r \in target(e) : ~IsPlugin(r) /\ r.claude.unreadable] :
          e \in {m.entries[i] : i \in DOMAIN m.entries}}

MarketplaceComplete(account) ==
    NoProblems({<<r.name>> : r \in {p \in account.repos :
        IsPlugin(p) /\ p.visibility = "public" /\ EntriesFor(p.name, account) = <<>>}})

ObserveMarketplace(c, r, account) ==
    LET entries == EntriesFor(r.name, account)
        listable == IsPlugin(r) /\ r.visibility = "public"
    IN IF c \in PluginRows /\ ~listable THEN NotApplicable
       ELSE IF account.marketplace.unreadable THEN Observed(FALSE, {<<"unreadable">>})
       ELSE CASE c = "marketplace_entries_valid" -> CountedCell(EntryItems(account))
              [] c = "marketplace_complete" -> MarketplaceComplete(account)
              [] c = "plugin_listed" -> Observed(entries # <<>>, {})
              [] OTHER ->
                 IF entries = <<>> THEN NotApplicable
                 ELSE LET e == Head(entries)
                      IN IF c = "plugin_pin_valid" THEN NoProblems(PinProblems(e))
                         ELSE IF PinProblems(e) # {} THEN NotApplicable
                         ELSE Observed(PinCurrent(e.ref, r.releases), {<<e.ref, r.releases.latest>>})

(***************************************************************************)
(* Every Claude check.                                                     *)
(***************************************************************************)
SkillChecks ==
    {"skill_slash_only", "skill_name_matches_dir", "skill_known_keys", "skill_description_length",
     "skill_no_wrapper_commands"}
HookChecks == {"hook_known_events", "hook_command_executable", "hook_plugin_root", "hook_timeout", "hook_matcher"}
PluginChecks == {"plugin_manifest_fields", "plugin_no_own_marketplace", "plugin_releases", "plugin_version_matches_tag"}

ClaudeChecks == SkillChecks \cup HookChecks \cup PluginChecks \cup PluginRows \cup MarketplaceRows \cup {"skill_size"}

ObserveClaude(c, r, account) ==
    IF MarketplaceNA(c, r, account.marketplace) THEN NotApplicable
    ELSE IF c \notin MarketplaceRows /\ r.claude.unreadable THEN Observed(FALSE, {<<"unreadable">>})
    ELSE CASE c \in PluginRows \cup MarketplaceRows -> ObserveMarketplace(c, r, account)
              [] c \in PluginChecks -> ObservePlugin(c, r)
              [] c \in SkillChecks -> CountedCell(SkillItems(c, SkillsJudged(c, r.claude)))
              [] c \in HookChecks -> CountedCell(HookItems(c, r.claude.hooks))
              [] OTHER -> ObserveSkillSize(r.claude.skills)

=============================================================================
