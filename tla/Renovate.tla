------------------------------ MODULE Renovate ------------------------------
(***************************************************************************)
(* What a repository's Renovate configuration comes to                     *)
(* (internal/renovate): the extends entries it follows, the layers they    *)
(* make, and whether the updates to a new major version merge themselves.  *)
(* A configuration is a JSON object of the keys the tool reads; a key that *)
(* may hold true or false is "absent", "yes", "no" or "bad" (anything      *)
(* else).                                                                  *)
(***************************************************************************)
EXTENDS Integers, Sequences, FiniteSets, SequencesExt

CONSTANTS Owner,       \* whose presets are followed
          MaxExtends   \* maxDepth

ASSUME RenovateAssumption == MaxExtends \in Nat

(***************************************************************************)
(* References.  One is [platform, owner, repo, unsupported, dir, name,     *)
(* file, gitRef]: platform is "" for a bare name, "github", "local" or     *)
(* "foreign"; unsupported is a sub-preset with directories of its own, or  *)
(* a path with a sub-preset; dir is the directories of a path, name what   *)
(* follows them, and file that name with its extension.                    *)
(***************************************************************************)
NotFollowed == [follow |-> FALSE, problem |-> FALSE, key |-> <<>>, fallback |-> <<>>]

Account(ref) == ref.owner = Owner /\ ref.repo # ""

\* default, or no name, may be the renovate.json beside it instead.
ParsePreset(ref) ==
    LET default == ref.name \in {"", "default"}
        at(file) == <<ref.repo, ref.dir \o file, ref.gitRef>>
    IN CASE ref.platform = "foreign" -> NotFollowed
         [] ref.platform # "foreign" /\ ref.unsupported -> [NotFollowed EXCEPT !.follow = TRUE, !.problem = TRUE]
         [] ref.platform # "foreign" /\ ~ref.unsupported /\ ~Account(ref) -> NotFollowed
         [] OTHER -> [follow |-> TRUE, problem |-> FALSE, key |-> at(IF default THEN "default.json" ELSE ref.file),
                      fallback |-> IF default THEN at("renovate.json") ELSE <<>>]

(***************************************************************************)
(* Layers.  What one layer says of a key: "absent" leaves the layer below. *)
(***************************************************************************)
Flags == {"automerge", "enabled", "approval", "majorAutomerge", "majorEnabled", "majorApproval"}

Silent == [age |-> [set |-> FALSE, value |-> ""], nix |-> "absent", lockFile |-> "absent",
           managers |-> [set |-> FALSE, names |-> {}],
           flags |-> [f \in Flags |-> "absent"], bad |-> FALSE, rules |-> <<>>]

Later(a, b) == IF b = "absent" THEN a ELSE b

\* layered.over: o on top of l; package rules add up, and a bad value is never undone.
Over(l, o) ==
    [age |-> IF o.age.set THEN o.age ELSE l.age,
     nix |-> Later(l.nix, o.nix), lockFile |-> Later(l.lockFile, o.lockFile),
     managers |-> IF o.managers.set THEN o.managers ELSE l.managers,
     flags |-> [f \in Flags |-> Later(l.flags[f], o.flags[f])],
     bad |-> l.bad \/ o.bad, rules |-> l.rules \o o.rules]

\* A true or false of the object itself; anything else there is bad.
OwnTri(word) == IF word = "bad" THEN "absent" ELSE word

\* nix and lockFileMaintenance: an object's enabled; a value that is no object,
\* and an enabled that is no boolean, are off.
OwnFlag(word) ==
    CASE word \in {"absent", "noEnabled"} -> "absent"
      [] word = "yes" -> "yes"
      [] OTHER -> "no"

OwnAssignment(cfg) ==
    CASE cfg.minimumReleaseAge \notin {"absent", "null"} -> [set |-> TRUE, value |-> cfg.minimumReleaseAge]
      [] cfg.minimumReleaseAge \in {"absent", "null"} /\ cfg.stabilityDays # "absent" ->
           [set |-> TRUE, value |-> IF cfg.stabilityDays = "0 days" THEN "" ELSE cfg.stabilityDays]
      [] OTHER -> [set |-> cfg.minimumReleaseAge = "null", value |-> ""]

\* A release age that is a template or no string, a stabilityDays that is no whole number.
AssignmentBad(cfg) ==
    IF cfg.minimumReleaseAge \notin {"absent", "null"} THEN cfg.minimumReleaseAge = "bad"
    ELSE cfg.stabilityDays = "bad"

(***************************************************************************)
(* Package rules.  A rule is [object, selectors, lists, automerge,         *)
(* enabled, approval]: selectors are its other match and exclude keys,     *)
(* lists what its matchUpdateTypes and updateTypes name.                   *)
(***************************************************************************)
MalformedRule == [appliesToMajor |-> FALSE, narrowed |-> FALSE, malformed |-> TRUE,
              automerge |-> "absent", enabled |-> "absent", approval |-> "absent"]

\* Whether a pattern names major updates cannot be told, so a rule that has one may.
OwnRule(obj) ==
    LET named == UNION {obj.lists[i] : i \in DOMAIN obj.lists}
    IN IF ~obj.object THEN MalformedRule
       ELSE [appliesToMajor |-> obj.lists = <<>> \/ named \cap {"major", "pattern"} # {},
             narrowed |-> obj.selectors # {} \/ Len(obj.lists) = 2 \/ "pattern" \in named,
             malformed |-> \/ obj.selectors = {} /\ obj.lists = <<>>
                           \/ {} \in ToSet(obj.lists) \/ "bad" \in named
                           \/ "bad" \in {obj.automerge, obj.enabled, obj.approval},
             automerge |-> OwnTri(obj.automerge), enabled |-> OwnTri(obj.enabled),
             approval |-> OwnTri(obj.approval)]

\* What the tool reads of a configuration: its lists are lists, and a key of a
\* package rule is not there, true, false or anything else.
WellFormed(cfg) ==
    /\ cfg.extends \in Seq(ToSet(cfg.extends)) /\ cfg.rules \in Seq(ToSet(cfg.rules))
    /\ \A i \in DOMAIN cfg.rules :
         {cfg.rules[i].automerge, cfg.rules[i].enabled, cfg.rules[i].approval} \subseteq {"absent", "yes", "no", "bad"}

OwnRules(cfg) == IF cfg.rulesList THEN [i \in DOMAIN cfg.rules |-> OwnRule(cfg.rules[i])] ELSE <<MalformedRule>>

OwnLayer(cfg) ==
    [age |-> OwnAssignment(cfg), nix |-> OwnFlag(cfg.nix), lockFile |-> OwnFlag(cfg.lockFile),
     managers |-> cfg.managers,
     flags |-> [f \in Flags |-> OwnTri(cfg.flags[f])],
     bad |-> cfg.majorBad \/ \E f \in Flags : cfg.flags[f] = "bad",
     rules |-> OwnRules(cfg)]

\* The presets the tool knows without reading them.
BuiltinLayer(name) ==
    CASE name \in {":maintainLockFilesWeekly", ":maintainLockFilesMonthly", "config:best-practices",
                   "config:semverAllWeekly", "config:semverAllMonthly"} -> [Silent EXCEPT !.lockFile = "yes"]
      [] name = ":maintainLockFilesDisabled" -> [Silent EXCEPT !.lockFile = "no"]
      [] name \in {":automergeAll", ":automergeMajor"} -> [Silent EXCEPT !.flags.automerge = "yes"]
      [] name = ":automergeDisabled" -> [Silent EXCEPT !.flags.automerge = "no"]
      [] name = ":dependencyDashboardApproval" -> [Silent EXCEPT !.flags.approval = "yes"]
      [] name = ":approveMajorUpdates" ->
           [Silent EXCEPT !.rules = <<[MalformedRule EXCEPT !.malformed = FALSE, !.appliesToMajor = TRUE,
                                                        !.approval = "yes"]>>]
      [] name = ":disableMajorUpdates" -> [Silent EXCEPT !.flags.majorEnabled = "no"]
      [] name = ":disableRenovate" -> [Silent EXCEPT !.flags.enabled = "no"]
      [] name = ":enableRenovate" -> [Silent EXCEPT !.flags.enabled = "yes"]
      [] OTHER -> Silent

(***************************************************************************)
(* Whether every major update merges by itself.                            *)
(***************************************************************************)
Top(flags, f, major) == IF flags[major] # "absent" THEN flags[major] ELSE flags[f]

Start(flags) ==
    [ok |-> TRUE, automerge |-> Top(flags, "automerge", "majorAutomerge") = "yes",
     enabled |-> Top(flags, "enabled", "majorEnabled") # "no",
     approval |-> Top(flags, "approval", "majorApproval") = "yes"]

Set(now, word) == IF word = "absent" THEN now ELSE word = "yes"

\* A rule applied to what holds so far.
Apply(r, now) ==
    [now EXCEPT !.automerge = Set(@, r.automerge), !.enabled = Set(@, r.enabled),
                !.approval = Set(@, r.approval)]

\* Mutant: a rule that narrows is read as one that does not.
StepNarrowedPlain(r, now) ==
    CASE r.malformed -> [now EXCEPT !.ok = FALSE]
      [] ~r.malformed /\ ~r.appliesToMajor -> now
      [] OTHER -> Apply(r, now)

\* A rule that narrows may hold a package back, and cannot vouch for all.
Step(r, now) ==
    CASE r.malformed -> [now EXCEPT !.ok = FALSE]
      [] ~r.malformed /\ ~r.appliesToMajor -> now
      [] ~r.malformed /\ r.appliesToMajor /\ r.narrowed ->
           [now EXCEPT !.ok = @ /\ r.automerge # "no" /\ r.enabled # "no" /\ r.approval # "yes"]
      [] OTHER -> Apply(r, now)

MajorsAutoMerge(l) ==
    LET upTo[i \in 0..Len(l.rules)] == IF i = 0 THEN Start(l.flags) ELSE Step(l.rules[i], upTo[i - 1])
        end == upTo[Len(l.rules)]
    IN ~l.bad /\ end.ok /\ end.automerge /\ end.enabled /\ ~end.approval

\* What Renovate does with one package's major update, rules in matching
\* being the ones that match it.
Turn(l, i, matching, now) ==
    IF l.rules[i].appliesToMajor /\ (~l.rules[i].narrowed \/ i \in matching) THEN Apply(l.rules[i], now) ELSE now

Merges(l, matching) ==
    LET at[i \in 0..Len(l.rules)] == IF i = 0 THEN Start(l.flags) ELSE Turn(l, i, matching, at[i - 1])
        end == at[Len(l.rules)]
    IN end.automerge /\ end.enabled /\ ~end.approval

(***************************************************************************)
(* ResolveConfig.  texts is a function from preset keys to configurations; a key *)
(* outside it is a file that is not there.  A layer is read depth first,   *)
(* extends entries in order and the object's own keys on top.              *)
(***************************************************************************)
Unresolved == [resolved |-> FALSE, layer |-> Silent]

Resolved(l) == [resolved |-> TRUE, layer |-> l]

\* Layers on one another, in order; one that could not be read leaves none.
OnTop(under, top) ==
    IF ~under.resolved \/ ~top.resolved THEN Unresolved ELSE Resolved(Over(under.layer, top.layer))

Stacked(layers) ==
    LET upTo[i \in 0..Len(layers)] == IF i = 0 THEN Resolved(Silent) ELSE OnTop(upTo[i - 1], layers[i])
    IN upTo[Len(layers)]

\* preset: an extends entry under the presets in stack, where left more may be
\* followed; below is what each configuration comes to when one fewer may.
PresetLayer(ref, texts, stack, left, below) ==
    LET p == ParsePreset(ref)
        key == IF p.key \notin DOMAIN texts /\ p.fallback # <<>> THEN p.fallback ELSE p.key
    IN IF ~p.follow THEN Resolved(BuiltinLayer(ref.name))
       ELSE IF p.problem \/ p.key \in stack \/ left = 0 \/ key \notin DOMAIN texts THEN Unresolved
       ELSE below[texts[key]][stack \cup {p.key}]

\* layer: a configuration on top of its extends entries.
ConfigLayer(c, presets) ==
    LET under == Stacked(presets)
    IN IF ~c.object \/ ~c.extendsList \/ ~under.resolved \/ AssignmentBad(c) THEN Unresolved
       ELSE Resolved(Over(under.layer, OwnLayer(c)))

Configs(cfg, texts) == {cfg} \cup {texts[k] : k \in DOMAIN texts}

PresetKeys(configs) == {ParsePreset(ref).key : ref \in UNION {ToSet(c.extends) : c \in configs}}

\* Every configuration under every stack of presets, with left more to follow.
Level(configs, texts, left, below) ==
    [c \in configs |-> [stack \in SUBSET PresetKeys(configs) |->
       ConfigLayer(c, [i \in DOMAIN c.extends |-> PresetLayer(c.extends[i], texts, stack, left, below)])]]

Layer(cfg, texts) ==
    LET configs == Configs(cfg, texts)
        of[left \in 0..MaxExtends] == Level(configs, texts, left, of[left - 1])
    IN of[MaxExtends][cfg][{}]

\* The facts audit.json records of a repository's configuration.
FactsOf(resolved, l) ==
    [error |-> ~resolved, minReleaseAge |-> l.age.value,
     nixManager |-> l.nix = "yes" /\ (~l.managers.set \/ "nix" \in l.managers.names),
     lockFileMaintenance |-> l.lockFile = "yes",
     automergeMajor |-> resolved /\ MajorsAutoMerge(l)]

ResolveConfig(cfg, texts) ==
    LET end == Layer(cfg, texts)
    IN FactsOf(end.resolved, end.layer)
=============================================================================
