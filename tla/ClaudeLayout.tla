---------------------------- MODULE ClaudeLayout ----------------------------
(***************************************************************************)
(* internal/claude/discover.go: which files of a tree Claude Code loads,   *)
(* with and without a plugin manifest.  A path is the sequence of its      *)
(* segments, <<>> the root; one that leaves the repository starts with     *)
(* ".." or, when it is absolute, with "".                                  *)
(***************************************************************************)
EXTENDS Integers, Sequences, SequencesExt

CONSTANT Markdown  \* the last segments that end in .md

PluginManifest == <<".claude-plugin", "plugin.json">>

DefaultHooks == <<"hooks", "hooks.json">>

\* No plugin.json: only what lies under a .claude directory counts.
NoManifest ==
    [present |-> FALSE, unreadable |-> FALSE, skillDirs |-> {}, skillsSet |-> FALSE, commandsSet |-> FALSE,
     commandPaths |-> {}, sources |-> {}, hooksFiles |-> {}]

Below(p, dir) == IsStrictPrefix(dir, p)

Rest(p, dir) == SubSeq(p, Len(dir) + 1, Len(p))

IsMarkdown(p) == p # <<>> /\ Last(p) \in Markdown

InRepo(p) == p = <<>> \/ Head(p) \notin {"..", ""}

Dirs(files) == UNION {{d \in Prefixes(p) : d \notin {p, <<>>}} : p \in files}

(***************************************************************************)
(* The project's own locations, in the order of Discover's switch.         *)
(***************************************************************************)
Markers(p, kind) == {i \in 1..(Len(p) - 2) : p[i] = ".claude" /\ p[i + 1] = kind}

UnderClaude(p, kind) == IF Markers(p, kind) = {} THEN <<>> ELSE Rest(p, SubSeq(p, 1, Min(Markers(p, kind)) + 1))

IsProjectSkill(p) == Len(UnderClaude(p, "skills")) = 2 /\ Last(p) = "SKILL.md"

InProjectCommands(p) == ~IsProjectSkill(p) /\ UnderClaude(p, "commands") # <<>>

IsSettings(p) ==
    /\ ~IsProjectSkill(p) /\ ~InProjectCommands(p)
    /\ Len(p) >= 2 /\ Last(p) = "settings.json" /\ p[Len(p) - 1] = ".claude"

(***************************************************************************)
(* What a manifest adds.                                                   *)
(***************************************************************************)
SkillsOf(files, dir) ==
    {p \in files : Below(p, dir) /\ Len(Rest(p, dir)) = 2 /\ Last(p) = "SKILL.md"}

CommandsOf(files, dir) == {p \in files : Below(p, dir) /\ Len(Rest(p, dir)) = 1 /\ IsMarkdown(p)}

RootSkill(files, m) ==
    {p \in files : p = <<"SKILL.md">> /\ <<"skills">> \notin Dirs(files) /\ ~m.skillsSet /\ m.skillDirs = {}}

PluginSkills(files, m) ==
    SkillsOf(files, <<"skills">>) \cup RootSkill(files, m)
      \cup UNION {SkillsOf(files, d) \cup (files \cap {Append(d, "SKILL.md")}) :
                    d \in m.skillDirs \cap (Dirs(files) \cup {<<>>})}

\* A declared command that is a file is kept whether or not the tree has it, so
\* that reading it records it as unreadable.
PluginCommands(files, m) ==
    (IF m.commandsSet THEN {} ELSE CommandsOf(files, <<"commands">>))
      \cup UNION {IF c \in Dirs(files) \cup {<<>>} THEN CommandsOf(files, c)
                  ELSE IF IsMarkdown(c) /\ InRepo(c) THEN {c} ELSE {} : c \in m.commandPaths}

Sources(m) == {c \in m.sources : IsMarkdown(c) /\ InRepo(c)}

Hooks(files, m) ==
    (files \cap {DefaultHooks}) \cup {h \in m.hooksFiles : InRepo(h) /\ h # <<>>}

\* Declared paths nothing in the tree can answer.
Missing(files, m) ==
    {d \in m.skillDirs : d \notin Dirs(files) \cup {<<>>}}
      \cup {c \in m.commandPaths : c \notin Dirs(files) \cup {<<>>} /\ ~(IsMarkdown(c) /\ InRepo(c))}
      \cup (m.sources \ Sources(m))
      \cup {h \in m.hooksFiles : ~InRepo(h) \/ h = <<>>}

\* Discover: the manifest there is, the files worth reading beside it, and the
\* declared paths there is no file for.
Discover(files, m) ==
    [manifest |-> files \cap {PluginManifest},
     paths |-> {p \in files : IsProjectSkill(p) \/ IsSettings(p) \/ (InProjectCommands(p) /\ IsMarkdown(p))}
                 \cup IF m.present
                        THEN PluginSkills(files, m) \cup PluginCommands(files, m) \cup Sources(m) \cup Hooks(files, m)
                        ELSE {},
     missing |-> IF m.present THEN Missing(files, m) ELSE {}]
=============================================================================
