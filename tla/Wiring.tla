------------------------------- MODULE Wiring -------------------------------
(***************************************************************************)
(* The files in which ctx registers itself with the agents: MCP servers,   *)
(* capture hooks, a line of .gitignore.  They are the user's: other        *)
(* servers and hooks share them, and other programs write them.  `ctx      *)
(* init` and the install commands add ctx's entries, the uninstall         *)
(* commands and `ctx detach` take them out again; detach decides what to   *)
(* do, shows its plan, waits for an answer and only then acts.             *)
(*                                                                         *)
(* A file is the set of its entries, each with the list it stands in, the  *)
(* group inside that list, and whose it is.                                *)
(***************************************************************************)
EXTENDS Naturals, Sequences

CONSTANTS
    Targets,    \* the files of this project, of those below
    Installed,  \* the agents detected beside Claude Code
    Missing,    \* no such file
    Spoilt,     \* a file that is not strict JSON
    Mishaps,    \* which of "kill", "fail" may happen
    MaxEdits    \* how often the user or another program edits a file

Tools == {"claude", "cursor", "vscode", "codex"}
ServerFiles == {".mcp.json", ".cursor/mcp.json", ".vscode/mcp.json"}
HookFiles == {".claude/settings.json", ".codex/hooks.json", ".cursor/hooks.json"}
Every == ServerFiles \cup HookFiles \cup {".gitignore"}

ASSUME TargetsAssumption ==
    Targets \subseteq Every /\ Installed \subseteq Tools \ {"claude"}
ASSUME MishapsAssumption ==
    /\ Mishaps \subseteq {"kill",   \* a command ends between two files
                          "fail"}   \* a file cannot be written
    /\ MaxEdits \in Nat

VARIABLES
    disk,     \* what each file holds
    present,  \* .contexo/ exists
    job,      \* the command that runs, with what is left of it
    edits     \* how many edits were made, for the bound

wiring == <<disk, present, job, edits>>

Entry(list, group, who) == [list |-> list, group |-> group, who |-> who]

\* The lists of a file that hold an entry of ctx.
Lists(t) ==
    IF t = ".vscode/mcp.json" THEN {"servers"}
    ELSE IF t \in ServerFiles THEN {"mcpServers"}
    ELSE IF t = ".claude/settings.json" THEN {"Stop"}
    ELSE IF t = ".codex/hooks.json" THEN {"Stop", "Prompt"}
    ELSE IF t = ".cursor/hooks.json" THEN {"Prompt", "Reply"}
    ELSE {"lines"}

Version == Entry("version", "top", "ctx")

\* What a file may hold: entries of ctx, those of another version of it, what
\* others put beside them or elsewhere.
EntriesOf(t) ==
    {Entry(l, "ctx", who) : l \in Lists(t), who \in {"ctx", "old"}}
      \cup {Entry(l, group, "user") : l \in Lists(t), group \in {"own", "ctx"}}
      \cup {Version, Entry("other", "top", "user")}

ASSUME MarksAssumption ==   \* neither is a set of entries
    /\ Missing # Spoilt
    /\ \A t \in Every : \A f \in SUBSET EntriesOf(t) : f # Missing /\ f # Spoilt

Agent(t) ==
    IF t \in {".mcp.json", ".claude/settings.json", ".gitignore"} THEN "claude"
    ELSE IF t \in {".cursor/mcp.json", ".cursor/hooks.json"} THEN "cursor"
    ELSE IF t = ".vscode/mcp.json" THEN "vscode" ELSE "codex"

Users(f) == IF f \in {Missing, Spoilt} THEN {} ELSE {e \in f : e.who = "user"}

WiringTypeOK ==
    /\ present \in BOOLEAN /\ edits \in 0..MaxEdits
    /\ job.step \in {"rest", "prompt", "run"}
    /\ \A t \in Targets :
         disk[t] \notin {Missing, Spoilt} => disk[t] \subseteq EntriesOf(t)

-----------------------------------------------------------------------------
(* One file *)

Readable(f) == f # Spoilt
Content(f) == IF f = Missing THEN {} ELSE f

\* An entry under ctx's name: the one written now, or another version's.
Ours(f, list) == {e \in Content(f) : e.list = list /\ e.who \in {"ctx", "old"}}
Has(f, list) == Entry(list, "ctx", "ctx") \in Content(f)

\* The MCP server of ctx: added, or put over another version's entry.
WithServer(list, f) ==
    IF Has(f, list) THEN f
    ELSE (Content(f) \ Ours(f, list)) \cup {Entry(list, "ctx", "ctx")}
WireJSONAll(f) == {Entry("mcpServers", "ctx", "ctx")}
WireJSON(f) == WithServer("mcpServers", f)
WireVSCodeAsJSON(f) == WithServer("mcpServers", f)
WireVSCode(f) == WithServer("servers", f)

\* A hook of ctx, in a group of its own.
WithHook(list, f) == Content(f) \cup {Entry(list, "ctx", "ctx")}
WireCodexHooksOnce(f) ==
    IF Has(f, "Stop") THEN f ELSE WithHook("Stop", f)
WireCodexHooks(f) ==
    IF Has(f, "Stop") /\ Has(f, "Prompt") THEN f
    ELSE WithHook("Prompt", WithHook("Stop", f))

\* Cursor's file has no groups, and must carry a version.
WithFlat(list, f) == Content(f) \cup {Entry(list, "ctx", "ctx")}
WireCursorHooks(f) ==
    IF Has(f, "Prompt") /\ Has(f, "Reply") THEN f
    ELSE WithFlat("Reply", WithFlat("Prompt", f))
           \cup IF \E e \in Content(f) : e.list = "version" THEN {} ELSE {Version}

InstallHook(f) == IF Has(f, "Stop") THEN f ELSE WithHook("Stop", f)
UpdateGitignore(f) == IF Has(f, "lines") THEN f ELSE WithHook("lines", f)

\* Taking ctx's out again; what is left of a file may be deleted with it.
NoServer(list, f) ==
    LET rest == Content(f) \ Ours(f, list) IN
    IF rest = Content(f) THEN f ELSE IF rest = {} THEN Missing ELSE rest
UnwireJSON(f) == NoServer("mcpServers", f)
UnwireVSCodeHusk(f) ==
    LET rest == Content(f) \ Ours(f, "servers") IN
    IF rest = Content(f) THEN f
    ELSE IF \E e \in rest : e.list = "servers" THEN rest ELSE Missing
UnwireVSCode(f) == NoServer("servers", f)
RemoveMCPEntry(f) == Content(f) \ Ours(f, "mcpServers")

NoHookGroup(list, f) ==
    {e \in Content(f) : ~(e.list = list /\ e.group = "ctx" /\ Has(f, list))}
NoHook(list, f) == Content(f) \ {Entry(list, "ctx", "ctx")}
UnwireCodexHooks(f) ==
    LET rest == NoHook("Stop", f) \cap NoHook("Prompt", f) IN
    IF rest = Content(f) THEN f ELSE IF rest = {} THEN Missing ELSE rest
NoFlat(list, f) == Content(f) \ {Entry(list, "ctx", "ctx")}
UnwireCursorHooks(f) ==
    LET rest == NoFlat("Prompt", f) \cap NoFlat("Reply", f) IN
    IF rest = Content(f) THEN f
    ELSE IF \A e \in rest : e.list = "version" THEN Missing ELSE rest
UninstallHook(f) == IF Has(f, "Stop") THEN NoHook("Stop", f) ELSE f
RemoveGitignoreLine(f) == Content(f) \ {Entry("lines", "ctx", "ctx")}

Wire(t, f) ==
    CASE t = ".vscode/mcp.json"  -> WireVSCode(f)
      [] t \in {".mcp.json", ".cursor/mcp.json"} -> WireJSON(f)
      [] t = ".codex/hooks.json" -> WireCodexHooks(f)
      [] t = ".cursor/hooks.json" -> WireCursorHooks(f)
      [] t = ".claude/settings.json" -> InstallHook(f)
      [] OTHER -> UpdateGitignore(f)

Unwire(t, f) ==
    CASE t = ".vscode/mcp.json"  -> UnwireVSCode(f)
      [] t \in {".mcp.json", ".cursor/mcp.json"} -> UnwireJSON(f)
      [] t = ".codex/hooks.json" -> UnwireCodexHooks(f)
      [] t = ".cursor/hooks.json" -> UnwireCursorHooks(f)
      [] t = ".claude/settings.json" -> UninstallHook(f)
      [] OTHER -> RemoveGitignoreLine(f)

\* What a command asks to learn whether ctx is in a file: any entry under the
\* server's name, one of the hooks, the line.
WiredJSONExactly(list, f) == Has(f, list)
WiredJSON(list, f) == Ours(f, list) # {}
CodexHooksWired(f) == Has(f, "Stop")
CursorHooksWiredFirst(f) == Has(f, "Prompt")
CursorHooksWired(f) == Has(f, "Reply")
HookInstalled(f) == Has(f, "Stop")
Wired(t, f) ==
    /\ Readable(f)
    /\ CASE t = ".vscode/mcp.json" -> WiredJSON("servers", f)
         [] t \in ServerFiles \ {".vscode/mcp.json"} -> WiredJSON("mcpServers", f)
         [] t = ".codex/hooks.json" -> CodexHooksWired(f)
         [] t = ".cursor/hooks.json" -> CursorHooksWired(f)
         [] t = ".claude/settings.json" -> HookInstalled(f)
         [] OTHER -> Has(f, "lines")

-----------------------------------------------------------------------------
(* The commands *)

Ordered == <<".mcp.json", ".cursor/mcp.json", ".vscode/mcp.json", ".gitignore",
             ".claude/settings.json", ".codex/hooks.json", ".cursor/hooks.json">>
IsNext(t, ts) == \E i \in DOMAIN Ordered : Ordered[i] = t /\ \A j \in 1 .. i - 1 : Ordered[j] \notin ts

Detected(ts) == {t \in ts : Agent(t) \in Installed \cup {"claude"}}

\* want, bare, half and touched are history: what init is to wire, the files
\* that held nothing of anybody else when detach planned, those in which it
\* found the prompt's hook without its fellow, and those whose entries of ctx
\* others changed when the command was through with the file.
AtRest == [step |-> "rest", cmd |-> "none", todo |-> {}, want |-> {}, gone |-> {},
           failed |-> {}, bare |-> {}, half |-> {}, touched |-> {}]

Begin(cmd, ts) ==
    job' = [AtRest EXCEPT !.step = "run", !.cmd = cmd,
                             !.todo = ts \cap Targets, !.want = ts \cap Targets]

\* ctx init, with any of --no-mcp, --no-gitignore and --no-hooks.
InitProject(skip) ==
    /\ job = AtRest
    /\ present' = TRUE
    /\ Begin("init", Detected(Every \ skip))
    /\ UNCHANGED <<disk, edits>>

\* ctx mcp install and ctx hooks install, for one tool or for all.
Install(ts) ==
    /\ job = AtRest /\ present
    /\ Begin("install", ts)
    /\ UNCHANGED <<disk, present, edits>>

\* ctx mcp uninstall and ctx hooks uninstall: whatever is on disk.
Uninstall(ts) ==
    /\ job = AtRest
    /\ Begin("uninstall", ts)
    /\ UNCHANGED <<disk, present, edits>>

\* buildDetachPlan: which files hold an entry, and whether .mcp.json holds
\* nothing else and is to be deleted.
OnlyServer(t, f) ==
    t = ".mcp.json" /\ ~\E e \in RemoveMCPEntry(f) : e.list = "mcpServers"
OnlyContent(t, f) == t = ".mcp.json" /\ RemoveMCPEntry(f) = {}

\* Of two hooks only the prompt's is there.
HalfWired(t, f) ==
    /\ t \in HookFiles /\ Readable(f)
    /\ Has(f, "Prompt") /\ \E l \in Lists(t) : ~Has(f, l)

Detach(keep) ==
    LET ts == {t \in Targets : Wired(t, disk[t])} IN
    /\ job = AtRest
    /\ ts # {} \/ (present /\ ~keep)
    /\ job' = [AtRest EXCEPT !.step = "prompt",
                             !.cmd = IF present /\ ~keep THEN "purge" ELSE "detach",
                             !.todo = ts,
                             !.gone = {t \in ts : OnlyContent(t, disk[t])},
                             !.bare = {t \in ts : Users(disk[t]) = {}},
                             !.half = {t \in Targets : HalfWired(t, disk[t])}]
    /\ UNCHANGED <<disk, present, edits>>

Answer(yes) ==
    /\ job.step = "prompt"
    /\ job' = IF yes THEN [job EXCEPT !.step = "run"] ELSE AtRest
    /\ UNCHANGED <<disk, present, edits>>

\* What the command makes of the next file: detach deletes the file that its
\* plan says holds nothing else, whatever it holds now.
Becomes(t) ==
    IF job.cmd \in {"init", "install"} THEN Wire(t, disk[t])
    ELSE IF t \in job.gone THEN Missing
    ELSE IF job.cmd # "uninstall" /\ t = ".mcp.json" THEN RemoveMCPEntry(disk[t])
    ELSE Unwire(t, disk[t])

\* A deletion does not read the file; a detach that edits .mcp.json or
\* .gitignore needs it to be there.
Workable(t) ==
    \/ t \in job.gone
    \/ /\ Readable(disk[t])
       /\ ~(/\ job.cmd \in {"detach", "purge"} /\ t \in {".mcp.json", ".gitignore"}
            /\ disk[t] = Missing)

\* Which failures end the command: init goes on after VS Code and the hooks,
\* an uninstall after MCP entries, detach after everything.
Stops(t) ==
    \/ job.cmd = "install"
    \/ job.cmd = "init" /\ t \in {".mcp.json", ".cursor/mcp.json", ".gitignore"}
    \/ job.cmd = "uninstall" /\ t \in HookFiles

Goes(t, ok) ==
    IF ok THEN [job EXCEPT !.todo = @ \ {t}]
    ELSE [job EXCEPT !.todo = IF Stops(t) THEN {} ELSE @ \ {t},
                     !.failed = @ \cup {t}]

Step ==
    /\ job.step = "run"
    /\ \E t \in job.todo :
       /\ IsNext(t, job.todo)
       /\ \/ /\ Workable(t)
             /\ disk' = [disk EXCEPT ![t] = Becomes(t)]
             /\ job' = Goes(t, TRUE)
          \/ /\ ~Workable(t) \/ "fail" \in Mishaps
             /\ job' = Goes(t, FALSE)
             /\ UNCHANGED disk
    /\ UNCHANGED <<present, edits>>

\* detach deletes .contexo/ last.
Finish ==
    /\ job.step = "run" /\ job.todo = {}
    /\ \/ present' = (present /\ job.cmd # "purge")
       \/ ("fail" \in Mishaps /\ job.cmd = "purge" /\ UNCHANGED present)
    /\ job' = AtRest
    /\ UNCHANGED <<disk, edits>>

KillJob ==
    /\ "kill" \in Mishaps /\ job # AtRest
    /\ job' = AtRest
    /\ UNCHANGED <<disk, present, edits>>

\* The user or another program adds an entry of its own, in a group of its own
\* or in ctx's, or takes one out ...
UsersEdits(t, f) ==
    LET at == IF t \in ServerFiles \cup {".gitignore"} THEN {"own"} ELSE {"own", "ctx"}
        new == {Entry(l, g, "user") : l \in Lists(t), g \in at}
                 \cup {Entry("other", "top", "user")}
    IN {Content(f) \cup {e} : e \in new} \cup {Content(f) \ {e} : e \in Users(f)}

\* ... takes out one of ctx's, or brings one back, as a checkout does; a server
\* may be another version's ...
CtxEdits(t, f) ==
    LET whose == IF t \in ServerFiles THEN {"ctx", "old"} ELSE {"ctx"}
        Less(l) == Content(f) \ Ours(f, l)
    IN {Less(l) : l \in Lists(t)}
         \cup {Less(l) \cup {Entry(l, "ctx", who)} : l \in Lists(t), who \in whose}

\* ... deletes the file, writes comments into it, or takes them out again.
Edited(t, f) ==
    IF f = Spoilt THEN {{Entry(l, "ctx", "ctx") : l \in ls} : ls \in SUBSET Lists(t)}
    ELSE UsersEdits(t, f) \cup CtxEdits(t, f) \cup {Missing}
           \cup IF t = ".gitignore" THEN {} ELSE {Spoilt}

\* An edit that changes what of ctx can be read in the file.
OursChange(t, f, g) ==
    g # Spoilt /\ (f = Spoilt \/ \E l \in Lists(t) : Ours(f, l) # Ours(g, l))

EditFile(t) ==
    /\ edits < MaxEdits
    /\ \E g \in Edited(t, disk[t]) :
         /\ disk' = [disk EXCEPT ![t] = g]
         /\ job' = IF job = AtRest \/ t \in job.todo \/ ~OursChange(t, disk[t], g) THEN job
                   ELSE [job EXCEPT !.touched = @ \cup {t}]
    /\ edits' = edits + 1
    /\ UNCHANGED present

-----------------------------------------------------------------------------
\* What a clone may bring: servers that another version of ctx wired, and one
\* of two hooks.
Found(t) ==
    {Missing} \cup
    IF t \in ServerFiles THEN {{Entry(l, "ctx", "old")} : l \in Lists(t)}
    ELSE IF t \in HookFiles THEN {{Entry(l, "ctx", "ctx")} : l \in Lists(t)} ELSE {}

WiringInit ==
    /\ disk \in [Targets -> UNION {Found(t) : t \in Targets}]
    /\ \A t \in Targets : disk[t] \in Found(t)
    /\ present \in BOOLEAN
    /\ job = AtRest /\ edits = 0

Single == {{t} : t \in Targets \ {".gitignore"}}
\* mcp install --tool=all asks only whether VS Code is there.
AllServers == {".mcp.json", ".cursor/mcp.json"} \cup Detected({".vscode/mcp.json"})

WiringNext ==
    \/ \E skip \in {{}, ServerFiles, HookFiles, {".gitignore"}} : InitProject(skip)
    \/ \E ts \in {AllServers, Detected(HookFiles)} \cup Single : Install(ts)
    \/ \E ts \in {ServerFiles, HookFiles} \cup Single : Uninstall(ts)
    \/ \E keep \in BOOLEAN : Detach(keep)
    \/ \E yes \in BOOLEAN : Answer(yes)
    \/ Step \/ Finish \/ KillJob
    \/ \E t \in Targets : EditFile(t)

WiringSpec == WiringInit /\ [][WiringNext]_wiring

-----------------------------------------------------------------------------
(* Properties *)

(***************************************************************************)
(* No command takes out or rewrites what somebody else put into a file,    *)
(* and none touches a file it cannot read.  One case is left: .mcp.json is *)
(* deleted because it held nothing else when detach showed its plan, even  *)
(* if it holds more by the time the user says yes (detach.go).             *)
(***************************************************************************)
OthersKept ==
    [][\A t \in Targets :
         disk'[t] # disk[t] /\ edits' = edits /\ t \notin job.gone \cap job.bare
           => disk[t] # Spoilt /\ Users(disk[t]) \subseteq Users(disk'[t])]_wiring

(***************************************************************************)
(* A detach that reports no failure for a file leaves nothing of ctx in    *)
(* it, whatever commands ran, failed or were killed before.  Excepted are  *)
(* a file it cannot read, one into which others put an entry of ctx again  *)
(* when it was through with it, and a hook file in which it found the      *)
(* prompt's hook alone: it asks for the other one (codexhooks.go and       *)
(* cursorhooks.go, detach.go) and leaves that file out.                    *)
(***************************************************************************)
DetachComplete ==
    job.step = "run" /\ job.cmd \in {"detach", "purge"} /\ job.todo = {}
        => \A t \in Targets \ (job.failed \cup job.touched \cup job.half) :
             disk[t] # Spoilt => \A l \in Lists(t) : Ours(disk[t], l) = {}

(***************************************************************************)
(* An init that was not stopped has wired every agent it detected, in full *)
(* and over the entries of older versions: what failed is one file, and no *)
(* reason to leave another out.  Excepted are the files whose entries of   *)
(* ctx others changed when init was through with them.                     *)
(***************************************************************************)
InitComplete ==
    /\ job.step = "run" /\ job.cmd = "init" /\ job.todo = {}
    /\ \A t \in job.failed : ~Stops(t)
    => \A t \in job.want \ (job.failed \cup job.touched) :
         disk[t] # Spoilt => \A l \in Lists(t) : Has(disk[t], l)

(* An init that was not stopped has wired every agent in full, and a       *)
(* detach has left nothing in the files it did not fail on, from files     *)
(* that hold all of ctx's entries or some, with the exceptions named       *)
(* above.                                                                  *)
WiringSound ==
    /\ WiringTypeOK
    /\ DetachComplete
    /\ InitComplete
=============================================================================
