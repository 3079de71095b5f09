--------------------------- MODULE MergeHandshake ---------------------------
(***************************************************************************)
(* The merge handshake between an agent and Contexo's MCP server:          *)
(* ctx_push, ctx_pull and ctx_write_page (internal/mcp/tools.go), the      *)
(* MERGE_REQUIRED brief and its registry (internal/mcp/merge.go).          *)
(*                                                                         *)
(* One page of one project.  Teammates push it, the user edits it in an    *)
(* editor, other processes pull it, and the agent is asked to merge what   *)
(* it is shown and to push the result with resolved=[page].  A text is     *)
(* the set of the changes it contains, so that merging is union and a lost *)
(* change is one that the next version lacks.  Versions of the page are    *)
(* numbered, 0 stands for none.  What the engines below do beside one      *)
(* another is SafeSync's subject; here the listing, the sending and the    *)
(* recording of a push are steps and a pull is one.                        *)
(***************************************************************************)
EXTENDS Classify, Sequences, FiniteSets

CONSTANTS Faults,         \* among "network", "restart", "killed", "careless", "spoil",
                       \* "beside"
          MaxPeerPushes,  \* bound on the versions teammates push
          MaxEdits,       \* bound on the user's edits
          MaxFaults       \* bound on failed requests, failed saves and restarts

ASSUME BoundsAssumption == MaxPeerPushes \in Nat /\ MaxEdits \in Nat /\ MaxFaults \in Nat

VARIABLES
    hist,   \* the texts of the page's server versions, oldest first
    file,   \* the working file
    base,   \* page_shas of the page; its base snapshot is that version
    side,   \* its conflict sidecar
    reg,    \* briefSHAs of this MCP process, 0 if it has no entry
    call,   \* the ctx_push or ctx_pull under way
    task,   \* what the agent has been asked to do
    shown,  \* the versions whose text the agent was shown in a brief
    spent   \* how many edits and faults there were

vars == <<hist, file, base, side, reg, call, task, shown, spent>>

disk == <<file, base, side>>

PeerChange(n) == <<"peer", n>>
EditChange(n) == <<"edit", n>>
Change == {PeerChange(n) : n \in 1 .. MaxPeerPushes} \cup {EditChange(n) : n \in 1 .. MaxEdits}

(* Every version adds a change to the one before. *)
Version == 0 .. MaxPeerPushes + MaxEdits

NoSide == [sha |-> 0, content |-> FALSE]
NoCall == [pc |-> "none", why |-> "", sha |-> 0, text |-> {}]
NoTask == [todo |-> "none", text |-> {}]

Tip == Len(hist)

MergeTypeOK ==
    /\ hist \in Seq(SUBSET Change) /\ Tip \in Version
    /\ file \in [kind : {"valid", "invalid", "absent"}, text : SUBSET Change]
    /\ base \in Version /\ reg \in Version /\ shown \subseteq Version
    /\ side \in [sha : Version, content : BOOLEAN]
    /\ call \in [pc : {"none", "resolve", "fresh", "content", "list", "note", "send"},
                 why : {"", "unknown", "stale", "brief"}, sha : Version, text : SUBSET Change]
    /\ task \in [todo : {"none", "merge", "merged"}, text : SUBSET Change]
    /\ spent \in [peers : 0 .. MaxPeerPushes, edits : 0 .. MaxEdits, faults : 0 .. MaxFaults]

Init == /\ hist = << >> /\ base = 0 /\ side = NoSide /\ reg = 0
        /\ file = [kind |-> "absent", text |-> {}]
        /\ call = NoCall /\ task = NoTask /\ shown = {}
        /\ spent = [peers |-> 0, edits |-> 0, faults |-> 0]

-----------------------------------------------------------------------------
LocalSide == CASE file.kind = "absent"  -> LocalAbsent
               [] file.kind = "invalid" -> LocalInvalid
               [] file.kind = "valid"   -> LocalValid(file.text)

BaseSide == IF base = 0 THEN BaseNone ELSE BaseValid(base, hist[base])

StateWith(remote) == Classify(LocalSide, BaseSide, remote)

(* What status --offline says of the page, and what the engines say of it. *)
OfflineState == ApplySidecar(StateWith(OfflineRemote(base, side.sha)), base, side.sha)
ListedState  == StateWith(OnlineRemote(Tip))
OnlineState  == ApplySidecar(ListedState, base, side.sha)

Fault(kind) == /\ kind \in Faults /\ spent.faults < MaxFaults
               /\ spent' = [spent EXCEPT !.faults = @ + 1]

(* The call goes on at pc, ends with an answer that asks for nothing more, *)
(* or ends with an error, after which the agent may call again.            *)
Goto(c) == call' = c /\ UNCHANGED <<reg, task, shown>>
Answer  == call' = NoCall /\ task' = NoTask /\ UNCHANGED <<reg, shown>>
Error   == Goto(NoCall)

-----------------------------------------------------------------------------
(* ctx_push, steps 1 and 2: the page is classified from local files only.  *)
(* A page neither changed nor in conflict nor named in resolved is nothing *)
(* to push; a conflict not in resolved goes into the brief as its sidecar  *)
(* has it.  The agent names the page in resolved once it wrote the merge;  *)
(* a careless one forgets to, or names a page nobody asked it to merge.    *)
Plan(resolved) ==
    CASE resolved -> [NoCall EXCEPT !.pc = "resolve"]
      [] ~resolved /\ OfflineState = "conflict" ->
             [NoCall EXCEPT !.pc = "content", !.why = "brief", !.sha = side.sha]
      [] ~resolved /\ OfflineState # "conflict" -> [NoCall EXCEPT !.pc = "list"]

CallPush(resolved) ==
    /\ call = NoCall
    /\ resolved => task.todo = "merged" \/ (task = NoTask /\ reg = 0 /\ side = NoSide)
    /\ ~resolved => task.todo # "merge" /\ OfflineState \in {"modified", "new", "conflict"}
    /\ IF resolved = (task.todo = "merged") THEN UNCHANGED spent ELSE Fault("careless")
    /\ Goto(Plan(resolved))
    /\ UNCHANGED <<hist, disk>>

(* Variant: the sidecar is looked up before the registry. *)
SidecarFirst == IF side.sha # 0 THEN side.sha ELSE reg

(* The version the agent is taken to have merged: the one its last brief   *)
(* showed, else the sidecar's.                                             *)
Known == IF reg # 0 THEN reg ELSE side.sha

(* Variant: resolve --ours without --if-server-sha. *)
NeverMoved == FALSE

Moved == Tip # Known

KeepsOurs == {"conflict"}             \* resolve --ours re-bases in this state
NeedsNoResolve == {"modified", "new", "unchanged"}

(* Step 4, resolveForPush: resolve --ours under the sync lock, one read of *)
(* the page.  Re-based, the page is pushed; where the server moved, or no  *)
(* version is known, a fresh brief is made.                                *)
Resolve ==
    /\ call.pc = "resolve"
    /\ \/ /\ Known = 0
          /\ Goto([call EXCEPT !.pc = "fresh", !.why = "unknown"])
          /\ UNCHANGED <<disk, spent>>
       \/ /\ Known # 0 /\ Moved
          /\ Goto([call EXCEPT !.pc = "fresh", !.why = "stale"])
          /\ UNCHANGED <<disk, spent>>
       \/ /\ Known # 0 /\ ~Moved /\ OnlineState \in KeepsOurs
          /\ base' = Tip /\ side' = NoSide
          /\ reg' = 0
          /\ call' = [call EXCEPT !.pc = "list"]
          /\ UNCHANGED <<file, task, shown, spent>>
       \/ /\ Known # 0 /\ ~Moved /\ OnlineState \in NeedsNoResolve
          /\ Goto([call EXCEPT !.pc = "list"])
          /\ UNCHANGED <<disk, spent>>
       \/ /\ Known # 0 /\ ~Moved /\ OnlineState \notin KeepsOurs \cup NeedsNoResolve
          /\ Error /\ UNCHANGED <<disk, spent>>
       \/ /\ Known # 0 /\ Fault("network") /\ Error /\ UNCHANGED disk
    /\ UNCHANGED hist

(* freshItem: the sha is read first, then the text at that sha.            *)
Fresh ==
    /\ call.pc = "fresh"
    /\ \/ Tip # 0 /\ Goto([call EXCEPT !.pc = "content", !.sha = Tip]) /\ UNCHANGED spent
       \/ Tip = 0 /\ call.why = "unknown" /\ Goto([call EXCEPT !.pc = "list"]) /\ UNCHANGED spent
       \/ Fault("network") /\ Error
    /\ UNCHANGED <<hist, disk>>

(* Variant: the sha is read again when the brief is rendered. *)
RegisteredLate == Tip

(* renderBrief registers the sha that the text was read for. *)
Registered == call.sha

(* serverVersion: the sidecar's text when it is for that sha, else the     *)
(* text at that sha, else (an older server, or the first request failed)   *)
(* the present text, else none.                                            *)
Brief(version) ==
    /\ call' = NoCall
    /\ shown' = shown \cup ({version} \ {0})
    /\ reg'   = IF version = 0 THEN reg ELSE Registered
    /\ task'  = IF version = 0 THEN NoTask
                ELSE [todo |-> "merge", text |-> file.text \cup hist[version]]

HasText(sha) == side.sha = sha /\ side.content

Content ==
    /\ call.pc = "content"
    /\ IF call.why = "unknown" /\ call.sha = base
       THEN Goto([call EXCEPT !.pc = "list"]) /\ UNCHANGED spent
       ELSE \/ Brief(call.sha) /\ UNCHANGED spent
            \/ ~HasText(call.sha) /\ Fault("network") /\ \E v \in {0, Tip} : Brief(v)
    /\ UNCHANGED <<hist, disk>>

-----------------------------------------------------------------------------
(* Variant: a page named in resolved is sent in any valid state. *)
SendsUnchanged == {"modified", "new", "unchanged"}

Sends == {"modified", "new"}

(* Step 5, the push engine, from the listing to the records, under the     *)
(* sync lock.  A conflict that the listing shows becomes a sidecar unless  *)
(* it is recorded already; one that only the sidecar shows stays.          *)
ListCall ==
    CASE OnlineState \in Sends ->
             [call EXCEPT !.pc = "send", !.text = file.text]
      [] OnlineState = "conflict" /\ ListedState = "conflict" /\ side # [sha |-> Tip, content |-> TRUE] ->
             [call EXCEPT !.pc = "note", !.sha = Tip]
      [] OnlineState = "conflict" /\ (ListedState # "conflict" \/ side = [sha |-> Tip, content |-> TRUE]) ->
             [call EXCEPT !.pc = "content", !.why = "brief", !.sha = side.sha]
      [] OTHER -> NoCall

List ==
    /\ call.pc = "list"
    /\ \/ /\ IF ListCall = NoCall THEN Answer ELSE Goto(ListCall)
          /\ UNCHANGED spent
       \/ Fault("network") /\ Error
    /\ UNCHANGED <<hist, disk>>

(* The conflict recorded and then briefed. *)
Recorded(sha, content) ==
    /\ side' = [sha |-> sha, content |-> content]
    /\ Goto([call EXCEPT !.pc = "content", !.why = "brief", !.sha = sha])
    /\ UNCHANGED <<hist, file, base>>

NoteConflict ==
    /\ call.pc = "note"
    /\ \/ Recorded(Tip, TRUE) /\ UNCHANGED spent
       \/ Recorded(call.sha, FALSE) /\ Fault("network")

(* Variant: the request carries no parent_sha. *)
RefusesPresent == base = 0 /\ Tip # 0

Refuses == IF base = 0 THEN Tip # 0 ELSE Tip # base

(* The version an accepted push makes.  The server answers a text it holds *)
(* already with no commit, but the engine sends no unchanged page.         *)
Written == Append(hist, call.text)

Send ==
    /\ call.pc = "send"
    /\ \/ Refuses /\ Recorded(Tip, TRUE) /\ UNCHANGED spent
       \/ /\ ~Refuses
          /\ hist' = Written
          /\ base' = Len(Written) /\ side' = NoSide
          /\ Answer /\ UNCHANGED <<file, spent>>
       \/ /\ Fault("network") /\ Error /\ UNCHANGED disk   \* the request or its reply is lost
          /\ hist' \in {hist, IF Refuses THEN hist ELSE Written}

-----------------------------------------------------------------------------
(* A pull under the sync lock: an unedited page is brought up to date, an  *)
(* edited one that holds the server's text is adopted, any other conflict  *)
(* is recorded.                                                            *)
BringsIn == OnlineState \in {"incoming", "incoming_new"}
Adopts   == OnlineState = "conflict" /\ file.text = hist[Tip]
Keeps    == OnlineState = "conflict" /\ file.text # hist[Tip]

Pulled ==
    IF BringsIn \/ Adopts
    THEN /\ file' = [kind |-> "valid", text |-> hist[Tip]]
         /\ base' = Tip /\ side' = NoSide
    ELSE /\ side' = IF Keeps THEN [sha |-> Tip, content |-> TRUE] ELSE side
         /\ UNCHANGED <<file, base>>

(* ctx_pull: a conflict it kept is briefed. *)
CallPull ==
    /\ call = NoCall /\ OnlineState \in {"incoming", "incoming_new", "conflict"}
    /\ Pulled
    /\ IF Keeps THEN Goto([NoCall EXCEPT !.pc = "content", !.why = "brief", !.sha = Tip])
                ELSE Answer
    /\ UNCHANGED <<hist, spent>>

(* ctx pull in a terminal, or in another agent's MCP server: while the     *)
(* agent has nothing to merge, or at any time the lock is free.            *)
OtherPull ==
    /\ call.pc \notin {"note", "send"}
    /\ (call = NoCall /\ task = NoTask) \/ "beside" \in Faults
    /\ OnlineState \in {"incoming", "incoming_new", "conflict"}
    /\ Pulled
    /\ UNCHANGED <<hist, reg, call, task, shown, spent>>

(* ctx_write_page: the agent writes the merge of the texts of the brief    *)
(* over whatever the file holds by now.                                    *)
WritePage ==
    /\ call = NoCall /\ task.todo = "merge"
    /\ file' = [kind |-> "valid", text |-> task.text]
    /\ task' = [task EXCEPT !.todo = "merged"]
    /\ UNCHANGED <<hist, base, side, reg, call, shown, spent>>

-----------------------------------------------------------------------------
(* The user's editor, which creates the page once, a teammate, and a       *)
(* restart of the MCP server.                                              *)
Edit ==
    /\ spent.edits < MaxEdits
    /\ file.kind = "valid" \/ (file.kind = "absent" /\ base = 0 /\ spent.edits = 0 /\ shown = {})
    /\ spent' = [spent EXCEPT !.edits = @ + 1]
    /\ file' = [kind |-> "valid", text |-> file.text \cup {EditChange(spent.edits + 1)}]
    /\ UNCHANGED <<hist, base, side, reg, call, task, shown>>

Spoil ==
    /\ file.kind = "valid" /\ Fault("spoil")
    /\ file' \in {[kind |-> "absent", text |-> {}], [file EXCEPT !.kind = "invalid"]}
    /\ UNCHANGED <<hist, base, side, reg, call, task, shown>>

Mend ==
    /\ file.kind = "invalid" /\ file' = [file EXCEPT !.kind = "valid"]
    /\ UNCHANGED <<hist, base, side, reg, call, task, shown, spent>>

PeerPush ==
    /\ spent.peers < MaxPeerPushes
    /\ spent' = [spent EXCEPT !.peers = @ + 1]
    /\ hist' = Append(hist, (IF Tip = 0 THEN {} ELSE hist[Tip]) \cup {PeerChange(spent.peers + 1)})
    /\ UNCHANGED <<disk, reg, call, task, shown>>

(* It may come between two calls, or cut one short. *)
Restart ==
    /\ Fault(IF call = NoCall THEN "restart" ELSE "killed")
    /\ reg' = 0 /\ call' = NoCall
    /\ UNCHANGED <<hist, disk, task, shown>>

Step == Resolve \/ Fresh \/ Content \/ List \/ NoteConflict \/ Send

Next == \/ \E resolved \in BOOLEAN : CallPush(resolved)
        \/ CallPull \/ WritePage \/ Step
        \/ OtherPull \/ Edit \/ Spoil \/ Mend \/ PeerPush \/ Restart

(* A call runs to its end, and the agent does what it is asked: it writes  *)
(* the merge a brief asks for and calls ctx_push again, resolved once it   *)
(* did.                                                                    *)
Fairness == /\ WF_vars(Step) /\ SF_vars(WritePage)
            /\ \A resolved \in BOOLEAN : SF_vars(CallPush(resolved))

Spec == Init /\ [][Next]_vars /\ Fairness

-----------------------------------------------------------------------------
(* merge.go's brief: "If the server moved again meanwhile, you get a fresh *)
(* MERGE_REQUIRED instead and nothing is overwritten".  Every version of   *)
(* the page contains every change of the version it replaces, whatever was *)
(* pushed, edited, lost on the way or restarted between brief and push.    *)
NothingOverwritten ==
    [][Tip # 0 /\ Len(hist') > Tip => hist[Tip] \subseteq hist'[Len(hist')]]_vars

(* tools.go 880-883: the sha registered for a brief is never newer than    *)
(* what the agent was shown with it.                                       *)
BriefNotAhead == reg # 0 => \E v \in shown : v >= reg

(* "resolved=[...] re-bases each merged page onto the server version the   *)
(* agent was shown, never onto a newer one" (tools.go 665): a base that    *)
(* ctx_push moves is a version the agent has seen.                         *)
NeverNewer ==
    [][call.pc = "resolve" /\ base' # base => \E v \in shown : v >= base']_vars

(* A merge ends: once teammates pause, an agent that follows the briefs    *)
(* brings every change of the working file to the server, where a stale    *)
(* resolve leaves the sidecar at the old sha (tools.go 776) and a lost     *)
(* reply leaves a version of its own that it has not recorded.             *)
MergeEnds ==
    <>[](file.kind = "valid" => Tip # 0 /\ file.text \subseteq hist[Tip])

(* What the registry holds was shown, whatever part of the sidecar was     *)
(* missing and however the brief came about.                               *)
BriefSound ==
    /\ MergeTypeOK
    /\ BriefNotAhead
=============================================================================
