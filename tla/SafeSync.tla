------------------------------ MODULE SafeSync ------------------------------
(***************************************************************************)
(* Several clones synchronise their wiki pages with one server repository: *)
(* internal/syncops (pull, push, resolve, repair) over internal/syncstate  *)
(* (state.json, bases.json, conflicts.json, base files) on each clone.     *)
(*                                                                         *)
(* Operations of one clone exclude each other by .contexo/.sync/lock; they *)
(* interleave with the operations of the other clones, with the user, who  *)
(* may edit a file at any moment, and with requests that the client has    *)
(* given up waiting for and the server still carries out.                  *)
(*                                                                         *)
(* Sanitize and Normalize are abstracted: a content stands for the bytes   *)
(* they agree on.  Case collisions, index.md and tags.md, and the bytes    *)
(* kept beside a conflict record are left out.                             *)
(***************************************************************************)
EXTENDS PageStore, Classify, FiniteSets

CONSTANTS Absent,    \* no file
          Broken,    \* file contents that do not parse as a page
          Commands,  \* what the users run
          Faults     \* what may go wrong, see below

CommandKinds == {"pull", "push", "ours", "theirs", "repair"}

FaultKinds == {"crash",    \* a process ends inside an operation's writes
               "second",   \* two backups of a page fall into one second
               "io",       \* one write of an operation fails, the others go on
               "timeout",  \* the client stops waiting for a push
               "wipe",     \* the operator deletes the repository
               "damage",   \* a file under .contexo/.sync is lost
               "window"}   \* an edit lands between re-check and rename

ASSUME FaultsAssumption  == Faults \subseteq FaultKinds /\ Commands \subseteq CommandKinds
ASSUME AbsentAssumption  == Absent \notin Contents \cup Broken
ASSUME BrokenAssumption  == Contents \cap Broken = {}

VARIABLES file,    \* the working file of each page
          meta,    \* what .contexo/.sync records about each page
          backup,  \* what is saved under .contexo/.sync/backup
          op,      \* the operation that holds the clone's lock
          late,    \* files of abandoned push requests the server may still write
          held,    \* history: the contents each working file has had
          told     \* history: the server versions the user resolved against

cloneVars == <<file, meta, backup, op, late>>
userVars  == <<held, told>>
vars      == <<log, tip, born, file, meta, backup, op, late, held, told>>

Files == Contents \cup Broken \cup {Absent}

(* page_shas[p]; the bases.json record of p; base/p; the server sha of the *)
(* conflicts.json record of p.  0 and Absent: there is none.               *)
Meta == [sha : Sha, recSha : Sha, recHash : Contents \cup {Absent},
         base : Contents \cup {Absent}, side : Sha]

NoMeta == [sha |-> 0, recSha |-> 0, recHash |-> Absent, base |-> Absent, side |-> 0]

(* The backup files of a page are named by the second they are written in: *)
(* the last one is overwritten by another of the same second.              *)
Backups  == [older : SUBSET Files, last : Files]
Saved(b) == b.older \cup {b.last}

(* How far an operation is with a page.                                    *)
(*   need      pull must fetch it           have     pull fetched it       *)
(*   write     re-checked, about to rename  written  the file was replaced *)
(*   adopt     equal contents, record it    sidecar  record the conflict   *)
(*   send      the server has yet to write  pushed   the server wrote it   *)
(*   note      fetch the conflict's server version                         *)
(*   theirs    resolve --theirs read it     overwrite  backed up           *)
Steps == {"none", "need", "have", "write", "written", "adopt", "sidecar",
          "send", "pushed", "note", "theirs", "overwrite"}

Job == [state : PageStates \cup {NoEntry}, seen : Files, got : Sha, step : Steps]
NoJob == [state |-> NoEntry, seen |-> Absent, got |-> 0, step |-> "none"]

Idle == [cmd |-> "none", job |-> [p \in Pages |-> NoJob]]

TypeOK == /\ StoreTypeOK
          /\ file \in [Clones -> [Pages -> Files]]
          /\ meta \in [Clones -> [Pages -> Meta]]
          /\ backup \in [Clones -> [Pages -> Backups]]
          /\ op \in [Clones -> [cmd : {"none", "pull", "push", "theirs"}, job : [Pages -> Job]]]
          /\ late \in SUBSET Item
          /\ held \in [Clones -> [Pages -> SUBSET Files]]
          /\ told \in [Clones -> [Pages -> SUBSET Sha]]

Init == /\ StoreInit
        /\ file = [c \in Clones |-> [p \in Pages |-> Absent]]
        /\ meta = [c \in Clones |-> [p \in Pages |-> NoMeta]]
        /\ backup = [c \in Clones |-> [p \in Pages |-> [older |-> {}, last |-> Absent]]]
        /\ op = [c \in Clones |-> Idle]
        /\ late = {}
        /\ held = [c \in Clones |-> [p \in Pages |-> {}]]
        /\ told = [c \in Clones |-> [p \in Pages |-> {}]]

-----------------------------------------------------------------------------
(* What a clone sees of a page.                                            *)
LocalSide(f) == CASE f = Absent      -> LocalAbsent
                  [] f \in Broken    -> LocalInvalid
                  [] f \in Contents  -> LocalValid(f)

(* Variant: any base record counts, also one for another sha. *)
BaseSideUnmatched(m) == CASE m.sha = 0 -> BaseNone
                          [] m.sha # 0 /\ m.base # Absent /\ m.recHash # Absent ->
                                 BaseValid(m.sha, m.recHash)
                          [] OTHER -> BaseStale(m.sha)

(* Bases.Valid asks for a base file, not for its contents. *)
BaseSide(m) == CASE m.sha = 0 -> BaseNone
                 [] m.sha # 0 /\ m.recSha = m.sha /\ m.base # Absent ->
                        BaseValid(m.sha, m.recHash)
                 [] OTHER -> BaseStale(m.sha)

(* The state of a page whose file is f and whose records are m, the server *)
(* listing it at sha listed.                                               *)
RawState(f, m, listed) == Classify(LocalSide(f), BaseSide(m), OnlineRemote(listed))
State(f, m, listed)    == ApplySidecar(RawState(f, m, listed), m.sha, m.side)

(* The records of a page that is in sync at sha s. *)
Synced(s) == [sha |-> s, recSha |-> s, recHash |-> log[s].content,
              base |-> log[s].content, side |-> 0]

Set(f, c, p, v) == [f EXCEPT ![c][p] = v]
SetJob(c, p, j) == op' = [op EXCEPT ![c].job[p] = j]
Move(c, p, s)   == op' = [op EXCEPT ![c].job[p].step = s]
At(c, p, s)     == op[c].job[p].step = s
NoneAt(c, ss)   == \A p \in Pages : op[c].job[p].step \notin ss

(* The file of a page changes; the history remembers every page it held. *)
PutFile(c, p, f) == /\ file' = Set(file, c, p, f)
                    /\ held' = Set(held, c, p, held[c][p] \cup ({f} \cap Contents))

-----------------------------------------------------------------------------
(* The write order of layout.go: base files, bases.json, conflicts.json,   *)
(* state.json.  put is the set of pages whose base file was written, idx   *)
(* the set of index files that were saved.  An operation that stops at the *)
(* first failed write, or a process that ends, leaves a prefix of the      *)
(* order; push and pull go on after a failed write, so that any            *)
(* combination may land.  A record whose base file was not written keeps   *)
(* its old value in bases.json.                                            *)
IndexFiles == {"bases", "conflicts", "state"}

Prefixes == {<<put, {}>> : put \in SUBSET Pages} \cup
            {<<Pages, idx>> : idx \in {{"bases"}, {"bases", "conflicts"}, IndexFiles}}

Landings(goesOn) ==
    IF goesOn /\ "io" \in Faults THEN (SUBSET Pages) \X (SUBSET IndexFiles)
    ELSE IF "crash" \in Faults THEN Prefixes
    ELSE {<<Pages, IndexFiles>>}

Landed(old, new, put, idx) ==
    [p \in Pages |->
        [sha     |-> IF "state" \in idx THEN new[p].sha ELSE old[p].sha,
         recSha  |-> IF p \in put /\ "bases" \in idx THEN new[p].recSha ELSE old[p].recSha,
         recHash |-> IF p \in put /\ "bases" \in idx THEN new[p].recHash ELSE old[p].recHash,
         base    |-> IF p \in put THEN new[p].base ELSE old[p].base,
         side    |-> IF "conflicts" \in idx THEN new[p].side ELSE old[p].side]]

(* An operation saves new and releases the lock. *)
Save(c, new, landing) ==
    /\ meta' = [meta EXCEPT ![c] = Landed(meta[c], new, landing[1], landing[2])]
    /\ op' = [op EXCEPT ![c] = Idle]

-----------------------------------------------------------------------------
(* The user (or an agent) edits, creates, breaks or deletes a file.        *)
Edit(c, p) ==
    /\ At(c, p, "write") \/ At(c, p, "overwrite") => "window" \in Faults
    /\ \E f \in Files \ {file[c][p]} : PutFile(c, p, f)
    /\ UNCHANGED <<log, tip, born, meta, backup, op, late, told>>

-----------------------------------------------------------------------------
(* EnsureBase and ctx repair.  A page_shas value without a verified base   *)
(* is stale; the server's version of the page at that sha decides (E11).   *)
Verified(m) == m.recSha # 0 /\ m.base # Absent /\ m.base = m.recHash

Stale(m) == m.sha # 0 /\ ~(m.recSha = m.sha /\ Verified(m))

(* Variants: without a base the working file is trusted; the repair drops  *)
(* the conflict record of an edited page.                                  *)
DecideTrustsFile(f, m) ==
    IF f \in Contents THEN [Synced(m.sha) EXCEPT !.recHash = f, !.base = f] ELSE m
DecideDropsConflict(f, m) == Synced(m.sha)

Decide(f, m) ==
    LET server == log[m.sha].content
    IN  CASE f = server -> Synced(m.sha)
          [] f # server /\ Verified(m) ->
                [m EXCEPT !.sha = m.recSha,
                          !.side = IF f \in Contents /\ f # m.recHash /\ m.sha # m.recSha
                                   THEN m.sha ELSE @]
          [] OTHER -> [Synced(m.sha) EXCEPT !.side = m.side]

Repairable(c) == {p \in Pages : Stale(meta[c][p]) /\ Readable(meta[c][p].sha)}

(* Requests that fail leave their page as it is: fixed is what succeeded.  *)
Repaired(c, fixed) ==
    [p \in Pages |-> IF p \in fixed THEN Decide(file[c][p], meta[c][p]) ELSE meta[c][p]]

(* ctx repair and online ctx status. *)
Repair(c) ==
    /\ "repair" \in Commands /\ op[c] = Idle
    /\ \E fixed \in SUBSET Repairable(c) \ {{}}, landing \in Landings(FALSE) :
           Save(c, Repaired(c, fixed), landing)
    /\ UNCHANGED <<log, tip, born, file, backup, late, held, told>>

-----------------------------------------------------------------------------
(* ctx pull, PREPARE and CLASSIFY: list the server, repair the bases,      *)
(* classify every page and mark the pages whose server version is needed.  *)
Needed == {"incoming", "incoming_new", "conflict", "unverified"}

PullBegin(c) ==
    /\ "pull" \in Commands /\ op[c] = Idle
    /\ \E fixed \in SUBSET Repairable(c) :
         LET m        == Repaired(c, fixed)
             state(p) == State(file[c][p], m[p], tip[p])
             job(p)   == [state |-> state(p), seen |-> file[c][p], got |-> 0, step |-> "need"]
         IN  /\ meta' = [meta EXCEPT ![c] = m]
             /\ op' = [op EXCEPT ![c] =
                    [cmd |-> "pull",
                     job |-> [p \in Pages |-> IF state(p) \in Needed THEN job(p) ELSE NoJob]]]
    /\ UNCHANGED <<log, tip, born, file, backup, late, held, told>>

(* FETCH: a page is delivered as the server has it now; one that vanished  *)
(* is skipped.                                                             *)
PullFetch(c, p) ==
    /\ op[c].cmd = "pull" /\ At(c, p, "need")
    /\ SetJob(c, p, IF tip[p] = 0 THEN NoJob
                    ELSE [op[c].job[p] EXCEPT !.got = tip[p], !.step = "have"])
    /\ UNCHANGED <<log, tip, born, file, meta, backup, late, held, told>>

(* Variant: the file is not read again before it is replaced. *)
AppliedUnchecked(c, p) ==
    CASE op[c].job[p].state \in {"incoming", "incoming_new"} -> "write"
      [] op[c].job[p].state = "conflict" -> "sidecar"
      [] OTHER -> "none"

(* APPLY, one page at a time once all are fetched: re-read the file, skip  *)
(* the page when it is not what the scan saw, else write, adopt or record. *)
Applied(c, p) ==
    LET j == op[c].job[p]
        f == file[c][p]
    IN  CASE j.state = "incoming"     -> IF f = meta[c][p].recHash THEN "write" ELSE "none"
          [] j.state = "incoming_new" -> IF f = Absent THEN "write" ELSE "none"
          [] j.state \in {"conflict", "unverified"} /\ f # j.seen -> "none"
          [] j.state \in {"conflict", "unverified"} /\ f = j.seen ->
                IF f = log[j.got].content THEN "adopt"
                ELSE IF j.state = "conflict" THEN "sidecar" ELSE "none"

PullApply(c, p) ==
    /\ op[c].cmd = "pull" /\ At(c, p, "have") /\ NoneAt(c, {"need", "write"})
    /\ SetJob(c, p, IF Applied(c, p) = "none" THEN NoJob
                    ELSE [op[c].job[p] EXCEPT !.step = Applied(c, p)])
    /\ UNCHANGED <<log, tip, born, file, meta, backup, late, held, told>>

PullWrite(c, p) ==
    /\ op[c].cmd = "pull" /\ At(c, p, "write")
    /\ PutFile(c, p, log[op[c].job[p].got].content)
    /\ Move(c, p, "written")
    /\ UNCHANGED <<log, tip, born, meta, backup, late, told>>

(* A failed write of a working file stops APPLY, not FINISH (R9). *)
PullWriteFails(c) ==
    /\ "io" \in Faults
    /\ op[c].cmd = "pull" /\ ~NoneAt(c, {"write"})
    /\ op' = [op EXCEPT ![c].job =
                 [p \in Pages |-> IF @[p].step \in {"have", "write"} THEN NoJob ELSE @[p]]]
    /\ UNCHANGED <<log, tip, born, file, meta, backup, late, held, told>>

(* Variants: the file's present contents become the base; sidecars of      *)
(* pages that are in sync again stay.                                      *)
PullRecordOfFile(c, p) ==
    LET j == op[c].job[p]
    IN  IF j.step \in {"written", "adopt"} /\ file[c][p] \in Contents
        THEN [Synced(j.got) EXCEPT !.recHash = file[c][p], !.base = file[c][p]] ELSE meta[c][p]
PullRecordKeepsSide(c, p) ==
    LET j == op[c].job[p]
    IN  IF j.step \in {"written", "adopt"} THEN [Synced(j.got) EXCEPT !.side = meta[c][p].side]
        ELSE IF j.step = "sidecar" THEN [meta[c][p] EXCEPT !.side = j.got] ELSE meta[c][p]
(* FINISH: bases and page_shas of the written and adopted pages, whose     *)
(* sidecars are cleared, and sidecars of the conflicts.                    *)
PullRecord(c, p) ==
    LET j == op[c].job[p]
    IN  CASE j.step \in {"written", "adopt"} -> Synced(j.got)
          [] j.step = "sidecar" -> [meta[c][p] EXCEPT !.side = j.got]
          [] OTHER -> meta[c][p]

PullFinish(c) ==
    /\ op[c].cmd = "pull" /\ NoneAt(c, {"need", "have", "write"})
    /\ \E landing \in Landings(TRUE) : Save(c, [p \in Pages |-> PullRecord(c, p)], landing)
    /\ UNCHANGED <<log, tip, born, file, backup, late, held, told>>

-----------------------------------------------------------------------------
(* ctx push sends the pages in these states.                               *)
(* Variant: files that do not parse are sent as well. *)
SendableAnyFile == {"modified", "new", "invalid"}

Sendable == {"modified", "new"}

(* PREPARE: list, repair, classify, then send the modified and new pages   *)
(* among the selected ones.  A selected conflict the listing shows gets a  *)
(* sidecar (step note), unless the recorded one is the listed version, its *)
(* kind and base included: pages of again differ in these.                 *)
PushBegin(c) ==
    /\ "push" \in Commands /\ op[c] = Idle
    /\ \E fixed \in SUBSET Repairable(c), sel \in SUBSET Pages \ {{}}, again \in SUBSET Pages :
         LET m        == Repaired(c, fixed)
             state(p) == State(file[c][p], m[p], tip[p])
             note(p)  == /\ RawState(file[c][p], m[p], tip[p]) = "conflict"
                         /\ m[p].side # tip[p] \/ p \in again
             job(p)   == CASE p \in sel /\ state(p) \in Sendable ->
                                [state |-> state(p), seen |-> file[c][p], got |-> 0, step |-> "send"]
                           [] p \in sel /\ note(p) ->
                                [state |-> state(p), seen |-> file[c][p], got |-> tip[p], step |-> "note"]
                           [] OTHER -> NoJob
         IN  /\ meta' = [meta EXCEPT ![c] = m]
             /\ op' = [op EXCEPT ![c] = [cmd |-> "push", job |-> [p \in Pages |-> job(p)]]]
    /\ UNCHANGED <<log, tip, born, file, backup, late, held, told>>

(* Variant: the parent is the sha the server is at when the file is sent. *)
ItemAtTip(c, p) == [by |-> c, page |-> p, content |-> op[c].job[p].seen,
                    parent |-> tip[p], absent |-> meta[c][p].sha = 0]

(* The request file of a page: the base sha is the parent, a page without  *)
(* a base is expected to be absent.                                        *)
ItemOf(c, p) == [by |-> c, page |-> p, content |-> op[c].job[p].seen,
                 parent |-> meta[c][p].sha, absent |-> meta[c][p].sha = 0]

(* The server works through the files of the request, each under its own   *)
(* hold of the repository lock; a refused file becomes a sidecar.          *)
PushServe(c, p) ==
    /\ op[c].cmd = "push" /\ At(c, p, "send")
    /\ LET it == ItemOf(c, p)
       IN  /\ StoreWrite(it)
           /\ SetJob(c, p, [op[c].job[p] EXCEPT
                               !.got  = IF Refused(it) THEN tip[p] ELSE WrittenSha(it),
                               !.step = IF Refused(it) THEN "sidecar" ELSE "pushed"])
    /\ UNCHANGED <<file, meta, backup, late, held, told>>

(* After the reply, the version of a listed conflict is fetched: it may be *)
(* gone, it may have moved, and a failed fetch records the listed sha.     *)
PushNote(c, p) ==
    /\ op[c].cmd = "push" /\ At(c, p, "note") /\ NoneAt(c, {"send"})
    /\ LET j == op[c].job[p]
       IN  \/ tip[p] = 0 /\ SetJob(c, p, NoJob)
           \/ tip[p] # 0 /\ SetJob(c, p, [j EXCEPT !.got = tip[p], !.step = "sidecar"])
           \/ SetJob(c, p, [j EXCEPT !.step = "sidecar"])
    /\ UNCHANGED <<log, tip, born, file, meta, backup, late, held, told>>

(* Variant: the base is what the file holds when the reply arrives. *)
PushRecordOfFile(c, p) ==
    LET j == op[c].job[p]
    IN  IF j.step = "pushed" /\ file[c][p] \in Contents
        THEN [sha |-> j.got, recSha |-> j.got, recHash |-> file[c][p], base |-> file[c][p], side |-> 0]
        ELSE meta[c][p]

(* The base of a pushed page is the bytes that were sent, not what its     *)
(* file holds by now.                                                      *)
PushRecord(c, p) ==
    LET j == op[c].job[p]
    IN  CASE j.step = "pushed"  -> [sha |-> j.got, recSha |-> j.got, recHash |-> j.seen,
                                    base |-> j.seen, side |-> 0]
          [] j.step = "sidecar" -> [meta[c][p] EXCEPT !.side = j.got]
          [] OTHER -> meta[c][p]

PushFinish(c) ==
    /\ op[c].cmd = "push" /\ NoneAt(c, {"send", "note"})
    /\ \E landing \in Landings(TRUE) : Save(c, [p \in Pages |-> PushRecord(c, p)], landing)
    /\ UNCHANGED <<log, tip, born, file, backup, late, held, told>>

(* An operation ends before it saves anything: an error, a time-out, a     *)
(* crash.  The server may still carry out any part of a push it received.  *)
GiveUp(c) ==
    /\ Faults \cap {"crash", "timeout"} # {}
    /\ op[c] # Idle
    /\ \E rest \in SUBSET {p \in Pages : At(c, p, "send")} :
          late' = late \cup {ItemOf(c, p) : p \in rest}
    /\ op' = [op EXCEPT ![c] = Idle]
    /\ UNCHANGED <<log, tip, born, file, meta, backup, held, told>>

LateWrite ==
    /\ \E it \in late : StoreWrite(it) /\ late' = late \ {it}
    /\ UNCHANGED <<file, meta, backup, op, held, told>>

-----------------------------------------------------------------------------
(* ctx resolve --ours: one read of the page, then its version becomes the  *)
(* base; the file is neither read again nor written.                       *)
ResolveOurs(c, p) ==
    /\ "ours" \in Commands /\ op[c] = Idle /\ tip[p] # 0
    /\ State(file[c][p], meta[c][p], tip[p]) \in {"conflict", "unverified"}
    /\ told' = Set(told, c, p, told[c][p] \cup {tip[p]})
    /\ \E landing \in Landings(FALSE) :
          Save(c, [meta[c] EXCEPT ![p] = Synced(tip[p])], landing)
    /\ UNCHANGED <<log, tip, born, file, backup, late, held>>

(* ctx resolve --theirs.  An unchanged page only loses its sidecar.        *)
ResolveDrop(c, p) ==
    /\ "theirs" \in Commands /\ op[c] = Idle /\ tip[p] # 0
    /\ State(file[c][p], meta[c][p], tip[p]) = "unchanged" /\ meta[c][p].side # 0
    /\ meta' = [meta EXCEPT ![c][p].side = 0]
    /\ UNCHANGED <<log, tip, born, file, backup, op, late, held, told>>

TheirsBegin(c, p) ==
    /\ "theirs" \in Commands /\ op[c] = Idle /\ tip[p] # 0
    /\ State(file[c][p], meta[c][p], tip[p]) # "unchanged"
    /\ op' = [op EXCEPT ![c] = [cmd |-> "theirs",
                  job |-> [Idle.job EXCEPT ![p] = [NoJob EXCEPT !.got = tip[p], !.step = "theirs"]]]]
    /\ UNCHANGED <<log, tip, born, file, meta, backup, late, held, told>>

(* Variant: no backup. *)
TheirsNoBackup(c, p) ==
    /\ op[c].cmd = "theirs" /\ At(c, p, "theirs")
    /\ Move(c, p, "overwrite")
    /\ UNCHANGED <<log, tip, born, file, meta, backup, late, held, told>>

(* The file is read just before it is replaced; what it holds is saved     *)
(* first, unless it is the server version already.                         *)
TheirsBackup(c, p) ==
    /\ op[c].cmd = "theirs" /\ At(c, p, "theirs")
    /\ LET f == file[c][p]
           b == backup[c][p]
       IN  IF f = log[op[c].job[p].got].content
           THEN Move(c, p, "written") /\ UNCHANGED backup
           ELSE /\ Move(c, p, "overwrite")
                /\ \/ f = Absent /\ UNCHANGED backup
                   \/ f # Absent /\ backup' = Set(backup, c, p, [older |-> Saved(b), last |-> f])
                   \/ /\ f # Absent /\ "second" \in Faults
                      /\ backup' = Set(backup, c, p, [b EXCEPT !.last = f])
    /\ UNCHANGED <<log, tip, born, file, meta, late, held, told>>

TheirsWrite(c, p) ==
    /\ op[c].cmd = "theirs" /\ At(c, p, "overwrite")
    /\ PutFile(c, p, log[op[c].job[p].got].content)
    /\ Move(c, p, "written")
    /\ UNCHANGED <<log, tip, born, meta, backup, late, told>>

TheirsFinish(c, p) ==
    /\ op[c].cmd = "theirs" /\ At(c, p, "written")
    /\ \E landing \in Landings(FALSE) :
          Save(c, [meta[c] EXCEPT ![p] = Synced(op[c].job[p].got)], landing)
    /\ UNCHANGED <<log, tip, born, file, backup, late, held, told>>

-----------------------------------------------------------------------------
(* Another writer's push. *)
PeerWrite == /\ \E w \in Peers, p \in Pages, d \in Contents : StorePeerWrite(w, p, d)
             /\ UNCHANGED <<file, meta, backup, op, late, held, told>>

(* The operator deletes the repository.                                    *)
Wipe == "wipe" \in Faults /\ StoreWipe /\ UNCHANGED <<file, meta, backup, op, late, held, told>>

(* A file of .contexo/.sync is lost or unreadable, between operations: an  *)
(* index file reads as empty.                                              *)
Damage(c) ==
    /\ "damage" \in Faults
    /\ op[c] = Idle
    /\ \E lost \in {"state", "bases", "conflicts"} :
          meta' = [meta EXCEPT ![c] = [p \in Pages |->
                     CASE lost = "state"     -> [@[p] EXCEPT !.sha = 0]
                       [] lost = "bases"     -> [@[p] EXCEPT !.recSha = 0, !.recHash = Absent]
                       [] lost = "conflicts" -> [@[p] EXCEPT !.side = 0]]]
       \/ \E p \in Pages, b \in Contents \cup {Absent} : meta' = [meta EXCEPT ![c][p].base = b]
    /\ UNCHANGED <<log, tip, born, file, backup, op, late, held, told>>

Next ==
    \/ \E c \in Clones, p \in Pages :
          \/ Edit(c, p)
          \/ PullFetch(c, p) \/ PullApply(c, p) \/ PullWrite(c, p)
          \/ PushServe(c, p) \/ PushNote(c, p)
          \/ ResolveOurs(c, p) \/ ResolveDrop(c, p)
          \/ TheirsBegin(c, p) \/ TheirsBackup(c, p) \/ TheirsWrite(c, p) \/ TheirsFinish(c, p)
    \/ \E c \in Clones :
          \/ Repair(c) \/ PullBegin(c) \/ PullWriteFails(c) \/ PullFinish(c)
          \/ PushBegin(c) \/ PushFinish(c) \/ GiveUp(c) \/ Damage(c)
    \/ LateWrite \/ PeerWrite \/ Wipe

Spec == Init /\ [][Next]_vars

-----------------------------------------------------------------------------
(* The server versions of a page whose contents the user of a clone has    *)
(* had in the working file, or resolved against.                           *)
Known(c, p) == {s \in 1 .. Len(log) : log[s].page = p /\ log[s].content \in held[c][p]}
                 \cup told[c][p]

(* No push replaces a version of a page that its user has not had on disk  *)
(* or resolved against: README 220, "A page a teammate changed in the      *)
(* meantime is never overwritten".  It has to hold across abandoned        *)
(* requests, retries, repairs of half-saved records and a re-created       *)
(* repository.                                                             *)
NoLostUpdate ==
    [][Len(log') > Len(log) =>
         LET new == log'[Len(log')]
         IN  new.by \in Clones /\ tip[new.page] # 0 => tip[new.page] \in Known(new.by, new.page)]_vars

(* A recorded base is what the server held at the sha it is recorded for,  *)
(* and page_shas names a version the user knows: the three-way comparison  *)
(* of every later command rests on it.  Pull, push, resolve and repair     *)
(* write these records at different moments than they read the contents.   *)
BaseTruthful ==
    \A c \in Clones, p \in Pages :
       LET m == meta[c][p]
       IN  /\ m.recSha # 0 => /\ m.recSha \in Known(c, p)
                              /\ log[m.recSha].page = p
                              /\ log[m.recSha].content = m.recHash
           /\ m.sha # 0 => m.sha \in Known(c, p)

(* A page reported unchanged is byte for byte what the server holds.       *)
UnchangedIsEqual ==
    \A c \in Clones, p \in Pages :
       /\ tip[p] # 0
       /\ State(file[c][p], meta[c][p], tip[p]) = "unchanged"
       => file[c][p] = log[tip[p]].content

Published(p) == {log[s].content : s \in {i \in 1 .. Len(log) : log[i].page = p}}

(* Only the user destroys work: when an operation replaces a file, what it *)
(* replaces was published, or is in the backup (README 205 and 224).       *)
NoLocalEditLost ==
    [][\A c \in Clones, p \in Pages :
         file'[c][p] # file[c][p] /\ op' # op =>
           file[c][p] \in Published(p) \cup Saved(backup'[c][p]) \cup {Absent}]_vars

(* Conflicts persist until they are resolved (README 221): the record of a *)
(* conflict goes only when the user has that version of the page or a      *)
(* later one, or the file holds no edit of the base, or the index is lost. *)
ConflictsPersist ==
    [][\A c \in Clones, p \in Pages :
         meta[c][p].side # 0 /\ meta'[c][p].side = 0 /\ op' # op =>
           \/ \E s \in Known(c, p)' : s >= meta[c][p].side
           \/ file[c][p] = meta'[c][p].recHash]_vars

(* The sidecar that turns a modified page into a conflict is about a       *)
(* version newer than the page's base: README 200, "Both sides changed it  *)
(* since the base".                                                        *)
ConflictIsNewer ==
    \A c \in Clones, p \in Pages :
       /\ tip[p] # 0
       /\ RawState(file[c][p], meta[c][p], tip[p]) = "modified"
       /\ State(file[c][p], meta[c][p], tip[p]) = "conflict"
       => meta[c][p].side > meta[c][p].sha

(* The synchronisation of the clones implements SharedPages: whatever is   *)
(* retried, cut short or repaired, the team sees pages whose versions are  *)
(* replaced by writers who know them.                                      *)
Shared == INSTANCE SharedPages
          WITH history <- log, current <- tip,
               known <- [c \in Clones |-> [p \in Pages |-> Known(c, p)]]

SharedSpec == Shared!SharedSpec
=============================================================================
