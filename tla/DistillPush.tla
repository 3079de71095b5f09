----------------------------- MODULE DistillPush -----------------------------
(***************************************************************************)
(* ctx_push's distill handshake over the capture buffers (mcp/tools.go,    *)
(* syncops/guard.go).  An agent asks for a push; when the batch has a      *)
(* concept or analysis page and a session is pending, it gets PUSH_PAUSED  *)
(* with a session's turns instead; it writes a source page and pushes      *)
(* again with distill_done, which archives a buffer once the push reached  *)
(* the server.  Hooks go on capturing between any two steps.               *)
(***************************************************************************)
EXTENDS CaptureBuffer

CONSTANTS MaxPushes,   \* bound: calls of ctx_push
          Earlier      \* the buffers when the model begins: of earlier hooks

(* Before the model begins every hook ran alone and every exchange had its *)
(* turn, some without a prompt; the oldest may have been dropped.          *)
ASSUME EarlierAssumption == \A s \in Sessions : Earlier[s] # NoFile =>
    LET q == Earlier[s]
    IN  /\ q \in Seq(Nat \X Nat \X Nat) /\ Len(q) <= MaxTurns
        /\ \A i \in DOMAIN q :
              \/ i = 1 /\ q[i] = Marker
              \/ q[i][1] \in 1 .. MaxExchanges[s] /\ q[i][2] \in {0, q[i][1]} /\ q[i][3] = q[i][1]
        /\ \A i, j \in DOMAIN q : i < j => q[i][1] < q[j][1]

VARIABLES push,    \* the ctx_push in progress
          pushes,  \* how many there were
          shown,   \* the session whose turns the last PUSH_PAUSED had
          quiet    \* sessions without a fresh turn at some moment of the guard

pushVars == <<push, pushes, shown>>
distillVars == <<captureVars, pushVars, quiet>>

NoPush  == [at |-> "idle", list |-> << >>, fresh |-> {}, done |-> FALSE, checked |-> FALSE, victim |-> "none"]

DistillInit ==
    /\ asked = [s \in Sessions |-> NextTurn(Recs(Earlier[s])) - 1] /\ stops = [s \in Sessions |-> Fires(s)]
    /\ script = [s \in Sessions |-> [shape |-> << >>, landed |-> 0]]
    /\ prompt = [s \in Sessions |-> -1]
    /\ file = [s \in Sessions |-> [f \in {"pend", "tmp", "arch"} |->
                  IF f = "pend" THEN Earlier[s] ELSE NoFile]]
    /\ order = SQ!SetToSeq(Sessions) /\ age = [s \in Sessions |-> 2]
    /\ hk = [h \in Hooks |-> Free]
    /\ kept = [s \in Sessions |-> Turns(Earlier[s])] /\ gone = [s \in Sessions |-> {}] /\ mixed = {} /\ clash = {}
    /\ push = NoPush /\ pushes = 0 /\ quiet = {}
    /\ shown = "none"

Fresh(s)   == file[s]["pend"] # NoFile /\ age[s] = 0
Pending(s) == Fresh(s) /\ Recs(file[s]["pend"]) # << >>

At(at) == push' = [push EXCEPT !.at = at]
Buffers == UNCHANGED captureVars

-----------------------------------------------------------------------------
(* ctx_push, step 1.  no_distill, the environment's bypass and a batch     *)
(* without knowledge pages ask nothing; distill_done names a source page,  *)
(* which may be one of an earlier session.                                 *)
Call ==
    /\ push.at = "idle" /\ pushes < MaxPushes
    /\ pushes' = pushes + 1
    /\ \/ push' = [NoPush EXCEPT !.at = "guard", !.checked = TRUE]
       \/ push' = [NoPush EXCEPT !.at = "send"]
       \/ push' = [NoPush EXCEPT !.at = "link", !.done = TRUE]
    /\ Buffers /\ UNCHANGED shown

(* Variant: only the most recent buffer counts. *)
NewestOnly == IF List = << >> THEN << >> ELSE <<List[1]>>

(* CheckGuard: every buffer is scanned. *)
Scanned == List

GuardList ==
    /\ push.at = "guard"
    /\ push' = [push EXCEPT !.at = "stat", !.list = Scanned]
    /\ Buffers /\ UNCHANGED <<pushes, shown>>

Cur  == push.list[1]
Skip == push' = [push EXCEPT !.at = "stat", !.list = Tail(@)]

(* guardReadBuffer: a buffer that went away since is not pending.          *)
GuardStat ==
    /\ push.at = "stat" /\ push.list # << >>
    /\ IF Fresh(Cur) THEN At("read") ELSE Skip
    /\ Buffers /\ UNCHANGED <<pushes, shown>>

GuardRead ==
    /\ push.at = "read"
    /\ push' = [push EXCEPT !.at = "stat", !.list = Tail(@),
                            !.fresh = @ \cup IF Recs(file[Cur]["pend"]) # << >> THEN {Cur} ELSE {}]
    /\ Buffers /\ UNCHANGED <<pushes, shown>>

GuardDone ==
    /\ push.at = "stat" /\ push.list = << >>
    /\ At(IF push.fresh = {} THEN "send" ELSE "direct")
    /\ Buffers /\ UNCHANGED <<pushes, shown>>

(* buildDistillDirective: the turns of the newest fresh session, or, when  *)
(* they are gone meanwhile, of the most recent buffer.                     *)
Direct ==
    /\ push.at = "direct"
    /\ LET newest == Pick(order, push.fresh)[1]
           recent == Pick(order, {s \in Sessions : Fresh(s)})
           s == IF Recs(file[newest]["pend"]) # << >> \/ recent = << >> THEN newest ELSE recent[1]
       IN  shown' = IF Recs(file[s]["pend"]) = << >> THEN "none" ELSE s
    /\ push' = NoPush
    /\ Buffers /\ UNCHANGED pushes

(* linkSourceIntoFiltered: a page that cannot be read or written aborts.   *)
Link ==
    /\ push.at = "link"
    /\ At("send") \/ push' = NoPush
    /\ Buffers /\ UNCHANGED <<pushes, shown>>

(* syncops.Push answers: pages or conflicts reached the server, or not; a  *)
(* push that sent nothing leaves the buffers pending.                      *)
Sent ==
    /\ push.at = "send"
    /\ \E reached \in BOOLEAN :
          push' = IF push.done /\ reached THEN [push EXCEPT !.at = "find", !.list = List] ELSE NoPush
    /\ Buffers /\ UNCHANGED <<pushes, shown>>

(* MostRecent: the first buffer of the list that is still fresh.           *)
MostRecent ==
    /\ push.at = "find"
    /\ push' = IF push.list = << >> THEN NoPush
               ELSE IF Fresh(Cur) THEN [push EXCEPT !.at = "archive", !.victim = Cur]
               ELSE [push EXCEPT !.list = Tail(@)]
    /\ Buffers /\ UNCHANGED <<pushes, shown>>

(* Archive: over an earlier archive of the session. *)
Archive ==
    /\ push.at = "archive"
    /\ LET s == push.victim
       IN  IF file[s]["pend"] = NoFile THEN UNCHANGED <<file, hk, gone>>
           ELSE /\ file' = Moved(s, "pend", "arch")
                /\ hk' = Follow(s, "pend", "arch")
                /\ gone' = [gone EXCEPT ![s] = @ \cup Turns(file[s]["arch"])]
    /\ push' = NoPush
    /\ UNCHANGED <<asked, stops, script, prompt, order, age, kept, mixed, clash, pushes, shown>>

PushStep == \/ Call \/ GuardList \/ GuardStat \/ GuardRead \/ GuardDone \/ Direct
            \/ Link \/ Sent \/ MostRecent \/ Archive

DistillNext ==
    /\ \/ CaptureStep /\ Remember /\ UNCHANGED pushVars
       \/ PushStep
    /\ quiet' = IF push.checked' THEN (IF push.at = "idle" THEN {} ELSE quiet) \cup {s \in Sessions : ~Pending(s)'} ELSE {}

DistillSpec == DistillInit /\ [][DistillNext]_distillVars

-----------------------------------------------------------------------------
InBuffer(s, f) == Turns(file[s][f])

(* Type correctness: a marker only where turns were dropped, at the head,  *)
(* no lines of another exchange, handles only where a hook rewrites.                           *)
CaptureTypeOK ==
    /\ \A s \in Sessions : /\ stops[s] <= Fires(s) /\ asked[s] <= MaxExchanges[s] /\ prompt[s] \in -1 .. asked[s]
                           /\ \A f \in {"pend", "tmp", "arch"} : \A i \in DOMAIN Recs(file[s][f]) :
                                 (i = 1 /\ Recs(file[s][f])[i] = Marker) \/ Recs(file[s][f])[i] \in (1 .. 2 * MaxExchanges[s]) \X (0 .. asked[s]) \X (1 .. asked[s])
    /\ \A h \in Hooks : hk[h].into # "none" => hk[h].at \in {"flush", "rename"}
    /\ SQ!ToSet(order) = Sessions /\ push.fresh \subseteq Sessions

(* A turn whose hook reported no error is in the buffer or the archive,    *)
(* unless it was dropped as one of the oldest of a full buffer, pruned     *)
(* after thirty days or archived over: AppendTurn and PruneOlderThan take  *)
(* no lock, and only a rewrite or a removal that meets another process at  *)
(* work on the same session may lose one.                                  *)
NothingLost == \A s \in Sessions \ clash :
                 kept[s] \subseteq InBuffer(s, "pend") \cup InBuffer(s, "arch") \cup gone[s]

(* However the hooks interleave, the cap of AppendTurn is passed by no     *)
(* more turns than there are processes that read the buffer below it.      *)
BufferBounded == \A s \in Sessions : Len(Recs(file[s]["pend"])) <= MaxTurns + Cardinality(Hooks) - 1

(* While the hooks of a session run one at a time, nextTurnIndex numbers   *)
(* its turns in the order they happened, across overflow and archives.     *)
TurnsIncrease == \A s \in Sessions \ mixed : LET r == Recs(file[s]["pend"]) IN
                   \A i, j \in DOMAIN r : i < j /\ r[i] # Marker /\ r[j] # Marker => r[i][1] < r[j][1] /\ r[i][3] <= r[j][3]

(* TakePendingPrompt hands a prompt to one turn only, whichever hooks      *)
(* failed or were killed in between.                                       *)
PromptUsedOnce == \A s \in Inline \ mixed : LET r == Recs(file[s]["pend"]) IN
                   \A i, j \in DOMAIN r : i # j /\ r[i][2] = r[j][2] => r[i][2] = 0

(* LatestTurn: unless its wait is over, the text captured ends with the    *)
(* turn's final reply, has it once, and keeps the newest of the others.    *)
ReplyComplete == \A h \in Hooks : LET k == hk[h] IN
    k.at = "records" /\ k.s \notin Inline \cup mixed /\ ~k.late /\ stops[k.s] > 0 =>
        LET x == script[k.s].shape
            all == TextsOf(x, Len(x))
        IN  k.parts # << >> /\ k.parts = SubSeq(all, Len(all) - Len(k.parts) + 1, Len(all))

(* CheckGuard: a push that it lets pass found each session without a fresh *)
(* turn at some moment of the check, although hooks and archives go on     *)
(* between its listing, its stats and its reads.                           *)
GuardSound == push.at = "send" /\ push.checked => quiet = Sessions

(* A buffer stays one, however its hooks interleave and die: it is         *)
(* bounded, its turns are numbered in their order, and no prompt is in it  *)
(* twice (AppendTurn, nextTurnIndex, TakePendingPrompt).                   *)
BuffersSound ==
    /\ CaptureTypeOK
    /\ BufferBounded
    /\ TurnsIncrease
    /\ PromptUsedOnce
=============================================================================
