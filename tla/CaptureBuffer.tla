---------------------------- MODULE CaptureBuffer ----------------------------
(***************************************************************************)
(* The capture of agent sessions: internal/capture and ctx capture turn,   *)
(* the target of the agents' hooks.  Every hook is a process of its own,   *)
(* without a lock; each system call that another process can see is a      *)
(* step.  A session is one conversation; its exchanges are numbered, and a *)
(* record <<turn, user, reply>> names the exchange the prompt and the      *)
(* reply come from.  A hook outside a project, or with capture disabled,   *)
(* does nothing and is left out.                                           *)
(***************************************************************************)
EXTENDS Integers, FiniteSets, Sequences
SQ == INSTANCE SequencesExt
FS == INSTANCE FiniteSetsExt

CONSTANTS Sessions,
          Inline,       \* sessions of Codex and Cursor: no transcript
          Hooks,        \* processes that may run at one time
          MaxTurns, DropOldest,
          MaxExchanges, \* bound: exchanges of each session
          Shapes,       \* what an exchange's transcript may look like
          MaxParts,     \* texts that fit in MaxAssistantBytes
          Killed,       \* sessions whose hooks may be killed or fail,
          Overlapping,  \* whose hooks may run at one time,
          Twice         \* whose Stop hook may fire twice

ASSUME CaptureAssumption == /\ Inline \subseteq Sessions
                            /\ DropOldest \in 1 .. MaxTurns /\ MaxTurns \in Nat
                            /\ MaxParts \in Nat \ {0} /\ MaxExchanges \in [Sessions -> Nat]
                            /\ Killed \cup Overlapping \cup Twice \subseteq Sessions
                            /\ IsFiniteSet(Sessions) /\ IsFiniteSet(Hooks)
                            /\ \A x \in Shapes : x \in Seq(STRING) /\ x # << >> /\ x[Len(x)] = "text"

VARIABLES asked,   \* the exchange each session is at
          stops,   \* Stop hooks that ran for it
          script,  \* transcript of that exchange: its shape, records landed
          prompt,  \* SESSION.prompt
          file,    \* SESSION.jsonl, SESSION.jsonl.tmp and _archive/SESSION.jsonl
          order,   \* the sessions by mtime of their buffer, newest first
          age,     \* 0 within six hours, 1 within thirty days, 2 older
          hk,      \* the hook processes
          kept,    \* turns whose hook reported no error
          gone,    \* turns that left: dropped, pruned or archived over
          mixed,   \* sessions two of whose hooks have run at once
          clash    \* sessions with an unserialised rewrite or removal

captureVars == <<asked, stops, script, prompt, file, order, age, hk, kept, gone, mixed, clash>>
ghosts == <<kept, gone>>

NoFile  == <<<<-1, -1, -1>>>>   \* no records: a turn's number is never negative
Marker  == <<0, 0, 0>>
Recs(c) == IF c = NoFile THEN << >> ELSE c
Turns(c) == {<<Recs(c)[i][2], Recs(c)[i][3]>> : i \in DOMAIN Recs(c)} \ {<<0, 0>>}

Free    == [at |-> "free", s |-> "none", ex |-> 0, final |-> FALSE, late |-> FALSE, user |-> 0,
            parts |-> << >>, seen |-> << >>, into |-> "none", victim |-> "none"]

(* The elements of q that are in S, in their order. *)
Pick(q, S) ==
    LET picked[n \in 0 .. Len(q)] ==
          IF n = 0 THEN << >>
          ELSE IF q[n] \in S THEN Append(picked[n - 1], q[n]) ELSE picked[n - 1]
    IN  picked[Len(q)]

Running(s) == {h \in Hooks : hk[h].at # "free" /\ hk[h].s = s}
To(h, at)  == hk' = [hk EXCEPT ![h].at = at]
Ends(h)    == hk' = [hk EXCEPT ![h] = Free]

-----------------------------------------------------------------------------
(* Files *)

(* os.Rename: an open handle follows its file; who had the target open     *)
(* writes into nothing.                                                    *)
Follow(s, a, b) == [g \in Hooks |->
    IF hk[g].s # s THEN hk[g]
    ELSE IF hk[g].into = a THEN [hk[g] EXCEPT !.into = b]
    ELSE IF hk[g].into = b THEN [hk[g] EXCEPT !.into = "none"] ELSE hk[g]]

Moved(s, a, b) == [file EXCEPT ![s][b] = file[s][a], ![s][a] = NoFile]

(* A write from offset 0 over what the file holds. *)
Overlay(old, new) == new \o SubSeq(Recs(old), Len(new) + 1, Len(Recs(old)))

Touch(s) == /\ order' = <<s>> \o Pick(order, Sessions \ {s})
            /\ age' = [age EXCEPT ![s] = 0]

(* List: every buffer that is there, newest first. *)
List == Pick(order, {s \in Sessions : file[s]["pend"] # NoFile})

-----------------------------------------------------------------------------
(* The sessions.  Hooks of one session run one after the other unless      *)
(* they may overlap.                                                       *)

(* A Stop hook may be installed, or fire, twice. *)
Fires(s) == IF s \in Twice THEN 2 ELSE 1

MayHook(s) == s \in Overlapping \/ Running(s) = {}

(* The user submits a prompt: beforeSubmitPrompt or UserPromptSubmit for   *)
(* the inline agents, a transcript record for Claude Code.                 *)
Submit(s) ==
    /\ asked[s] < MaxExchanges[s] /\ MayHook(s)
    /\ asked' = [asked EXCEPT ![s] = @ + 1]
    /\ stops' = [stops EXCEPT ![s] = 0]
    /\ IF s \in Inline
       THEN /\ \E h \in Hooks : /\ hk[h].at = "free"
                                /\ hk' = [hk EXCEPT ![h] = [Free EXCEPT !.at = "stash", !.s = s, !.ex = asked[s] + 1]]
            /\ UNCHANGED script
       ELSE /\ \E x \in Shapes : script' = [script EXCEPT ![s] = [shape |-> x, landed |-> 0]]
            /\ UNCHANGED hk
    /\ UNCHANGED <<prompt, file, order, age, ghosts>>

(* The turn ends and the Stop hook starts, with last_assistant_message or  *)
(* not.  Only the final text may still be missing in the transcript.       *)
Stop(s) ==
    /\ stops[s] < Fires(s) /\ MayHook(s)
    /\ stops' = [stops EXCEPT ![s] = @ + 1]
    /\ \E h \in Hooks, final \in IF s \in Inline THEN {TRUE} ELSE BOOLEAN :
          /\ hk[h].at = "free"
          /\ hk' = [hk EXCEPT ![h] = [Free EXCEPT !.at = IF s \in Inline THEN "take" ELSE "transcript",
                                                  !.s = s, !.ex = asked[s], !.final = final]]
    /\ script' = IF s \in Inline THEN script ELSE [script EXCEPT ![s].landed = Len(script[s].shape) - 1]
    /\ UNCHANGED <<asked, prompt, file, order, age, ghosts>>

(* The final text lands; only a hook that still reads can tell. *)
Land(s) ==
    /\ \E h \in Running(s) : hk[h].at = "transcript"
    /\ script[s].landed = Len(script[s].shape) - 1
    /\ script' = [script EXCEPT ![s].landed = @ + 1]
    /\ UNCHANGED <<asked, stops, prompt, file, order, age, hk, ghosts>>

(* Hours pass, or weeks. *)
TimePasses ==
    /\ \E s \in Sessions : file[s]["pend"] # NoFile /\ age[s] < 2
    /\ age' = [s \in Sessions |-> IF age[s] < 2 THEN age[s] + 1 ELSE 2]
    /\ UNCHANGED <<asked, stops, script, prompt, file, order, hk, ghosts>>

-----------------------------------------------------------------------------
(* pending.go *)

(* WritePendingPrompt: os.WriteFile empties the file, then fills it.       *)
StashOpen(h) ==
    /\ hk[h].at = "stash"
    /\ prompt' = [prompt EXCEPT ![hk[h].s] = 0]
    /\ To(h, "stashed")
    /\ UNCHANGED <<asked, stops, script, file, order, age, ghosts>>

StashWrite(h) ==
    /\ hk[h].at = "stashed"
    /\ prompt' = [prompt EXCEPT ![hk[h].s] = hk[h].ex]
    /\ Ends(h)
    /\ UNCHANGED <<asked, stops, script, file, order, age, ghosts>>

(* TakePendingPrompt *)
TakeRead(h) ==
    /\ hk[h].at = "take"
    /\ hk' = [hk EXCEPT ![h].at = IF prompt[hk[h].s] = -1 THEN "records" ELSE "taken",
                        ![h].user = IF prompt[hk[h].s] = -1 THEN 0 ELSE prompt[hk[h].s]]
    /\ UNCHANGED <<asked, stops, script, prompt, file, order, age, ghosts>>

(* Variant: the prompt file is left where it is. *)
TakenKept(s) == prompt

Taken(s) == [prompt EXCEPT ![s] = -1]

TakeRemove(h) ==
    /\ hk[h].at = "taken"
    /\ prompt' = Taken(hk[h].s)
    /\ To(h, "records")
    /\ UNCHANGED <<asked, stops, script, file, order, age, ghosts>>

-----------------------------------------------------------------------------
(* transcript.go *)

(* readLatestTurn, from the last prompt on: the texts, by their position,  *)
(* and whether the last record is text.                                    *)
TextsOf(shape, n) == Pick([k \in 1 .. n |-> k], {k \in DOMAIN shape : shape[k] = "text"})
Texts(s) == TextsOf(script[s].shape, script[s].landed)

(* Variant: any text means that the reply is there. *)
SettledOnceText(s) == Texts(s) # << >>

Settled(s) == script[s].landed > 0 /\ script[s].shape[script[s].landed] = "text"

(* Variant: the final text is appended whatever the transcript holds.      *)
CompletedTwice(s, final) == IF final THEN Append(Texts(s), Len(script[s].shape)) ELSE Texts(s)

(* exchange: final is appended unless the transcript ends with it.         *)
Completed(s, final) ==
    IF final /\ ~(Texts(s) # << >> /\ SQ!Last(Texts(s)) = Len(script[s].shape))
    THEN Append(Texts(s), Len(script[s].shape)) ELSE Texts(s)

(* Variant: the head is kept. *)
OldestParts(ps) == IF Len(ps) <= MaxParts THEN ps ELSE SubSeq(ps, 1, MaxParts)

(* joinNewest *)
NewestParts(ps) == IF Len(ps) <= MaxParts THEN ps ELSE SubSeq(ps, Len(ps) - MaxParts + 1, Len(ps))

(* LatestTurn returns once the reply is known or the wait is over.         *)
LatestTurn(h) ==
    /\ hk[h].at = "transcript"
    /\ LET s == hk[h].s  known == hk[h].final \/ Settled(s)
       IN  \E late \in BOOLEAN :
             /\ known \/ late
             /\ hk' = [hk EXCEPT ![h].at = "records", ![h].user = asked[s], ![h].late = ~known,
                                 ![h].parts = NewestParts(Completed(s, hk[h].final))]
    /\ UNCHANGED <<asked, stops, script, prompt, file, order, age, ghosts>>

-----------------------------------------------------------------------------
(* buffer.go *)

(* Variant: the index is the number of lines. *)
NextByCount(recs) == Len(recs) + 1

(* nextTurnIndex *)
NextTurn(recs) == FS!Max({0} \cup {recs[i][1] : i \in DOMAIN recs}) + 1

Record(h) == <<NextTurn(hk[h].seen), hk[h].user, hk[h].ex>>

(* Variant: the cap is never looked at. *)
NeverFull(recs) == FALSE

IsFull(recs) == Len(recs) >= MaxTurns

(* AppendTurn reads the buffer; the reading decides what it writes, and    *)
(* the index, one past the highest, is new in what it read.                *)
Records(h) ==
    /\ hk[h].at = "records"
    /\ LET recs == Recs(file[hk[h].s]["pend"])
       IN  hk' = [hk EXCEPT ![h].at = IF IsFull(recs) THEN "create" ELSE "append", ![h].seen = recs,
                               ![h].parts = << >>, ![h].final = FALSE, ![h].late = FALSE]
    /\ UNCHANGED <<asked, stops, script, prompt, file, order, age, ghosts>>

(* Variant: the file is written anew from what was read.                   *)
LineRewritten(h) == Append(hk[h].seen, Record(h))

(* appendLine: O_APPEND adds to what is there now. *)
LineAdded(h) == Append(Recs(file[hk[h].s]["pend"]), Record(h))

Kept(h) == kept' = [kept EXCEPT ![hk[h].s] = @ \cup {<<hk[h].user, hk[h].ex>>}]
ToPrune(h) == hk' = [hk EXCEPT ![h] = [Free EXCEPT !.at = "prune", !.s = hk[h].s]]

AppendLine(h) ==
    /\ hk[h].at = "append"
    /\ file' = [file EXCEPT ![hk[h].s]["pend"] = LineAdded(h)]
    /\ Touch(hk[h].s) /\ Kept(h) /\ ToPrune(h)
    /\ UNCHANGED <<asked, stops, script, prompt, gone>>

(* rewriteWithOverflow: os.Create, the lines, os.Rename.                   *)
CreateTmp(h) ==
    /\ hk[h].at = "create"
    /\ file' = [file EXCEPT ![hk[h].s]["tmp"] = << >>]
    /\ hk' = [hk EXCEPT ![h].at = "flush", ![h].into = "tmp"]
    /\ UNCHANGED <<asked, stops, script, prompt, order, age, ghosts>>

(* Variant: the marker goes where the turns were cut off at the end.       *)
ShortenedLate(h) == SubSeq(hk[h].seen, DropOldest + 1, Len(hk[h].seen)) \o <<Marker, Record(h)>>

Shortened(h) == <<Marker>> \o SubSeq(hk[h].seen, DropOldest + 1, Len(hk[h].seen)) \o <<Record(h)>>

FlushTmp(h) ==
    /\ hk[h].at = "flush"
    /\ file' = IF hk[h].into = "none" THEN file
               ELSE [file EXCEPT ![hk[h].s][hk[h].into] = Overlay(@, Shortened(h))]
    /\ To(h, "rename")
    /\ UNCHANGED <<asked, stops, script, prompt, order, age, ghosts>>

Dropped(h) == Turns(SubSeq(hk[h].seen, 1, DropOldest))

(* A temporary file that another process has renamed is an error.          *)
RenameTmp(h) ==
    /\ hk[h].at = "rename"
    /\ LET s == hk[h].s
       IN  IF file[s]["tmp"] = NoFile
           THEN Ends(h) /\ UNCHANGED <<file, order, age, ghosts>>
           ELSE /\ file' = Moved(s, "tmp", "pend")
                /\ hk' = [Follow(s, "tmp", "pend") EXCEPT ![h] = [Free EXCEPT !.at = "prune", !.s = s]]
                /\ Touch(s) /\ Kept(h)
                /\ gone' = [gone EXCEPT ![s] = @ \cup Dropped(h)]
    /\ UNCHANGED <<asked, stops, script, prompt>>

(* Variant: six hours are enough. *)
StaleSoon(s) == age[s] > 0

TooOld(s) == age[s] = 2

(* PruneOlderThan, after every append: each buffer of the list is looked   *)
(* at and then removed.                                                    *)
PruneStat(h) ==
    /\ hk[h].at = "prune"
    /\ LET old == {s \in SQ!ToSet(List) : TooOld(s)}
       IN  IF old = {} THEN Ends(h)
           ELSE \E s \in old : hk' = [hk EXCEPT ![h].at = "remove", ![h].victim = s]
    /\ UNCHANGED <<asked, stops, script, prompt, file, order, age, ghosts>>

PruneRemove(h) ==
    /\ hk[h].at = "remove"
    /\ LET s == hk[h].victim
       IN  /\ file' = [file EXCEPT ![s]["pend"] = NoFile]
           /\ hk' = [Follow(s, "gone", "pend") EXCEPT ![h].at = "prune", ![h].victim = "none"]
           /\ gone' = [gone EXCEPT ![s] = @ \cup IF age[s] = 2 THEN Turns(file[s]["pend"]) ELSE {}]
    /\ UNCHANGED <<asked, stops, script, prompt, order, age, kept>>

(* The agent stops waiting for its hook and kills it, or the hook fails.   *)
Kill(h) ==
    /\ hk[h].at # "free" /\ hk[h].s \in Killed
    /\ Ends(h)
    /\ UNCHANGED <<asked, stops, script, prompt, file, order, age, ghosts>>

HookStep(h) == \/ StashOpen(h) \/ StashWrite(h) \/ TakeRead(h) \/ TakeRemove(h) \/ LatestTurn(h)
               \/ Records(h) \/ AppendLine(h) \/ CreateTmp(h) \/ FlushTmp(h) \/ RenameTmp(h)
               \/ PruneStat(h) \/ PruneRemove(h) \/ Kill(h)

CaptureStep == (\E s \in Sessions : Submit(s) \/ Stop(s) \/ Land(s)) \/ TimePasses \/ (\E h \in Hooks : HookStep(h))

-----------------------------------------------------------------------------
(* What the properties remember *)

Writing   == {"append", "create", "flush", "rename"}
Rewriting == Writing \ {"append"}

(* Two processes between their reading of a buffer and their writing, one  *)
(* of which replaces the file; or a removal of a buffer written since.     *)
Clashing(s) == \/ \E g, h \in Running(s) : g # h /\ hk[g].at \in Rewriting /\ hk[h].at \in Writing
               \/ \E g \in Running(s), h \in Hooks : hk[g].at \in Writing /\ hk[h].at = "remove" /\ hk[h].victim = s

Remember ==
    /\ mixed' = mixed \cup {s \in Sessions : \/ Cardinality(Running(s)') > 1
                                           \/ (asked'[s] # asked[s] /\ Running(s) # {})}
    /\ clash' = clash \cup {s \in Sessions : Clashing(s)'}
=============================================================================
