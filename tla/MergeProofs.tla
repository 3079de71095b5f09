---------------------------- MODULE MergeProofs ----------------------------
(***************************************************************************)
(* The safety of MergeHandshake, for every number of versions, edits and   *)
(* faults.                                                                 *)
(***************************************************************************)
EXTENDS MergeHandshake, FiniteSetTheorems, TLAPS

-----------------------------------------------------------------------------
(* The types, but for the bound on the number of versions.                 *)
Pcs    == {"none", "resolve", "fresh", "content", "list", "note", "send"}
Whys   == {"", "unknown", "stale", "brief"}
Texts  == SUBSET Change
Files  == [kind : {"valid", "invalid", "absent"}, text : Texts]
Sides  == [sha : Nat, content : BOOLEAN]
Calls  == [pc : Pcs, why : Whys, sha : Nat, text : Texts]
Tasks  == [todo : {"none", "merge", "merged"}, text : Texts]
Spents == [peers : 0 .. MaxPeerPushes, edits : 0 .. MaxEdits, faults : 0 .. MaxFaults]

TypeInv ==
    /\ hist \in Seq(Texts)
    /\ file \in Files /\ side \in Sides /\ call \in Calls /\ task \in Tasks /\ spent \in Spents
    /\ base \in Nat /\ reg \in Nat /\ shown \subseteq Nat

(* Every sha that is kept anywhere is a version of the page. *)
ShasExist ==
    /\ base <= Tip /\ side.sha <= Tip /\ call.sha <= Tip
    /\ \A v \in shown : v <= Tip

BriefInv == TypeInv /\ ShasExist /\ BriefNotAhead

(* The calls that the steps make of a call. *)
LEMMA NoCallFields ==
    NoCall \in Calls /\ NoCall.sha = 0 /\ NoCall.pc = "none" /\ NoCall.why = "" /\ NoCall.text = {}
BY DEF NoCall, Calls, Pcs, Whys, Texts

LEMMA CallFields ==
    \A c \in Calls : c.pc \in Pcs /\ c.why \in Whys /\ c.sha \in Nat /\ c.text \in Texts
BY DEF Calls

At(c, p)      == [c EXCEPT !.pc = p]
For(c, w)     == [c EXCEPT !.pc = "fresh", !.why = w]
About(c, p, s) == [c EXCEPT !.pc = p, !.sha = s]
Briefed(c, s) == [c EXCEPT !.pc = "content", !.why = "brief", !.sha = s]
Sending(c, t) == [c EXCEPT !.pc = "send", !.text = t]

LEMMA AtCall ==
    \A c \in Calls, p \in Pcs :
        /\ At(c, p) \in Calls /\ At(c, p).pc = p /\ At(c, p).why = c.why
        /\ At(c, p).sha = c.sha /\ At(c, p).text = c.text
BY DEF At, Calls

LEMMA ForCall ==
    \A c \in Calls, w \in Whys :
        /\ For(c, w) \in Calls /\ For(c, w).pc = "fresh" /\ For(c, w).why = w
        /\ For(c, w).sha = c.sha /\ For(c, w).text = c.text
BY DEF For, Calls, Pcs

LEMMA AboutCall ==
    \A c \in Calls, p \in Pcs, s \in Nat :
        /\ About(c, p, s) \in Calls /\ About(c, p, s).pc = p /\ About(c, p, s).why = c.why
        /\ About(c, p, s).sha = s /\ About(c, p, s).text = c.text
BY DEF About, Calls

LEMMA BriefedCall ==
    \A c \in Calls, s \in Nat :
        /\ Briefed(c, s) \in Calls /\ Briefed(c, s).pc = "content" /\ Briefed(c, s).why = "brief"
        /\ Briefed(c, s).sha = s /\ Briefed(c, s).text = c.text
BY DEF Briefed, Calls, Pcs, Whys

LEMMA SendingCall ==
    \A c \in Calls, t \in Texts :
        /\ Sending(c, t) \in Calls /\ Sending(c, t).pc = "send" /\ Sending(c, t).why = c.why
        /\ Sending(c, t).sha = c.sha /\ Sending(c, t).text = t
BY DEF Sending, Calls, Pcs

LEMMA Words ==
    /\ "none" \in Pcs /\ "resolve" \in Pcs /\ "fresh" \in Pcs /\ "content" \in Pcs
    /\ "list" \in Pcs /\ "note" \in Pcs /\ "send" \in Pcs
    /\ "" \in Whys /\ "unknown" \in Whys /\ "stale" \in Whys /\ "brief" \in Whys
BY DEF Pcs, Whys

LEMMA OtherFields ==
    /\ NoSide \in Sides /\ NoSide.sha = 0
    /\ \A s \in Sides : s.sha \in Nat
    /\ \A s \in Nat, c \in BOOLEAN : [sha |-> s, content |-> c] \in Sides
    /\ NoTask \in Tasks /\ NoTask.todo = "none"
    /\ \A t \in Tasks : t.text \in Texts
    /\ \A f \in Files : f.kind \in {"valid", "invalid", "absent"} /\ f.text \in Texts
BY DEF NoSide, Sides, NoTask, Tasks, Files, Texts

(* A fault is counted, and nothing else of spent moves. *)
LEMMA FaultCounted ==
    ASSUME spent \in Spents, NEW kind, Fault(kind)
    PROVE  spent' \in Spents /\ spent'.peers = spent.peers /\ spent'.edits = spent.edits
BY BoundsAssumption DEF Spents, Fault

(* The history only grows, and the versions there are stay as they are. *)
LEMMA Appended ==
    ASSUME hist \in Seq(Texts), NEW t \in Texts, hist' = Append(hist, t)
    PROVE  /\ hist' \in Seq(Texts) /\ Tip' = Tip + 1 /\ hist'[Tip'] = t
           /\ \A v \in 1 .. Tip : hist'[v] = hist[v]
BY DEF Tip

-----------------------------------------------------------------------------
LEMMA BriefInvInit == Init => BriefInv
<1> SUFFICES ASSUME Init PROVE BriefInv
  OBVIOUS
<1>1. file \in Files /\ spent \in Spents
  BY BoundsAssumption DEF Init, Files, Spents, Texts
<1>2. hist \in Seq(Texts) /\ Tip = 0
  BY DEF Init, Tip
<1>3. side \in Sides /\ call \in Calls /\ task \in Tasks /\ side.sha = 0 /\ call.sha = 0
  BY NoCallFields, OtherFields DEF Init
<1>4. base = 0 /\ reg = 0 /\ shown = {}
  BY DEF Init
<1>. QED BY <1>1, <1>2, <1>3, <1>4 DEF BriefInv, TypeInv, ShasExist, BriefNotAhead

(* A step that shows nothing and leaves the history and the disk alone is  *)
(* sound when the call it makes is about a version there is.               *)
LEMMA NothingShown ==
    ASSUME BriefInv, UNCHANGED <<hist, disk, shown>>, call' \in Calls, call'.sha \in 0 .. Tip,
           reg' \in {0, reg}, task' \in Tasks, spent' \in Spents
    PROVE  BriefInv'
<1>1. TypeInv'
  BY DEF BriefInv, TypeInv, disk
<1>2. ShasExist' /\ BriefNotAhead'
  BY DEF BriefInv, TypeInv, ShasExist, BriefNotAhead, disk, Tip
<1>. QED BY <1>1, <1>2 DEF BriefInv

(* What the invariant says of a call. *)
LEMMA CallGiven ==
    ASSUME BriefInv
    PROVE  /\ Tip \in Nat /\ 0 \in 0 .. Tip /\ Tip \in 0 .. Tip
           /\ call \in Calls /\ call.sha \in Nat /\ call.sha \in 0 .. Tip
           /\ task \in Tasks /\ spent \in Spents /\ hist \in Seq(Texts) /\ file \in Files /\ file.text \in Texts
<1>1. hist \in Seq(Texts) /\ call \in Calls /\ task \in Tasks /\ spent \in Spents /\ file \in Files
  BY DEF BriefInv, TypeInv
<1>2. Tip \in Nat
  BY <1>1 DEF Tip
<1>3. call.sha \in Nat /\ file.text \in Texts
  BY <1>1, CallFields, OtherFields
<1>4. call.sha <= Tip
  BY DEF BriefInv, ShasExist
<1>. QED BY <1>1, <1>2, <1>3, <1>4

(* The state of a page, as the listing alone has it: without a file, with *)
(* one that does not parse, with one that does.                            *)
LEMMA ListedAbsent ==
    ASSUME file.kind = "absent"
    PROVE  ListedState = IF base # 0 THEN "deleted_local" ELSE IF Tip # 0 THEN "incoming_new" ELSE NoEntry
<1>1. LocalSide = LocalAbsent
  BY DEF LocalSide
<1>2. ListedState = AbsentState(BaseSide, OnlineRemote(Tip))
  BY <1>1 DEF ListedState, StateWith, Classify, LocalAbsent
<1>3. HasBase(BaseSide) <=> base # 0
  BY DEF BaseSide, HasBase, BaseNone, BaseValid
<1>4. OnlineRemote(Tip).kind = "present" <=> Tip # 0
  BY DEF OnlineRemote, RemoteAbsent, RemotePresent
<1>. QED BY <1>2, <1>3, <1>4 DEF AbsentState

LEMMA ListedInvalid ==
    ASSUME file.kind = "invalid"
    PROVE  ListedState = "invalid"
<1>1. LocalSide = LocalInvalid
  BY DEF LocalSide
<1>. QED BY <1>1 DEF ListedState, StateWith, Classify, LocalInvalid

LEMMA ListedValid ==
    ASSUME file.kind = "valid"
    PROVE  ListedState = IF Tip = 0 THEN "new"
                         ELSE IF base = 0 THEN "conflict"
                         ELSE IF Tip = base THEN (IF file.text = hist[base] THEN "unchanged" ELSE "modified")
                         ELSE IF file.text = hist[base] THEN "incoming" ELSE "conflict"
<1>1. LocalSide = LocalValid(file.text)
  BY DEF LocalSide
<1>2. ListedState = ValidState(LocalValid(file.text), BaseSide, OnlineRemote(Tip))
  BY <1>1 DEF ListedState, StateWith, Classify, LocalValid
<1>3. CASE base = 0
  BY <1>2, <1>3 DEF ValidState, BaseSide, BaseNone, OnlineRemote, RemoteAbsent, RemotePresent
<1>4. CASE base # 0
  <2>1. BaseSide = BaseValid(base, hist[base])
    BY <1>4 DEF BaseSide
  <2>2. ListedState = VerifiedState(LocalValid(file.text), BaseValid(base, hist[base]), OnlineRemote(Tip))
    BY <1>2, <2>1 DEF ValidState, BaseValid
  <2>3. HasBase(BaseValid(base, hist[base]))
    BY DEF HasBase, BaseValid
  <2>4. CASE Tip = 0
    BY <2>2, <2>4 DEF VerifiedState, OnlineRemote, RemoteAbsent
  <2>5. CASE Tip # 0
    <3>1. OnlineRemote(Tip) = RemotePresent(Tip)
      BY <2>5 DEF OnlineRemote
    <3>2. RemoteMoved(BaseValid(base, hist[base]), RemotePresent(Tip)) <=> Tip # base
      BY <2>3 DEF RemoteMoved, RemotePresent, BaseValid
    <3>3. RemotePresent(Tip).kind # "absent" /\ LocalValid(file.text).hash = file.text /\ BaseValid(base, hist[base]).hash = hist[base]
      BY DEF RemotePresent, LocalValid, BaseValid
    <3>. QED BY <1>4, <2>2, <2>5, <3>1, <3>2, <3>3 DEF VerifiedState
  <2>. QED BY <2>4, <2>5
<1>. QED BY <1>3, <1>4
(* What the engines know of a page in a state they act on. *)
LEMMA OnlineFacts ==
    ASSUME BriefInv
    PROVE  /\ OnlineState = "modified" => file.kind = "valid" /\ base # 0 /\ Tip = base /\ file.text # hist[base]
           /\ OnlineState = "new" => file.kind = "valid" /\ Tip = 0
           /\ OnlineState = "conflict" => file.kind = "valid" /\ Tip # 0
           /\ OnlineState \in {"incoming", "incoming_new"} => Tip # 0
<1>1. file.kind \in {"absent", "invalid", "valid"}
  BY CallGiven, OtherFields
<1>2. OnlineState = ListedState \/ (ListedState = "modified" /\ OnlineState = "conflict")
  BY DEF OnlineState, ApplySidecar
<1>3. CASE file.kind = "absent"
  BY <1>2, <1>3, ListedAbsent DEF NoEntry
<1>4. CASE file.kind = "invalid"
  BY <1>2, <1>4, ListedInvalid
<1>5. CASE file.kind = "valid"
  BY <1>2, <1>5, ListedValid
<1>. QED BY <1>1, <1>3, <1>4, <1>5

LEMMA CallPushBrief ==
    ASSUME BriefInv, NEW resolved \in BOOLEAN, CallPush(resolved)
    PROVE  BriefInv'
<1>1. side.sha \in 0 .. Tip /\ side.sha \in Nat /\ 0 \in 0 .. Tip
  BY OtherFields DEF BriefInv, ShasExist, TypeInv, Tip
<1>2. Plan(resolved) \in Calls /\ Plan(resolved).sha \in 0 .. Tip
  <2>1. CASE Plan(resolved) = At(NoCall, "resolve")
    <3>1. At(NoCall, "resolve") \in Calls /\ At(NoCall, "resolve").sha = 0
      BY NoCallFields, AtCall, Words
    <3>. QED BY <1>1, <2>1, <3>1
  <2>2. CASE Plan(resolved) = At(NoCall, "list")
    <3>1. At(NoCall, "list") \in Calls /\ At(NoCall, "list").sha = 0
      BY NoCallFields, AtCall, Words
    <3>. QED BY <1>1, <2>2, <3>1
  <2>3. CASE Plan(resolved) = Briefed(NoCall, side.sha)
    <3>1. NoCall \in Calls
      BY NoCallFields
    <3>2. Plan(resolved) \in Calls /\ Plan(resolved).sha = side.sha
      BY <1>1, <2>3, <3>1, BriefedCall
    <3>. QED BY <1>1, <3>2
  <2>4. CASE resolved = TRUE
    BY <2>1, <2>4 DEF Plan, At, Briefed
  <2>5. CASE resolved = FALSE /\ OfflineState = "conflict"
    BY <2>3, <2>5 DEF Plan, At, Briefed
  <2>6. CASE resolved = FALSE /\ OfflineState # "conflict"
    BY <2>2, <2>6 DEF Plan, At, Briefed
  <2>. QED BY <2>4, <2>5, <2>6
<1>3. call' = Plan(resolved) /\ UNCHANGED <<hist, disk, reg, task, shown>>
  BY DEF CallPush, Goto
<1>4. spent' \in Spents
  BY FaultCounted DEF CallPush, BriefInv, TypeInv
<1>5. task' \in Tasks
  BY <1>3 DEF BriefInv, TypeInv
<1>. QED BY <1>2, <1>3, <1>4, <1>5, NothingShown

LEMMA ResolveBrief ==
    ASSUME BriefInv, Resolve
    PROVE  BriefInv'
<1>1. call \in Calls /\ call.sha \in 0 .. Tip /\ 0 \in 0 .. Tip /\ task \in Tasks /\ spent \in Spents /\ Tip \in Nat
  BY CallGiven
<1>2. hist' = hist /\ task' = task /\ shown' = shown
  BY DEF Resolve, Goto, Error
<1>3. spent' \in Spents
  BY <1>1, FaultCounted DEF Resolve
<1>4. call' = NoCall \/ call' = At(call, "list") \/ \E w \in Whys : call' = For(call, w)
  BY DEF Resolve, Goto, Error, Whys, At, For
<1>5. call' \in Calls /\ call'.sha \in 0 .. Tip
  <2>1. CASE call' = NoCall
    BY <1>1, <2>1, NoCallFields
  <2>2. CASE call' = At(call, "list")
    BY <1>1, <2>2, AtCall, Words
  <2>3. ASSUME NEW w \in Whys, call' = For(call, w)
        PROVE  call' \in Calls /\ call'.sha \in 0 .. Tip
    BY <1>1, <2>3, ForCall, Words
  <2>. QED BY <1>4, <2>1, <2>2, <2>3
<1>6. CASE UNCHANGED <<disk, reg>>
  BY <1>1, <1>2, <1>3, <1>5, <1>6, NothingShown
<1>7. CASE base' = Tip /\ side' = NoSide /\ reg' = 0 /\ file' = file
  <2>1. TypeInv'
    BY <1>1, <1>2, <1>3, <1>5, <1>7, OtherFields DEF BriefInv, TypeInv
  <2>2. ShasExist' /\ BriefNotAhead'
    BY <1>1, <1>2, <1>5, <1>7, OtherFields DEF BriefInv, ShasExist, BriefNotAhead, Tip
  <2>. QED BY <2>1, <2>2 DEF BriefInv
<1>8. UNCHANGED <<disk, reg>> \/ (base' = Tip /\ side' = NoSide /\ reg' = 0 /\ file' = file)
  BY DEF Resolve, Goto, Error
<1>. QED BY <1>6, <1>7, <1>8

LEMMA FreshBrief ==
    ASSUME BriefInv, Fresh
    PROVE  BriefInv'
<1>1. call \in Calls /\ call.sha \in 0 .. Tip /\ 0 \in 0 .. Tip /\ task \in Tasks /\ spent \in Spents
      /\ Tip \in Nat /\ Tip \in 0 .. Tip
  BY CallGiven
<1>2. UNCHANGED <<hist, disk, reg, task, shown>>
  BY DEF Fresh, Goto, Error
<1>3. spent' \in Spents
  BY <1>1, FaultCounted DEF Fresh
<1>4. call' = NoCall \/ call' = At(call, "list") \/ call' = About(call, "content", Tip)
  BY DEF Fresh, Goto, Error, At, About
<1>5. call' \in Calls /\ call'.sha \in 0 .. Tip
  <2>1. CASE call' = NoCall
    BY <1>1, <2>1, NoCallFields
  <2>2. CASE call' = At(call, "list")
    BY <1>1, <2>2, AtCall, Words
  <2>3. CASE call' = About(call, "content", Tip)
    <3>1. About(call, "content", Tip) \in Calls /\ About(call, "content", Tip).sha = Tip
      <4>1. call \in Calls /\ Tip \in Nat /\ "content" \in Pcs
        BY <1>1, Words
      <4>. QED BY <4>1, AboutCall, Zenon
    <3>. QED BY <1>1, <2>3, <3>1
  <2>. QED BY <1>4, <2>1, <2>2, <2>3
<1>. QED BY <1>1, <1>2, <1>3, <1>5, NothingShown

(* A brief registers no version newer than the one it shows. *)
LEMMA BriefMade ==
    ASSUME BriefInv, NEW v \in 0 .. Tip, v # 0 => v >= call.sha, Brief(v), UNCHANGED <<hist, disk>>, spent' \in Spents
    PROVE  BriefInv'
<1>1. call' \in Calls /\ call'.sha = 0
  <2>1. call' = NoCall
    BY DEF Brief
  <2>. QED BY <2>1, NoCallFields
<1>2. Tip \in Nat /\ call.sha \in Nat /\ hist \in Seq(Texts) /\ file.text \in Texts
  BY CallGiven
<1>3. task' \in Tasks
  <2>1. CASE v = 0
    BY <2>1, OtherFields DEF Brief
  <2>2. CASE v # 0
    <3>1. hist[v] \in Texts
      BY <1>2, <2>2 DEF Tip
    <3>. QED BY <1>2, <2>2, <3>1 DEF Brief, Tasks, Texts
  <2>. QED BY <2>1, <2>2
<1>4. shown' = shown \cup ({v} \ {0}) /\ reg' = IF v = 0 THEN reg ELSE call.sha
  BY DEF Brief, Registered
<1>5. TypeInv'
  BY <1>1, <1>2, <1>3, <1>4 DEF BriefInv, TypeInv, disk
<1>6. ShasExist' /\ BriefNotAhead'
  BY <1>1, <1>2, <1>4 DEF BriefInv, TypeInv, ShasExist, BriefNotAhead, disk, Tip
<1>. QED BY <1>5, <1>6 DEF BriefInv

LEMMA ContentBrief ==
    ASSUME BriefInv, Content
    PROVE  BriefInv'
<1>1. call \in Calls /\ call.sha \in 0 .. Tip /\ task \in Tasks /\ spent \in Spents /\ Tip \in Nat /\ Tip \in 0 .. Tip
  BY CallGiven
<1>2. spent' \in Spents /\ UNCHANGED <<hist, disk>>
  BY <1>1, FaultCounted DEF Content
<1>3. CASE Goto(At(call, "list"))
  <2>1. call' \in Calls /\ call'.sha \in 0 .. Tip
    BY <1>1, <1>3, AtCall, Words DEF Goto
  <2>. QED BY <1>1, <1>2, <1>3, <2>1, NothingShown DEF Goto
<1>4. CASE Brief(call.sha)
  BY <1>1, <1>2, <1>4, BriefMade
<1>5. CASE Brief(0)
  BY <1>1, <1>2, <1>5, BriefMade
<1>6. CASE Brief(Tip)
  BY <1>1, <1>2, <1>6, BriefMade
<1>. QED BY <1>3, <1>4, <1>5, <1>6 DEF Content, At

LEMMA ListBrief ==
    ASSUME BriefInv, List
    PROVE  BriefInv'
<1>1. call \in Calls /\ call.sha \in 0 .. Tip /\ 0 \in 0 .. Tip /\ task \in Tasks /\ spent \in Spents
      /\ Tip \in Nat /\ Tip \in 0 .. Tip /\ file.text \in Texts
  BY CallGiven
<1>2. side.sha \in Nat /\ side.sha \in 0 .. Tip
  BY <1>1, OtherFields DEF BriefInv, TypeInv, ShasExist
<1>3. spent' \in Spents
  BY <1>1, FaultCounted DEF List
<1>4. UNCHANGED <<hist, disk, reg, shown>> /\ task' \in {task, NoTask}
  BY DEF List, Answer, Goto, Error
<1>5. call' \in {NoCall, ListCall}
  BY DEF List, Answer, Goto, Error
<1>6. \/ ListCall = Sending(call, file.text)
      \/ ListCall = About(call, "note", Tip)
      \/ ListCall = Briefed(call, side.sha)
      \/ ListCall = NoCall
  BY DEF ListCall, Sending, About, Briefed
<1>7. call' \in Calls /\ call'.sha \in 0 .. Tip
  <2>1. CASE call' = NoCall
    BY <1>1, <2>1, NoCallFields
  <2>2. CASE call' = Sending(call, file.text)
    BY <1>1, <2>2, SendingCall, Words
  <2>3. CASE call' = About(call, "note", Tip)
    <3>1. About(call, "note", Tip) \in Calls /\ About(call, "note", Tip).sha = Tip
      <4>1. call \in Calls /\ Tip \in Nat /\ "note" \in Pcs
        BY <1>1, Words
      <4>. QED BY <4>1, AboutCall, Zenon
    <3>. QED BY <1>1, <2>3, <3>1
  <2>4. CASE call' = Briefed(call, side.sha)
    <3>1. call' \in Calls /\ call'.sha = side.sha
      BY <1>1, <1>2, <2>4, BriefedCall
    <3>. QED BY <1>2, <3>1
  <2>. QED BY <1>5, <1>6, <2>1, <2>2, <2>3, <2>4
<1>8. task' \in Tasks
  BY <1>1, <1>4, OtherFields
<1>. QED BY <1>3, <1>4, <1>7, <1>8, NothingShown

(* The sidecar that a conflict leaves is about a version there is. *)
LEMMA RecordedBrief ==
    ASSUME BriefInv, NEW s \in 0 .. Tip, NEW c \in BOOLEAN, Recorded(s, c), spent' \in Spents
    PROVE  BriefInv'
<1>1. call \in Calls /\ Tip \in Nat
  BY CallGiven
<1>2. call' = Briefed(call, s)
  BY DEF Recorded, Goto, Briefed
<1>3. call' \in Calls /\ call'.sha = s
  <2>1. s \in Nat
    BY <1>1
  <2>. QED BY <1>1, <1>2, <2>1, BriefedCall
<1>4. side' = [sha |-> s, content |-> c]
  BY DEF Recorded
<1>5. side' \in Sides /\ side'.sha = s
  BY <1>1, <1>4, OtherFields
<1>6. UNCHANGED <<hist, file, base, reg, task, shown>>
  BY DEF Recorded, Goto
<1>7. TypeInv'
  BY <1>3, <1>5, <1>6 DEF BriefInv, TypeInv
<1>8. ShasExist' /\ BriefNotAhead'
  BY <1>1, <1>3, <1>5, <1>6 DEF BriefInv, ShasExist, BriefNotAhead, Tip
<1>. QED BY <1>7, <1>8 DEF BriefInv

LEMMA NoteConflictBrief ==
    ASSUME BriefInv, NoteConflict
    PROVE  BriefInv'
<1>1. Tip \in 0 .. Tip /\ call.sha \in 0 .. Tip /\ spent \in Spents
  BY CallGiven
<1>2. spent' \in Spents
  BY <1>1, FaultCounted DEF NoteConflict
<1>. QED BY <1>1, <1>2, RecordedBrief DEF NoteConflict

(* A step that adds a version to the history. *)
LEMMA VersionAdded ==
    ASSUME BriefInv, NEW t \in Texts, hist' = Append(hist, t), UNCHANGED <<file, reg, shown>>,
           \/ UNCHANGED <<base, side>>
           \/ base' = Len(Append(hist, t)) /\ side' = NoSide,
           call' \in {call, NoCall}, task' \in Tasks, spent' \in Spents
    PROVE  BriefInv'
<1>1. call \in Calls /\ call.sha \in 0 .. Tip /\ 0 \in 0 .. Tip /\ Tip \in Nat /\ hist \in Seq(Texts)
  BY CallGiven
<1>2. call' \in Calls /\ call'.sha \in 0 .. Tip
  BY <1>1, NoCallFields
<1>3. hist' \in Seq(Texts) /\ Tip' = Tip + 1
  BY <1>1, Appended
<1>4. side' \in Sides /\ side'.sha \in {0, side.sha} /\ base' \in {base, Tip'}
  BY OtherFields DEF BriefInv, TypeInv, Tip
<1>5. TypeInv'
  BY <1>1, <1>2, <1>3, <1>4 DEF BriefInv, TypeInv
<1>6. \A v \in shown : v \in Nat /\ v <= Tip
  BY DEF BriefInv, TypeInv, ShasExist
<1>7. base \in Nat /\ base <= Tip /\ side.sha \in Nat /\ side.sha <= Tip
  BY OtherFields DEF BriefInv, TypeInv, ShasExist
<1>8. ShasExist'
  BY <1>1, <1>2, <1>3, <1>4, <1>6, <1>7 DEF ShasExist
<1>9. BriefNotAhead'
  BY DEF BriefInv, BriefNotAhead
<1>. QED BY <1>5, <1>8, <1>9 DEF BriefInv

LEMMA SendBrief ==
    ASSUME BriefInv, Send
    PROVE  BriefInv'
<1>1. call \in Calls /\ call.text \in Texts /\ task \in Tasks /\ spent \in Spents /\ Tip \in 0 .. Tip /\ 0 \in 0 .. Tip
  BY CallGiven, CallFields
<1>2. CASE Recorded(Tip, TRUE) /\ UNCHANGED spent
  BY <1>1, <1>2, RecordedBrief
<1>3. CASE hist' = Written /\ base' = Len(Written) /\ side' = NoSide /\ Answer /\ UNCHANGED <<file, spent>>
  BY <1>1, <1>3, VersionAdded, OtherFields DEF Written, Answer
<1>4. CASE Fault("network") /\ Error /\ UNCHANGED disk /\ hist' = Written
  <2>1. spent' \in Spents
    BY <1>1, <1>4, FaultCounted
  <2>2. UNCHANGED <<reg, shown, task>> /\ call' = NoCall
    BY <1>4 DEF Error, Goto
  <2>. QED BY <1>1, <1>4, <2>1, <2>2, VersionAdded DEF Written, disk
<1>5. CASE Fault("network") /\ Error /\ UNCHANGED disk /\ hist' = hist
  <2>1. spent' \in Spents
    BY <1>1, <1>5, FaultCounted
  <2>2. UNCHANGED <<reg, shown, task>> /\ call' = NoCall
    BY <1>5 DEF Error, Goto
  <2>. QED BY <1>1, <1>5, <2>1, <2>2, NothingShown, NoCallFields
<1>. QED BY <1>2, <1>3, <1>4, <1>5 DEF Send

(* A pull leaves a file, a base and a sidecar of versions there are. *)
LEMMA PulledBrief ==
    ASSUME BriefInv, OnlineState \in {"incoming", "incoming_new", "conflict"}, Pulled, UNCHANGED <<hist, reg, shown, spent>>,
           call' \in Calls, call'.sha \in 0 .. Tip, task' \in Tasks
    PROVE  BriefInv'
<1>1. Tip \in Nat /\ hist \in Seq(Texts) /\ file \in Files
  BY CallGiven
<1>2. hist[Tip] \in Texts
  <2>1. Tip # 0
    BY OnlineFacts
  <2>. QED BY <1>1, <2>1 DEF Tip
<1>3. base \in Nat /\ base <= Tip /\ side \in Sides /\ side.sha <= Tip
  BY DEF BriefInv, TypeInv, ShasExist
<1>4. file' \in Files /\ base' \in Nat /\ base' <= Tip /\ side' \in Sides /\ side'.sha <= Tip
  <2>1. [kind |-> "valid", text |-> hist[Tip]] \in Files
    BY <1>2 DEF Files
  <2>2. [sha |-> Tip, content |-> TRUE] \in Sides /\ [sha |-> Tip, content |-> TRUE].sha = Tip
    BY <1>1 DEF Sides
  <2>3. CASE BringsIn \/ Adopts
    BY <1>1, <2>1, <2>3, OtherFields DEF Pulled
  <2>4. CASE ~(BringsIn \/ Adopts)
    <3>1. file' = file /\ base' = base /\ side' \in {side, [sha |-> Tip, content |-> TRUE]}
      BY <2>4 DEF Pulled
    <3>2. CASE side' = side
      BY <1>1, <1>3, <3>1, <3>2
    <3>3. CASE side' = [sha |-> Tip, content |-> TRUE]
      <4>1. side' \in Sides /\ side'.sha = Tip
        BY <2>2, <3>3
      <4>. QED BY <1>1, <1>3, <3>1, <4>1
    <3>. QED BY <3>1, <3>2, <3>3
  <2>. QED BY <2>3, <2>4
<1>5. TypeInv'
  BY <1>4 DEF BriefInv, TypeInv
<1>6. ShasExist' /\ BriefNotAhead'
  BY <1>1, <1>4 DEF BriefInv, ShasExist, BriefNotAhead, Tip
<1>. QED BY <1>5, <1>6 DEF BriefInv

LEMMA CallPullBrief ==
    ASSUME BriefInv, CallPull
    PROVE  BriefInv'
<1>1. Tip \in Nat /\ Tip \in 0 .. Tip /\ 0 \in 0 .. Tip /\ task \in Tasks
  BY CallGiven
<1>2. OnlineState \in {"incoming", "incoming_new", "conflict"} /\ Pulled /\ UNCHANGED <<hist, spent, reg, shown>>
  BY DEF CallPull, Goto, Answer
<1>3. CASE Goto(Briefed(NoCall, Tip))
  <2>1. Briefed(NoCall, Tip) \in Calls /\ Briefed(NoCall, Tip).sha = Tip
    BY <1>1, NoCallFields, BriefedCall
  <2>. QED BY <1>1, <1>2, <1>3, <2>1, PulledBrief DEF Goto
<1>4. CASE Answer
  BY <1>1, <1>2, <1>4, NoCallFields, OtherFields, PulledBrief DEF Answer
<1>. QED BY <1>3, <1>4 DEF CallPull, Briefed

LEMMA OtherPullBrief ==
    ASSUME BriefInv, OtherPull
    PROVE  BriefInv'
<1>1. Tip \in Nat /\ call \in Calls /\ call.sha \in 0 .. Tip /\ task \in Tasks
  BY CallGiven
<1>. QED BY <1>1, PulledBrief DEF OtherPull

(* A step that only writes the file, or counts something. *)
LEMMA FileWritten ==
    ASSUME BriefInv, UNCHANGED <<hist, base, side, reg, call, shown>>, file' \in Files, task' \in Tasks, spent' \in Spents
    PROVE  BriefInv'
<1>1. TypeInv'
  BY DEF BriefInv, TypeInv
<1>2. ShasExist' /\ BriefNotAhead'
  BY DEF BriefInv, ShasExist, BriefNotAhead, Tip
<1>. QED BY <1>1, <1>2 DEF BriefInv

LEMMA WritePageBrief ==
    ASSUME BriefInv, WritePage
    PROVE  BriefInv'
<1>1. task \in Tasks /\ spent \in Spents
  BY CallGiven
<1>2. file' \in Files
  BY <1>1 DEF WritePage, Files, Tasks
<1>3. task' \in Tasks
  BY <1>1 DEF WritePage, Tasks
<1>. QED BY <1>1, <1>2, <1>3, FileWritten DEF WritePage

LEMMA EditBrief ==
    ASSUME BriefInv, Edit
    PROVE  BriefInv'
<1>1. task \in Tasks /\ spent \in Spents /\ file.text \in Texts
  BY CallGiven
<1>2. spent.edits + 1 \in 1 .. MaxEdits /\ spent' \in Spents
  BY <1>1, BoundsAssumption DEF Edit, Spents
<1>3. file' \in Files
  <2>1. EditChange(spent.edits + 1) \in Change
    BY <1>2 DEF Change
  <2>2. file' = [kind |-> "valid", text |-> file.text \cup {EditChange(spent.edits + 1)}]
    BY DEF Edit
  <2>. QED BY <1>1, <2>1, <2>2 DEF Files, Texts
<1>. QED BY <1>1, <1>2, <1>3, FileWritten DEF Edit

LEMMA SpoilMendBrief ==
    ASSUME BriefInv, Spoil \/ Mend
    PROVE  BriefInv'
<1>1. task \in Tasks /\ spent \in Spents /\ file \in Files
  BY CallGiven
<1>2. spent' \in Spents
  BY <1>1, FaultCounted DEF Spoil, Mend
<1>3. file' \in Files
  BY <1>1 DEF Spoil, Mend, Files, Texts
<1>. QED BY <1>1, <1>2, <1>3, FileWritten DEF Spoil, Mend

LEMMA PeerPushBrief ==
    ASSUME BriefInv, PeerPush
    PROVE  BriefInv'
<1>1. task \in Tasks /\ spent \in Spents /\ hist \in Seq(Texts) /\ Tip \in Nat
  BY CallGiven
<1>2. spent.peers + 1 \in 1 .. MaxPeerPushes /\ spent' \in Spents
  BY SMTT(30), <1>1, BoundsAssumption DEF PeerPush, Spents
<1>3. PeerChange(spent.peers + 1) \in Change
  BY <1>2 DEF Change
<1>4. (IF Tip = 0 THEN {} ELSE hist[Tip]) \in Texts
  BY <1>1 DEF Tip, Texts
<1>5. (IF Tip = 0 THEN {} ELSE hist[Tip]) \cup {PeerChange(spent.peers + 1)} \in Texts
  BY <1>3, <1>4 DEF Texts
<1>. QED BY <1>1, <1>2, <1>5, VersionAdded DEF PeerPush, disk

LEMMA RestartBrief ==
    ASSUME BriefInv, Restart
    PROVE  BriefInv'
<1>1. task \in Tasks /\ spent \in Spents /\ 0 \in 0 .. Tip
  BY CallGiven
<1>2. spent' \in Spents
  BY <1>1, FaultCounted DEF Restart
<1>. QED BY <1>1, <1>2, NothingShown, NoCallFields DEF Restart

LEMMA BriefInvStep == BriefInv /\ [Next]_vars => BriefInv'
<1> SUFFICES ASSUME BriefInv, [Next]_vars PROVE BriefInv'
  OBVIOUS
<1>1. ASSUME NEW resolved \in BOOLEAN, CallPush(resolved) PROVE BriefInv'
  BY <1>1, CallPushBrief
<1>2. CASE Step
  BY <1>2, ResolveBrief, FreshBrief, ContentBrief, ListBrief, NoteConflictBrief, SendBrief DEF Step
<1>3. CASE CallPull \/ OtherPull \/ WritePage
  BY <1>3, CallPullBrief, OtherPullBrief, WritePageBrief
<1>4. CASE Edit \/ Spoil \/ Mend \/ PeerPush \/ Restart
  BY <1>4, EditBrief, SpoilMendBrief, PeerPushBrief, RestartBrief
<1>5. CASE UNCHANGED vars
  BY <1>5 DEF vars, BriefInv, TypeInv, ShasExist, BriefNotAhead, Tip
<1>. QED BY <1>1, <1>2, <1>3, <1>4, <1>5 DEF Next

(* The sha that a brief registers is never newer than what the agent was   *)
(* shown, whatever fails, restarts or runs beside it.                      *)
THEOREM NeverAhead == Spec => []BriefNotAhead
<1>1. BriefInv => BriefNotAhead
  BY DEF BriefInv
<1>. QED BY <1>1, BriefInvInit, BriefInvStep, PTL DEF Spec

-----------------------------------------------------------------------------
(* What holds beside that as long as a call is not cut short and no other  *)
(* process pulls under a merge.                                            *)
Alone == {"beside", "killed"} \cap Faults = {}

(* What the texts may contain so far: the changes that teammates have made *)
(* and those the user may make.                                            *)
Born == {PeerChange(n) : n \in 1 .. spent.peers} \cup {EditChange(n) : n \in 1 .. MaxEdits}

BornOnly ==
    /\ \A i \in 1 .. Tip : hist[i] \subseteq Born
    /\ file.text \subseteq Born /\ call.text \subseteq Born /\ task.text \subseteq Born

(* Every version keeps the changes of those before it and adds one.        *)
Grown    == \A i, j \in 1 .. Tip : i <= j => hist[i] \subseteq hist[j]
EachAdds == \A i \in 1 .. Tip : i <= Cardinality(hist[i])

(* The file holds what its base holds, and the merge that was written.     *)
FileCovers ==
    file.kind # "absent" =>
        /\ file.text # {}
        /\ base # 0 => hist[base] \subseteq file.text
        /\ task.todo = "merged" => task.text \subseteq file.text
        /\ base # 0 \/ spent.edits > 0 \/ shown # {}

(* The text under way adds a change to its base, and the file still has it. *)
SendCovers ==
    call.pc = "send" =>
        /\ call.text # {}
        /\ base # 0 => hist[base] \subseteq call.text /\ hist[base] # call.text
        /\ file.kind # "absent" => call.text \subseteq file.text
        /\ base # 0 \/ spent.edits > 0 \/ shown # {}

(* A merge holds a version the agent was shown that no sha kept here is    *)
(* newer than, except while the next brief is on its way.                  *)
TaskCovers ==
    task.todo # "none" =>
        \E v \in shown : /\ v >= base /\ v >= reg
                         /\ call.pc # "content" => v >= side.sha
                         /\ hist[v] \subseteq task.text

(* A resolve is about a merge that was asked for, or about nothing; and    *)
(* what a brief is about is no older than the sidecar, nor that the base.  *)
CallKnows ==
    /\ 0 \notin shown
    /\ side.sha # 0 => side.sha >= base
    /\ call.pc = "resolve" => task.todo = "merged" \/ (reg = 0 /\ side.sha = 0)
    /\ call.why = "unknown" => reg = 0 /\ side.sha = 0
    /\ call.pc \in {"content", "note"} /\ call.sha # 0 => call.sha >= base
    /\ call.pc = "content" => call.sha >= side.sha

MergeInv == BornOnly /\ Grown /\ EachAdds /\ FileCovers /\ SendCovers /\ TaskCovers /\ CallKnows

(* The bounds of the shas, for the steps below.                            *)
LEMMA ShaGiven ==
    ASSUME BriefInv
    PROVE  /\ Tip \in Nat /\ hist \in Seq(Texts)
           /\ base \in Nat /\ base <= Tip /\ side.sha \in Nat /\ side.sha <= Tip
           /\ call.sha \in Nat /\ call.sha <= Tip /\ reg \in Nat
           /\ \A v \in shown : v \in Nat /\ v <= Tip
<1>1. Tip \in Nat /\ hist \in Seq(Texts) /\ call.sha \in Nat
  BY CallGiven
<1>2. base \in Nat /\ side.sha \in Nat /\ reg \in Nat
  BY OtherFields DEF BriefInv, TypeInv
<1>3. base <= Tip /\ side.sha <= Tip /\ call.sha <= Tip
  BY DEF BriefInv, ShasExist
<1>4. \A v \in shown : v \in Nat /\ v <= Tip
  BY DEF BriefInv, ShasExist, TypeInv
<1>. QED BY <1>1, <1>2, <1>3, <1>4

LEMMA ChangesFinite ==
    IsFiniteSet(Change) /\ Cardinality(Change) <= MaxPeerPushes + MaxEdits
<1> DEFINE P == {PeerChange(n) : n \in 1 .. MaxPeerPushes}
           E == {EditChange(n) : n \in 1 .. MaxEdits}
<1>1. IsFiniteSet(1 .. MaxPeerPushes) /\ Cardinality(1 .. MaxPeerPushes) = MaxPeerPushes
  BY FS_Interval, BoundsAssumption
<1>2. IsFiniteSet(1 .. MaxEdits) /\ Cardinality(1 .. MaxEdits) = MaxEdits
  BY FS_Interval, BoundsAssumption
<1>3. IsFiniteSet(P) /\ Cardinality(P) <= MaxPeerPushes
  <2>1. [n \in 1 .. MaxPeerPushes |-> PeerChange(n)] \in Surjection(1 .. MaxPeerPushes, P)
    BY DEF Surjection
  <2>. QED BY <1>1, <2>1, FS_Surjection DEF ExistsSurjection
<1>4. IsFiniteSet(E) /\ Cardinality(E) <= MaxEdits
  <2>1. [n \in 1 .. MaxEdits |-> EditChange(n)] \in Surjection(1 .. MaxEdits, E)
    BY DEF Surjection
  <2>. QED BY <1>2, <2>1, FS_Surjection DEF ExistsSurjection
<1>5. IsFiniteSet(P \cup E) /\ Cardinality(P \cup E) = Cardinality(P) + Cardinality(E) - Cardinality(P \cap E)
  BY <1>3, <1>4, FS_Union
<1>6. Cardinality(P) \in Nat /\ Cardinality(E) \in Nat /\ IsFiniteSet(P \cap E) /\ Cardinality(P \cap E) \in Nat
  BY <1>3, <1>4, FS_CardinalityType, FS_Subset
<1>. QED BY <1>3, <1>4, <1>5, <1>6, BoundsAssumption DEF Change

(* The number of versions is bounded by the changes there can be.          *)
LEMMA VersionsBounded ==
    ASSUME BriefInv, EachAdds
    PROVE  Tip \in Version
<1>1. Tip \in Nat /\ hist \in Seq(Texts)
  BY ShaGiven
<1>2. CASE Tip = 0
  BY <1>2, BoundsAssumption DEF Version
<1>3. CASE Tip # 0
  <2>1. Tip \in 1 .. Tip
    BY <1>1, <1>3
  <2>2. hist[Tip] \in SUBSET Change /\ Tip <= Cardinality(hist[Tip])
    BY <1>1, <2>1 DEF EachAdds, Texts, Tip
  <2>3. Cardinality(hist[Tip]) <= Cardinality(Change) /\ IsFiniteSet(hist[Tip])
    BY <2>2, ChangesFinite, FS_Subset
  <2>4. Cardinality(hist[Tip]) \in Nat /\ Cardinality(Change) \in Nat
    BY <2>3, ChangesFinite, FS_CardinalityType
  <2>. QED BY <1>1, <2>2, <2>3, <2>4, ChangesFinite, BoundsAssumption DEF Version
<1>. QED BY <1>2, <1>3

(* A version that keeps the one before and adds to it. *)
LEMMA VersionGrows ==
    ASSUME BriefInv, Grown, EachAdds, NEW t \in Texts, hist' = Append(hist, t),
           Tip = 0 => t # {}, Tip # 0 => hist[Tip] \subseteq t /\ hist[Tip] # t
    PROVE  Grown' /\ EachAdds'
<1>1. Tip \in Nat /\ hist \in Seq(Texts)
  BY ShaGiven
<1>2. /\ hist' \in Seq(Texts) /\ Tip' = Tip + 1 /\ hist'[Tip'] = t
      /\ \A v \in 1 .. Tip : hist'[v] = hist[v]
  BY <1>1, Appended
<1>3. \A i \in 1 .. Tip : hist[i] \subseteq t
  BY <1>1 DEF Grown
<1>4. Grown'
  <2> SUFFICES ASSUME NEW i \in 1 .. Tip', NEW j \in 1 .. Tip', i <= j
               PROVE  hist'[i] \subseteq hist'[j]
    BY DEF Grown
  <2>1. CASE j = Tip' /\ i = Tip'
    BY <2>1
  <2>2. CASE j = Tip' /\ i # Tip'
    <3>1. i \in 1 .. Tip
      BY <1>1, <1>2, <2>2
    <3>. QED BY <1>2, <1>3, <2>2, <3>1
  <2>3. CASE j # Tip'
    <3>1. i \in 1 .. Tip /\ j \in 1 .. Tip
      BY <1>1, <1>2, <2>3
    <3>. QED BY <1>2, <3>1 DEF Grown
  <2>. QED BY <2>1, <2>2, <2>3
<1>5. IsFiniteSet(t) /\ Cardinality(t) \in Nat
  BY ChangesFinite, FS_Subset, FS_CardinalityType DEF Texts
<1>6. Tip + 1 <= Cardinality(t)
  <2>1. CASE Tip = 0
    BY <1>5, <2>1, FS_EmptySet
  <2>2. CASE Tip # 0
    <3>1. Tip \in 1 .. Tip
      BY <1>1, <2>2
    <3>2. Tip <= Cardinality(hist[Tip])
      BY <3>1 DEF EachAdds
    <3>3. hist[Tip] \in SUBSET t /\ hist[Tip] # t
      BY <2>2
    <3>4. IsFiniteSet(hist[Tip]) /\ Cardinality(hist[Tip]) <= Cardinality(t) /\ Cardinality(hist[Tip]) # Cardinality(t)
      BY <1>5, <3>3, FS_Subset
    <3>5. Cardinality(hist[Tip]) \in Nat
      BY <3>4, FS_CardinalityType
    <3>. QED BY <1>1, <1>5, <3>2, <3>4, <3>5
  <2>. QED BY <2>1, <2>2
<1>7. EachAdds'
  <2> SUFFICES ASSUME NEW i \in 1 .. Tip'
               PROVE  i <= Cardinality(hist'[i])
    BY DEF EachAdds
  <2>1. CASE i = Tip'
    BY <1>1, <1>2, <1>6, <2>1
  <2>2. CASE i # Tip'
    <3>1. i \in 1 .. Tip
      BY <1>1, <1>2, <2>2
    <3>. QED BY <1>2, <3>1 DEF EachAdds
  <2>. QED BY <2>1, <2>2
<1>. QED BY <1>4, <1>7

(* No version is empty. *)
LEMMA VersionFull ==
    ASSUME BriefInv, EachAdds, NEW i \in 1 .. Tip
    PROVE  hist[i] # {}
<1>1. i <= Cardinality(hist[i]) /\ Tip \in Nat
  BY ShaGiven DEF EachAdds
<1>. QED BY <1>1, FS_EmptySet

(* What holds of the versions still does when no version is added. *)
LEMMA VersionsKept ==
    ASSUME MergeInv, hist' = hist
    PROVE  Grown' /\ EachAdds'
BY DEF MergeInv, Grown, EachAdds, Tip

LEMMA BornKept ==
    ASSUME MergeInv, hist' = hist, spent'.peers = spent.peers,
           file'.text \subseteq Born, call'.text \subseteq Born, task'.text \subseteq Born
    PROVE  BornOnly'
<1>1. Born' = Born
  BY DEF Born
<1>. QED BY <1>1 DEF MergeInv, BornOnly, Tip

(* A step of a call that leaves the versions, the disk and what was shown  *)
(* alone: only what its call knows is left to see.                         *)
LEMMA CallMoves ==
    ASSUME BriefInv, MergeInv, UNCHANGED <<hist, disk, shown>>,
           spent'.peers = spent.peers, spent'.edits = spent.edits,
           reg' \in {0, reg}, task' \in {task, NoTask}, call'.text \subseteq Born,
           call.pc = "content" /\ call'.pc # "content" => side.sha = 0
    PROVE  BornOnly' /\ Grown' /\ EachAdds' /\ FileCovers' /\ TaskCovers'
<1>1. NoTask.todo = "none" /\ NoTask.text = {}
  BY DEF NoTask
<1>2. file' = file /\ base' = base /\ side' = side
  BY DEF disk
<1>3. task'.todo \in {task.todo, "none"} /\ task'.text \subseteq Born
  BY <1>1 DEF MergeInv, BornOnly
<1>4. BornOnly' /\ Grown' /\ EachAdds'
  <2>1. file'.text \subseteq Born
    BY <1>2 DEF MergeInv, BornOnly
  <2>. QED BY <1>3, <2>1, BornKept, VersionsKept
<1>5. FileCovers'
  <2>1. FileCovers
    BY DEF MergeInv
  <2>2. task'.todo = "merged" => task' = task
    BY <1>1
  <2>. QED BY <1>2, <2>1, <2>2 DEF FileCovers
<1>6. TaskCovers'
  <2> SUFFICES ASSUME task'.todo # "none"
               PROVE  TaskCovers'
    BY DEF TaskCovers
  <2>1. task' = task
    BY <1>1
  <2>2. PICK v \in shown : v >= base /\ v >= reg /\ (call.pc # "content" => v >= side.sha) /\ hist[v] \subseteq task.text
    BY <2>1 DEF MergeInv, TaskCovers
  <2>3. v \in Nat
    BY ShaGiven
  <2>4. v >= reg'
    BY <2>2, <2>3
  <2>5. call'.pc # "content" => v >= side.sha
    BY <2>2, <2>3
  <2>. QED BY <1>2, <2>1, <2>2, <2>4, <2>5 DEF TaskCovers
<1>. QED BY <1>4, <1>5, <1>6

(* The calls that the steps make of the present one. *)
LEMMA CallSteps ==
    ASSUME BriefInv
    PROVE  /\ At(call, "list").pc = "list" /\ At(call, "list").why = call.why /\ At(call, "list").text = call.text
           /\ For(call, "stale").pc = "fresh" /\ For(call, "stale").why = "stale" /\ For(call, "stale").text = call.text
           /\ \A p \in {"content", "note"} : LET d == About(call, p, Tip)
                                         IN  d.pc = p /\ d.why = call.why /\ d.sha = Tip /\ d.text = call.text
           /\ \A v \in Nat : LET d == Briefed(call, v)
                            IN  d.pc = "content" /\ d.why = "brief" /\ d.sha = v /\ d.text = call.text
<1>1. call \in Calls /\ Tip \in Nat
  BY CallGiven
<1>2. At(call, "list").pc = "list" /\ At(call, "list").why = call.why /\ At(call, "list").text = call.text
  BY <1>1, AtCall, Words
<1>3. For(call, "stale").pc = "fresh" /\ For(call, "stale").why = "stale" /\ For(call, "stale").text = call.text
  BY <1>1, ForCall, Words
<1>4. ASSUME NEW p \in {"content", "note"}
      PROVE  /\ About(call, p, Tip).pc = p /\ About(call, p, Tip).why = call.why
             /\ About(call, p, Tip).sha = Tip /\ About(call, p, Tip).text = call.text
  <2>1. p \in Pcs
    BY Words
  <2>. QED BY <1>1, <2>1, AboutCall
<1>5. ASSUME NEW v \in Nat
      PROVE  /\ Briefed(call, v).pc = "content" /\ Briefed(call, v).why = "brief"
             /\ Briefed(call, v).sha = v /\ Briefed(call, v).text = call.text
  BY <1>1, BriefedCall
<1>. QED BY <1>2, <1>3, <1>4, <1>5

(* Steps that are over or listing carry nothing to check. *)
LEMMA CallRests ==
    ASSUME CallKnows, UNCHANGED <<disk, shown>>, reg' \in {0, reg}, task' \in {task, NoTask},
           call'.pc \in {"none", "list", "fresh"}, call'.why \in {"", call.why, "stale"}
    PROVE  CallKnows' /\ SendCovers'
<1>1. CallKnows'
  BY DEF CallKnows, disk
<1>. QED BY <1>1 DEF SendCovers

LEMMA PlanFields ==
    /\ At(NoCall, "resolve").pc = "resolve" /\ At(NoCall, "resolve").why = "" /\ At(NoCall, "resolve").text = {}
    /\ At(NoCall, "list").pc = "list" /\ At(NoCall, "list").why = "" /\ At(NoCall, "list").text = {}
    /\ \A s \in Nat : LET d == Briefed(NoCall, s)
                     IN  d.pc = "content" /\ d.why = "brief" /\ d.text = {} /\ d.sha = s
<1>1. ASSUME NEW p \in Pcs
      PROVE  At(NoCall, p).pc = p /\ At(NoCall, p).why = "" /\ At(NoCall, p).text = {}
  BY NoCallFields, AtCall
<1>2. ASSUME NEW s \in Nat
      PROVE  /\ Briefed(NoCall, s).pc = "content" /\ Briefed(NoCall, s).why = "brief"
             /\ Briefed(NoCall, s).text = {} /\ Briefed(NoCall, s).sha = s
  BY NoCallFields, BriefedCall
<1>. QED BY <1>1, <1>2, Words

LEMMA CallPushMerge ==
    ASSUME BriefInv, MergeInv, NEW resolved \in BOOLEAN, CallPush(resolved)
    PROVE  MergeInv'
<1>1. /\ call = NoCall /\ call' = Plan(resolved) /\ UNCHANGED <<hist, disk, reg, task, shown>>
      /\ resolved => task.todo = "merged" \/ (task = NoTask /\ reg = 0 /\ side = NoSide)
  BY DEF CallPush, Goto
<1>2. spent'.peers = spent.peers /\ spent'.edits = spent.edits
  BY CallGiven, FaultCounted DEF CallPush
<1>3. side.sha \in Nat /\ base \in Nat /\ NoSide.sha = 0
  BY ShaGiven, OtherFields
<1>4. CASE call' = At(NoCall, "resolve") /\ resolved = TRUE
  <2>1. call'.pc = "resolve" /\ call'.why = "" /\ call'.text = {} /\ call.pc = "none"
    BY <1>1, <1>4, NoCallFields, PlanFields
  <2>2. CallKnows'
    BY <1>1, <1>3, <1>4, <2>1 DEF MergeInv, CallKnows, disk
  <2>3. SendCovers'
    BY <2>1 DEF SendCovers
  <2>. QED BY <1>1, <1>2, <2>1, <2>2, <2>3, CallMoves DEF MergeInv
<1>5. CASE call' = At(NoCall, "list")
  <2>1. call'.pc = "list" /\ call'.why = "" /\ call'.text = {} /\ call.pc = "none"
    BY <1>1, <1>5, NoCallFields, PlanFields
  <2>2. CallKnows' /\ SendCovers'
    BY <1>1, <2>1, CallRests DEF MergeInv
  <2>. QED BY <1>1, <1>2, <2>1, <2>2, CallMoves DEF MergeInv
<1>6. CASE call' = Briefed(NoCall, side.sha)
  <2>1. call'.pc = "content" /\ call'.why = "brief" /\ call'.text = {} /\ call'.sha = side.sha /\ call.pc = "none"
    BY ZenonT(60), <1>1, <1>3, <1>6, NoCallFields, PlanFields
  <2>2. CallKnows'
    BY <1>1, <1>3, <2>1 DEF MergeInv, CallKnows, disk
  <2>3. SendCovers'
    BY <2>1 DEF SendCovers
  <2>. QED BY <1>1, <1>2, <2>1, <2>2, <2>3, CallMoves DEF MergeInv
<1>7. CASE resolved = TRUE
  <2>1. Plan(resolved) = At(NoCall, "resolve")
    BY <1>7 DEF Plan, At
  <2>. QED BY <1>1, <1>4, <1>7, <2>1
<1>8. CASE resolved = FALSE
  <2>1. Plan(resolved) = At(NoCall, "list") \/ Plan(resolved) = Briefed(NoCall, side.sha)
    BY <1>8 DEF Plan, At, Briefed
  <2>. QED BY <1>1, <1>5, <1>6, <2>1
<1>. QED BY <1>7, <1>8

(* A resolve re-bases a page only onto the version that the merge in the   *)
(* working file was made of.                                               *)
LEMMA ResolvedMerge ==
    ASSUME BriefInv, MergeInv, call.pc = "resolve", Known # 0, Tip = Known, file.kind = "valid"
    PROVE  /\ task.todo = "merged" /\ Tip \in shown
           /\ hist[Tip] \subseteq task.text /\ hist[Tip] \subseteq file.text
<1>1. task.todo = "merged"
  BY DEF MergeInv, CallKnows, Known
<1>2. PICK v \in shown : v >= base /\ v >= reg /\ v >= side.sha /\ hist[v] \subseteq task.text
  BY <1>1 DEF MergeInv, TaskCovers
<1>3. v = Tip
  BY <1>2, ShaGiven DEF Known
<1>4. task.text \subseteq file.text
  BY <1>1 DEF MergeInv, FileCovers
<1>. QED BY <1>1, <1>2, <1>3, <1>4

LEMMA ResolveMerge ==
    ASSUME BriefInv, MergeInv, Resolve
    PROVE  MergeInv'
<1>1. call.pc = "resolve" /\ call \in Calls /\ call.text \subseteq Born
  BY CallGiven DEF Resolve, MergeInv, BornOnly
<1>2. hist' = hist /\ task' = task /\ shown' = shown /\ file' = file
  BY DEF Resolve, Goto, Error, disk
<1>3. spent'.peers = spent.peers /\ spent'.edits = spent.edits
  BY CallGiven, FaultCounted DEF Resolve
<1>4. CASE call' = For(call, "unknown") /\ Known = 0 /\ UNCHANGED <<disk, reg>>
  <2>1. call'.pc = "fresh" /\ call'.why = "unknown" /\ call'.text = call.text
    BY <1>1, <1>4, ForCall, Words
  <2>2. reg = 0 /\ side.sha = 0
    BY <1>4 DEF Known
  <2>3. CallKnows'
    BY <1>2, <1>4, <2>1, <2>2 DEF MergeInv, CallKnows, disk
  <2>4. SendCovers'
    BY <2>1 DEF SendCovers
  <2>. QED BY <1>1, <1>2, <1>3, <1>4, <2>1, <2>3, <2>4, CallMoves DEF MergeInv
<1>5. CASE (call' = For(call, "stale") \/ call' = At(call, "list") \/ call' = NoCall) /\ UNCHANGED <<disk, reg>>
  <2>1. call'.pc \in {"none", "list", "fresh"} /\ call'.why \in {"", call.why, "stale"}
    BY <1>1, <1>5, CallSteps, NoCallFields
  <2>2. call'.text \subseteq Born
    BY <1>1, <1>5, CallSteps, NoCallFields
  <2>3. CallKnows' /\ SendCovers'
    BY <1>2, <1>5, <2>1, CallRests DEF MergeInv
  <2>. QED BY <1>1, <1>2, <1>3, <1>5, <2>1, <2>2, <2>3, CallMoves DEF MergeInv
<1>6. CASE /\ call' = At(call, "list") /\ Known # 0 /\ ~Moved /\ OnlineState = "conflict"
           /\ base' = Tip /\ side' = NoSide /\ reg' = 0
  <2>1. call'.pc = "list" /\ call'.why = call.why /\ call'.text = call.text
    BY <1>1, <1>6, AtCall, Words
  <2>2. side'.sha = 0
    BY <1>6, OtherFields
  <2>3. /\ task.todo = "merged" /\ Tip \in shown
        /\ hist[Tip] \subseteq task.text /\ hist[Tip] \subseteq file.text
    BY <1>1, <1>6, OnlineFacts, ResolvedMerge DEF Moved
  <2>4. BornOnly' /\ Grown' /\ EachAdds'
    BY <1>1, <1>2, <1>3, <2>1, BornKept, VersionsKept DEF MergeInv, BornOnly
  <2>5. FileCovers'
    BY <1>2, <1>3, <1>6, <2>3 DEF MergeInv, FileCovers
  <2>6. Tip \in Nat
    BY ShaGiven
  <2>7. TaskCovers'
    BY <1>2, <1>6, <2>2, <2>3, <2>6 DEF TaskCovers
  <2>8. CallKnows' /\ SendCovers'
    BY <1>2, <1>6, <2>1, <2>2 DEF MergeInv, CallKnows, SendCovers
  <2>. QED BY <2>4, <2>5, <2>7, <2>8 DEF MergeInv
<1>. QED BY <1>4, <1>5, <1>6 DEF Resolve, Goto, Error, For, At, KeepsOurs

LEMMA FreshMerge ==
    ASSUME BriefInv, MergeInv, Fresh
    PROVE  MergeInv'
<1>1. call.pc = "fresh" /\ call \in Calls /\ call.text \subseteq Born
  BY CallGiven DEF Fresh, MergeInv, BornOnly
<1>2. UNCHANGED <<hist, disk, reg, task, shown>>
  BY DEF Fresh, Goto, Error
<1>3. spent'.peers = spent.peers /\ spent'.edits = spent.edits
  BY CallGiven, FaultCounted DEF Fresh
<1>4. CASE call' = NoCall \/ call' = At(call, "list")
  <2>1. call'.pc \in {"none", "list", "fresh"} /\ call'.why \in {"", call.why, "stale"}
    BY <1>1, <1>4, CallSteps, NoCallFields
  <2>2. call'.text \subseteq Born
    BY <1>1, <1>4, CallSteps, NoCallFields
  <2>3. CallKnows' /\ SendCovers'
    BY <1>2, <2>1, CallRests DEF MergeInv
  <2>. QED BY <1>1, <1>2, <1>3, <2>2, <2>3, CallMoves DEF MergeInv
<1>5. CASE call' = About(call, "content", Tip)
  <2>1. Tip \in Nat /\ base <= Tip /\ side.sha <= Tip /\ base \in Nat /\ side.sha \in Nat
    BY ShaGiven
  <2>2. call'.pc = "content" /\ call'.why = call.why /\ call'.sha = Tip /\ call'.text = call.text
    BY <1>1, <1>5, CallSteps
  <2>3. CallKnows'
    BY <1>1, <1>2, <2>1, <2>2 DEF MergeInv, CallKnows, disk
  <2>4. SendCovers'
    BY <2>2 DEF SendCovers
  <2>. QED BY <1>1, <1>2, <1>3, <2>2, <2>3, <2>4, CallMoves DEF MergeInv
<1>. QED BY <1>4, <1>5 DEF Fresh, Goto, Error, At, About

(* A brief asks for a merge of the file with a version that nothing kept   *)
(* here is newer than.                                                     *)
LEMMA BriefMerge ==
    ASSUME BriefInv, MergeInv, NEW v \in 0 .. Tip, v # 0 => v >= call.sha /\ v >= base /\ v >= side.sha,
           Brief(v), UNCHANGED <<hist, disk>>, spent'.peers = spent.peers, spent'.edits = spent.edits
    PROVE  MergeInv'
<1>1. /\ call' = NoCall /\ shown' = shown \cup ({v} \ {0})
      /\ reg' = IF v = 0 THEN reg ELSE call.sha
      /\ task' = IF v = 0 THEN NoTask ELSE [todo |-> "merge", text |-> file.text \cup hist[v]]
      /\ file' = file /\ base' = base /\ side' = side
  BY DEF Brief, Registered, disk
<1>2. call'.pc = "none" /\ call'.why = "" /\ call'.text = {}
  BY <1>1, NoCallFields
<1>3. Tip \in Nat /\ v \in Nat
  BY ShaGiven
<1>4. v = 0 => task'.todo = "none" /\ task'.text = {}
  BY <1>1 DEF NoTask
<1>5. v # 0 => task'.todo = "merge" /\ task'.text = file.text \cup hist[v]
  BY <1>1
<1>6. BornOnly' /\ Grown' /\ EachAdds'
  <2>1. v # 0 => hist[v] \subseteq Born
    BY <1>3 DEF MergeInv, BornOnly
  <2>2. file'.text \subseteq Born /\ task'.text \subseteq Born /\ call'.text \subseteq Born
    BY <1>1, <1>2, <1>4, <1>5, <2>1 DEF MergeInv, BornOnly
  <2>. QED BY <2>2, BornKept, VersionsKept
<1>7. FileCovers'
  <2>1. task'.todo # "merged" /\ (shown # {} => shown' # {})
    BY <1>1, <1>4, <1>5
  <2>. QED BY <1>1, <2>1 DEF MergeInv, FileCovers
<1>8. TaskCovers'
  <2>1. CASE v = 0
    BY <1>4, <2>1 DEF TaskCovers
  <2>2. CASE v # 0
    <3>1. v \in shown' /\ v >= base' /\ v >= reg' /\ v >= side'.sha
      BY <1>1, <2>2
    <3>2. hist'[v] \subseteq task'.text
      BY <1>5, <2>2
    <3>. QED BY <3>1, <3>2 DEF TaskCovers
  <2>. QED BY <2>1, <2>2
<1>9. CallKnows' /\ SendCovers'
  BY <1>1, <1>2 DEF MergeInv, CallKnows, SendCovers
<1>. QED BY <1>6, <1>7, <1>8, <1>9 DEF MergeInv

LEMMA ContentMerge ==
    ASSUME BriefInv, MergeInv, Content
    PROVE  MergeInv'
<1>1. call.pc = "content" /\ UNCHANGED <<hist, disk>>
  BY DEF Content
<1>2. spent'.peers = spent.peers /\ spent'.edits = spent.edits
  BY CallGiven, FaultCounted DEF Content
<1>3. /\ Tip \in Nat /\ call.sha \in Nat /\ call.sha <= Tip /\ base \in Nat /\ base <= Tip
      /\ side.sha \in Nat /\ side.sha <= Tip
  BY ShaGiven
<1>4. call.sha >= side.sha /\ (call.sha # 0 => call.sha >= base)
  BY <1>1 DEF MergeInv, CallKnows
<1>5. CASE call.why = "unknown" /\ Goto(At(call, "list"))
  <2>1. call' = At(call, "list") /\ UNCHANGED <<reg, task, shown>>
    BY <1>5 DEF Goto
  <2>2. call'.pc = "list" /\ call'.why = call.why /\ call'.text \subseteq Born
    BY <2>1, CallSteps DEF MergeInv, BornOnly
  <2>3. side.sha = 0
    BY <1>5 DEF MergeInv, CallKnows
  <2>4. CallKnows' /\ SendCovers'
    BY <1>1, <2>1, <2>2, CallRests DEF MergeInv
  <2>. QED BY <1>1, <1>2, <2>1, <2>2, <2>3, <2>4, CallMoves DEF MergeInv
<1>6. CASE Brief(call.sha)
  BY <1>1, <1>2, <1>3, <1>4, <1>6, BriefMerge
<1>7. CASE Brief(0)
  BY <1>1, <1>2, <1>3, <1>7, BriefMerge
<1>8. CASE Brief(Tip)
  BY <1>1, <1>2, <1>3, <1>8, BriefMerge
<1>. QED BY <1>5, <1>6, <1>7, <1>8 DEF Content, At

LEMMA ListMerge ==
    ASSUME BriefInv, MergeInv, List
    PROVE  MergeInv'
<1>1. /\ call.pc = "list" /\ UNCHANGED <<hist, disk, reg, shown>> /\ task' \in {task, NoTask}
      /\ call' \in {NoCall, ListCall}
  BY DEF List, Answer, Goto, Error
<1>2. spent'.peers = spent.peers /\ spent'.edits = spent.edits
  BY CallGiven, FaultCounted DEF List
<1>3. /\ Tip \in Nat /\ base \in Nat /\ base <= Tip /\ side.sha \in Nat /\ side.sha <= Tip
      /\ call \in Calls /\ file.text \in Texts
  BY ShaGiven, CallGiven
<1>4. CASE call' = NoCall
  <2>1. call'.pc = "none" /\ call'.why = "" /\ call'.text = {}
    BY <1>4, NoCallFields
  <2>2. CallKnows' /\ SendCovers'
    BY <1>1, <2>1, CallRests DEF MergeInv
  <2>. QED BY <1>1, <1>2, <2>1, <2>2, CallMoves DEF MergeInv
<1>5. CASE call' = Sending(call, file.text) /\ OnlineState \in Sends
  <2>1. call'.pc = "send" /\ call'.why = call.why /\ call'.text = file.text
    BY <1>3, <1>5, SendingCall
  <2>2. file.kind = "valid" /\ (base # 0 => file.text # hist[base])
    BY <1>3, <1>5, OnlineFacts DEF Sends
  <2>3. SendCovers'
    BY <1>1, <1>2, <2>1, <2>2 DEF MergeInv, FileCovers, SendCovers, disk
  <2>4. CallKnows'
    BY <1>1, <2>1 DEF MergeInv, CallKnows, disk
  <2>5. call'.text \subseteq Born
    BY <2>1 DEF MergeInv, BornOnly
  <2>. QED BY <1>1, <1>2, <2>1, <2>3, <2>4, <2>5, CallMoves DEF MergeInv
<1>6. CASE call' = About(call, "note", Tip)
  <2>1. call'.pc = "note" /\ call'.why = call.why /\ call'.sha = Tip /\ call'.text \subseteq Born
    BY <1>6, CallSteps DEF MergeInv, BornOnly
  <2>2. CallKnows' /\ SendCovers'
    BY <1>1, <1>3, <2>1 DEF MergeInv, CallKnows, SendCovers, disk
  <2>. QED BY <1>1, <1>2, <2>1, <2>2, CallMoves DEF MergeInv
<1>7. CASE call' = Briefed(call, side.sha)
  <2>1. call'.pc = "content" /\ call'.why = "brief" /\ call'.sha = side.sha /\ call'.text \subseteq Born
    BY <1>3, <1>7, CallSteps DEF MergeInv, BornOnly
  <2>2. CallKnows' /\ SendCovers'
    BY <1>1, <1>3, <2>1 DEF MergeInv, CallKnows, SendCovers, disk
  <2>. QED BY <1>1, <1>2, <2>1, <2>2, CallMoves DEF MergeInv
<1>8. \/ OnlineState \in Sends /\ ListCall = Sending(call, file.text)
      \/ ListCall = About(call, "note", Tip)
      \/ ListCall = Briefed(call, side.sha)
      \/ ListCall = NoCall
  BY DEF ListCall, Sending, About, Briefed
<1>. QED BY <1>1, <1>4, <1>5, <1>6, <1>7, <1>8

(* A conflict recorded: the next brief is about nothing older. *)
LEMMA RecordedMerge ==
    ASSUME BriefInv, MergeInv, NEW s \in 0 .. Tip, s # 0 => s >= base, NEW c \in BOOLEAN, Recorded(s, c),
           spent'.peers = spent.peers, spent'.edits = spent.edits
    PROVE  MergeInv'
<1>1. /\ call' = Briefed(call, s) /\ side' = [sha |-> s, content |-> c]
      /\ UNCHANGED <<hist, file, base, reg, task, shown>>
  BY DEF Recorded, Goto, Briefed
<1>2. s \in Nat
  BY ShaGiven
<1>3. call'.pc = "content" /\ call'.why = "brief" /\ call'.sha = s /\ call'.text = call.text
  BY <1>1, <1>2, CallSteps
<1>4. side'.sha = s
  BY <1>1
<1>5. BornOnly' /\ Grown' /\ EachAdds'
  BY <1>1, <1>3, BornKept, VersionsKept DEF MergeInv, BornOnly
<1>6. FileCovers'
  BY <1>1 DEF MergeInv, FileCovers
<1>7. TaskCovers'
  BY <1>1, <1>3 DEF MergeInv, TaskCovers
<1>8. CallKnows' /\ SendCovers'
  BY <1>1, <1>2, <1>3, <1>4 DEF MergeInv, CallKnows, SendCovers
<1>. QED BY <1>5, <1>6, <1>7, <1>8 DEF MergeInv

LEMMA NoteConflictMerge ==
    ASSUME BriefInv, MergeInv, NoteConflict
    PROVE  MergeInv'
<1>1. /\ Tip \in Nat /\ base \in Nat /\ base <= Tip /\ call.sha \in Nat /\ call.sha <= Tip
  BY ShaGiven
<1>2. spent'.peers = spent.peers /\ spent'.edits = spent.edits
  BY CallGiven, FaultCounted DEF NoteConflict
<1>3. call.sha # 0 => call.sha >= base
  BY DEF NoteConflict, MergeInv, CallKnows
<1>4. CASE Recorded(Tip, TRUE)
  <2>1. Tip \in 0 .. Tip /\ Tip >= base /\ TRUE \in BOOLEAN
    BY <1>1
  <2>. QED BY <1>2, <1>4, <2>1, RecordedMerge
<1>5. CASE Recorded(call.sha, FALSE)
  <2>1. call.sha \in 0 .. Tip /\ FALSE \in BOOLEAN
    BY <1>1
  <2>. QED BY <1>2, <1>3, <1>5, <2>1, RecordedMerge
<1>. QED BY <1>4, <1>5 DEF NoteConflict

(* Shas that are versions still name the same text.                        *)
LEMMA SameVersions ==
    ASSUME BriefInv, NEW t \in Texts, hist' = Append(hist, t)
    PROVE  /\ base # 0 => hist'[base] = hist[base]
           /\ \A v \in shown : v # 0 => hist'[v] = hist[v]
<1>1. \A v \in 1 .. Tip : hist'[v] = hist[v]
  BY ShaGiven, Appended
<1>2. base # 0 => base \in 1 .. Tip
  BY ShaGiven
<1>3. \A v \in shown : v # 0 => v \in 1 .. Tip
  BY ShaGiven
<1>. QED BY <1>1, <1>2, <1>3

(* A version is added and its writer's records stay as they are. *)
LEMMA AddedMerge ==
    ASSUME BriefInv, MergeInv, NEW t \in Texts, hist' = Append(hist, t),
           Tip = 0 => t # {}, Tip # 0 => hist[Tip] \subseteq t /\ hist[Tip] # t,
           t \subseteq Born', Born \subseteq Born', spent'.edits = spent.edits,
           UNCHANGED <<disk, reg, shown, task>>, call' \in {call, NoCall},
           call.pc = "content" => call' = call
    PROVE  MergeInv'
<1>1. file' = file /\ base' = base /\ side' = side
  BY DEF disk
<1>2. NoCall.pc = "none" /\ NoCall.why = "" /\ NoCall.text = {}
  BY NoCallFields
<1>3. call'.text \subseteq call.text
  BY <1>2
<1>4. Tip \in Nat /\ hist \in Seq(Texts)
  BY ShaGiven
<1>5. Tip' = Tip + 1 /\ hist'[Tip'] = t /\ \A v \in 1 .. Tip : hist'[v] = hist[v]
  BY <1>4, Appended
<1>6. Grown' /\ EachAdds'
  BY VersionGrows DEF MergeInv
<1>7. BornOnly'
  <2>1. \A i \in 1 .. Tip' : hist'[i] \subseteq Born'
    <3> SUFFICES ASSUME NEW i \in 1 .. Tip' PROVE hist'[i] \subseteq Born'
      OBVIOUS
    <3>1. i = Tip' \/ i \in 1 .. Tip
      BY <1>4, <1>5
    <3>. QED BY <1>5, <3>1 DEF MergeInv, BornOnly
  <2>2. file'.text \subseteq Born' /\ call'.text \subseteq Born' /\ task'.text \subseteq Born'
    BY <1>1, <1>3 DEF MergeInv, BornOnly
  <2>. QED BY <2>1, <2>2 DEF BornOnly
<1>8. FileCovers'
  BY <1>1, SameVersions DEF MergeInv, FileCovers
<1>9. SendCovers'
  <2>1. call'.pc = "send" => call' = call
    BY <1>2
  <2>. QED BY <1>1, <2>1, SameVersions DEF MergeInv, SendCovers
<1>10. TaskCovers'
  <2> SUFFICES ASSUME task'.todo # "none" PROVE TaskCovers'
    BY DEF TaskCovers
  <2>1. PICK v \in shown : v >= base /\ v >= reg /\ (call.pc # "content" => v >= side.sha) /\ hist[v] \subseteq task.text
    BY DEF MergeInv, TaskCovers
  <2>2. v # 0
    BY DEF MergeInv, CallKnows
  <2>3. call'.pc # "content" => v >= side.sha
    BY <2>1
  <2>. QED BY <1>1, <2>1, <2>2, <2>3, SameVersions DEF TaskCovers
<1>11. CallKnows'
  <2>1. CASE call' = call
    BY <1>1, <2>1 DEF MergeInv, CallKnows
  <2>2. CASE call' = NoCall
    BY <1>1, <1>2, <2>2 DEF MergeInv, CallKnows
  <2>. QED BY <2>1, <2>2
<1>. QED BY <1>6, <1>7, <1>8, <1>9, <1>10, <1>11 DEF MergeInv

(* The text an accepted push adds is its base's and more. *)
LEMMA SentGrows ==
    ASSUME BriefInv, MergeInv, call.pc = "send", ~Refuses
    PROVE  /\ call.text \in Texts /\ call.text \subseteq Born /\ Tip = base
           /\ Tip = 0 => call.text # {}
           /\ Tip # 0 => hist[Tip] \subseteq call.text /\ hist[Tip] # call.text
<1>1. call.text \in Texts
  BY CallGiven, CallFields
<1>2. Tip = base
  BY DEF Refuses
<1>. QED BY <1>1, <1>2 DEF MergeInv, BornOnly, SendCovers

LEMMA SendMerge ==
    ASSUME BriefInv, MergeInv, Send
    PROVE  MergeInv'
<1>1. call.pc = "send"
  BY DEF Send
<1>2. Tip \in Nat /\ base \in Nat /\ base <= Tip /\ hist \in Seq(Texts)
  BY ShaGiven
<1>3. NoCall.pc = "none" /\ NoCall.why = "" /\ NoCall.text = {} /\ NoTask.todo = "none" /\ NoTask.text = {}
  BY NoCallFields DEF NoTask
<1>4. CASE Recorded(Tip, TRUE) /\ UNCHANGED spent
  <2>1. Tip \in 0 .. Tip /\ Tip >= base /\ TRUE \in BOOLEAN
    BY <1>2
  <2>2. spent'.peers = spent.peers /\ spent'.edits = spent.edits
    BY <1>4
  <2>. QED BY <1>4, <2>1, <2>2, RecordedMerge
<1>5. CASE ~Refuses /\ hist' = Written /\ base' = Len(Written) /\ side' = NoSide /\ Answer /\ UNCHANGED <<file, spent>>
  <2>1. /\ call.text \in Texts /\ call.text \subseteq Born
        /\ Tip = 0 => call.text # {}
        /\ Tip # 0 => hist[Tip] \subseteq call.text /\ hist[Tip] # call.text
    BY <1>1, <1>5, SentGrows
  <2>2. hist' = Append(hist, call.text) /\ call' = NoCall /\ task' = NoTask /\ UNCHANGED <<reg, shown, file, spent>>
    BY <1>5 DEF Written, Answer
  <2>3. Grown' /\ EachAdds'
    BY <2>1, <2>2, VersionGrows DEF MergeInv
  <2>4. Tip' = Tip + 1 /\ hist'[Tip'] = call.text /\ \A v \in 1 .. Tip : hist'[v] = hist[v]
    BY <1>2, <2>1, <2>2, Appended
  <2>5. base' = Tip' /\ base' # 0 /\ side'.sha = 0
    BY <1>2, <1>5, <2>2, <2>4, OtherFields DEF Tip
  <2>6. BornOnly'
    <3>1. Born' = Born
      BY <2>2 DEF Born
    <3>2. \A i \in 1 .. Tip' : i = Tip' \/ i \in 1 .. Tip
      BY <1>2, <2>4
    <3>3. \A i \in 1 .. Tip' : hist'[i] \subseteq Born'
      BY <2>1, <2>4, <3>1, <3>2 DEF MergeInv, BornOnly
    <3>. QED BY <1>3, <2>2, <3>1, <3>3 DEF MergeInv, BornOnly
  <2>7. FileCovers'
    BY <1>1, <1>3, <2>2, <2>4, <2>5 DEF MergeInv, FileCovers, SendCovers
  <2>8. SendCovers' /\ TaskCovers' /\ CallKnows'
    BY <1>3, <2>2, <2>5 DEF MergeInv, SendCovers, TaskCovers, CallKnows
  <2>. QED BY <2>3, <2>6, <2>7, <2>8 DEF MergeInv
<1>6. CASE /\ Fault("network") /\ Error /\ UNCHANGED disk
           /\ hist' = hist \/ (~Refuses /\ hist' = Written)
  <2>1. spent'.peers = spent.peers /\ spent'.edits = spent.edits
    BY <1>6, CallGiven, FaultCounted
  <2>2. UNCHANGED <<reg, task, shown, disk>> /\ call' = NoCall
    BY <1>6 DEF Error, Goto
  <2>3. CASE hist' = hist
    <3>1. CallKnows' /\ SendCovers'
      BY <1>3, <2>2, CallRests DEF MergeInv
    <3>. QED BY <1>1, <1>3, <2>1, <2>2, <2>3, <3>1, CallMoves DEF MergeInv
  <2>4. CASE ~Refuses /\ hist' = Written
    <3>1. /\ call.text \in Texts /\ call.text \subseteq Born
          /\ Tip = 0 => call.text # {}
          /\ Tip # 0 => hist[Tip] \subseteq call.text /\ hist[Tip] # call.text
      BY <1>1, <2>4, SentGrows
    <3>2. Born' = Born
      BY <2>1 DEF Born
    <3>. QED BY <1>1, <2>1, <2>2, <2>4, <3>1, <3>2, AddedMerge DEF Written
  <2>. QED BY <1>6, <2>3, <2>4
<1>. QED BY <1>4, <1>5, <1>6 DEF Send

LEMMA PeerPushMerge ==
    ASSUME BriefInv, MergeInv, PeerPush
    PROVE  MergeInv'
<1> DEFINE new == PeerChange(spent.peers + 1)
           t   == (IF Tip = 0 THEN {} ELSE hist[Tip]) \cup {new}
<1>1. Tip \in Nat /\ hist \in Seq(Texts)
  BY ShaGiven
<1>2. spent.peers \in Nat /\ spent.peers + 1 \in 1 .. MaxPeerPushes /\ spent'.peers = spent.peers + 1 /\ spent'.edits = spent.edits
  BY CallGiven, BoundsAssumption DEF PeerPush, Spents
<1>3. new \in Change /\ new \in Born' /\ Born \subseteq Born'
  BY <1>2 DEF Change, Born
<1>4. new \notin Born
  BY <1>2 DEF Born, PeerChange, EditChange
<1>5. Tip # 0 => hist[Tip] \in Texts /\ hist[Tip] \subseteq Born
  BY <1>1 DEF Tip, MergeInv, BornOnly
<1>6. t \in Texts /\ t \subseteq Born' /\ t # {} /\ (Tip # 0 => hist[Tip] \subseteq t /\ hist[Tip] # t)
  BY <1>3, <1>4, <1>5 DEF Texts
<1>7. hist' = Append(hist, t) /\ UNCHANGED <<disk, reg, call, task, shown>>
  BY DEF PeerPush
<1> HIDE DEF t
<1>. QED BY <1>2, <1>3, <1>6, <1>7, AddedMerge

(* A pull after which no call is under way and nothing is asked for. *)
LEMMA PulledMerge ==
    ASSUME BriefInv, MergeInv, OnlineState \in {"incoming", "incoming_new", "conflict"}, Pulled,
           UNCHANGED <<hist, reg, shown, spent>>, call' = NoCall, task' = NoTask
    PROVE  MergeInv'
<1>1. Tip \in Nat /\ base \in Nat /\ base <= Tip /\ Tip # 0 /\ NoSide.sha = 0
  BY ShaGiven, OnlineFacts, OtherFields
<1>2. call'.pc = "none" /\ call'.why = "" /\ call'.text = {} /\ task'.todo = "none" /\ task'.text = {}
  BY NoCallFields DEF NoTask
<1>3. Tip \in 1 .. Tip
  BY <1>1
<1>4. hist[Tip] # {} /\ hist[Tip] \subseteq Born
  BY <1>3, VersionFull DEF MergeInv, BornOnly
<1>5. file'.text \in {file.text, hist[Tip]}
  BY DEF Pulled
<1>6. BornOnly' /\ Grown' /\ EachAdds'
  <2>1. file'.text \subseteq Born
    BY <1>4, <1>5 DEF MergeInv, BornOnly
  <2>. QED BY <1>2, <2>1, BornKept, VersionsKept
<1>7. CASE file' = [kind |-> "valid", text |-> hist[Tip]] /\ base' = Tip /\ side' = NoSide
  <2>1. FileCovers'
    BY <1>1, <1>2, <1>4, <1>7 DEF FileCovers
  <2>2. SendCovers' /\ TaskCovers' /\ CallKnows'
    BY <1>1, <1>2, <1>7 DEF MergeInv, SendCovers, TaskCovers, CallKnows
  <2>. QED BY <1>6, <2>1, <2>2 DEF MergeInv
<1>8. CASE file' = file /\ base' = base /\ side' \in {side, [sha |-> Tip, content |-> TRUE]}
  <2>1. FileCovers'
    BY <1>2, <1>8 DEF MergeInv, FileCovers
  <2>2. side'.sha = side.sha \/ side'.sha = Tip
    BY <1>8
  <2>3. SendCovers' /\ TaskCovers' /\ CallKnows'
    BY <1>1, <1>2, <1>8, <2>2 DEF MergeInv, SendCovers, TaskCovers, CallKnows
  <2>. QED BY <1>6, <2>1, <2>3 DEF MergeInv
<1>. QED BY <1>7, <1>8 DEF Pulled

LEMMA CallPullMerge ==
    ASSUME BriefInv, MergeInv, CallPull
    PROVE  MergeInv'
<1>1. /\ call = NoCall /\ OnlineState \in {"incoming", "incoming_new", "conflict"} /\ Pulled
      /\ UNCHANGED <<hist, spent, reg, shown>>
  BY DEF CallPull, Goto, Answer
<1>2. CASE Answer
  BY <1>1, <1>2, PulledMerge DEF Answer
<1>3. CASE Keeps /\ Goto(Briefed(NoCall, Tip))
  <2>1. Tip \in Nat /\ base \in Nat /\ base <= Tip
    BY ShaGiven
  <2>2. /\ file' = file /\ base' = base /\ side' = [sha |-> Tip, content |-> TRUE] /\ task' = task
        /\ call' = Briefed(NoCall, Tip)
    BY <1>1, <1>3 DEF Keeps, Adopts, BringsIn, Pulled, Goto
  <2>3. call'.pc = "content" /\ call'.why = "brief" /\ call'.text = {} /\ call'.sha = Tip /\ side'.sha = Tip
    BY <2>1, <2>2, PlanFields
  <2>4. BornOnly' /\ Grown' /\ EachAdds'
    <3>1. file'.text \subseteq Born /\ call'.text \subseteq Born /\ task'.text \subseteq Born
      BY <2>2, <2>3 DEF MergeInv, BornOnly
    <3>. QED BY <1>1, <3>1, BornKept, VersionsKept
  <2>5. FileCovers'
    BY <1>1, <2>2 DEF MergeInv, FileCovers
  <2>6. TaskCovers'
    BY <1>1, <2>2, <2>3 DEF MergeInv, TaskCovers
  <2>7. CallKnows' /\ SendCovers'
    BY <1>1, <2>1, <2>2, <2>3 DEF MergeInv, CallKnows, SendCovers
  <2>. QED BY <2>4, <2>5, <2>6, <2>7 DEF MergeInv
<1>. QED BY <1>2, <1>3 DEF CallPull, Briefed

LEMMA OtherPullMerge ==
    ASSUME BriefInv, MergeInv, Alone, OtherPull
    PROVE  MergeInv'
<1>1. call' = NoCall /\ task' = NoTask
  BY DEF OtherPull, Alone
<1>. QED BY <1>1, PulledMerge DEF OtherPull

(* A step that only touches the working file. *)
LEMMA FileTouched ==
    ASSUME MergeInv, UNCHANGED <<hist, base, side, reg, call, task, shown>>, spent'.peers = spent.peers,
           file'.text \subseteq Born, FileCovers', SendCovers'
    PROVE  MergeInv'
<1>1. BornOnly' /\ Grown' /\ EachAdds'
  BY BornKept, VersionsKept DEF MergeInv, BornOnly
<1>2. TaskCovers' /\ CallKnows'
  BY DEF MergeInv, TaskCovers, CallKnows
<1>. QED BY <1>1, <1>2 DEF MergeInv

LEMMA WritePageMerge ==
    ASSUME BriefInv, MergeInv, WritePage
    PROVE  MergeInv'
<1>1. /\ call = NoCall /\ task.todo = "merge" /\ file' = [kind |-> "valid", text |-> task.text]
      /\ task'.todo = "merged" /\ task'.text = task.text
      /\ UNCHANGED <<hist, base, side, reg, call, shown, spent>>
  <2>1. task \in Tasks
    BY CallGiven
  <2>. QED BY <2>1 DEF WritePage, Tasks
<1>2. PICK v \in shown : v >= base /\ v >= reg /\ (call.pc # "content" => v >= side.sha) /\ hist[v] \subseteq task.text
  BY <1>1 DEF MergeInv, TaskCovers
<1>3. v \in 1 .. Tip /\ base \in Nat
  BY ShaGiven DEF MergeInv, CallKnows
<1>4. hist[v] # {}
  BY <1>3, VersionFull DEF MergeInv
<1>5. base # 0 => hist[base] \subseteq hist[v]
  <2>1. base # 0 => base \in 1 .. Tip /\ base <= v
    BY <1>2, <1>3, ShaGiven
  <2>. QED BY <1>3, <2>1 DEF MergeInv, Grown
<1>6. BornOnly' /\ Grown' /\ EachAdds'
  BY <1>1, BornKept, VersionsKept DEF MergeInv, BornOnly
<1>7. FileCovers'
  BY <1>1, <1>2, <1>4, <1>5 DEF FileCovers
<1>8. SendCovers' /\ CallKnows'
  BY <1>1, NoCallFields DEF MergeInv, SendCovers, CallKnows
<1>9. TaskCovers'
  BY <1>1, <1>2 DEF TaskCovers
<1>. QED BY <1>6, <1>7, <1>8, <1>9 DEF MergeInv

LEMMA EditMerge ==
    ASSUME BriefInv, MergeInv, Edit
    PROVE  MergeInv'
<1> DEFINE new == EditChange(spent.edits + 1)
<1>1. spent.edits \in Nat /\ spent.edits + 1 \in 1 .. MaxEdits /\ spent'.peers = spent.peers /\ spent'.edits = spent.edits + 1
  BY CallGiven, BoundsAssumption DEF Edit, Spents
<1>2. /\ UNCHANGED <<hist, base, side, reg, call, task, shown>>
      /\ file'.kind = "valid" /\ file'.text = file.text \cup {new}
  BY DEF Edit
<1>3. new \in Born
  BY <1>1 DEF Born
<1>4. file'.text \subseteq Born
  BY <1>2, <1>3 DEF MergeInv, BornOnly
<1> HIDE DEF new
<1>5. CASE file.kind = "valid"
  <2>1. spent'.edits > 0
    BY <1>1
  <2>2. FileCovers'
    BY <1>2, <1>5, <2>1 DEF MergeInv, FileCovers
  <2>3. SendCovers'
    BY <1>2, <1>5, <2>1 DEF MergeInv, SendCovers
  <2>. QED BY <1>1, <1>2, <1>4, <2>2, <2>3, FileTouched
<1>6. CASE base = 0 /\ spent.edits = 0 /\ shown = {}
  <2>1. task.todo = "none" /\ call.pc # "send"
    BY <1>6 DEF MergeInv, TaskCovers, SendCovers
  <2>2. spent'.edits > 0
    BY <1>1
  <2>3. FileCovers' /\ SendCovers'
    BY <1>2, <1>6, <2>1, <2>2 DEF FileCovers, SendCovers
  <2>. QED BY <1>1, <1>2, <1>4, <2>3, FileTouched
<1>. QED BY <1>5, <1>6 DEF Edit

LEMMA SpoilMendMerge ==
    ASSUME BriefInv, MergeInv, Spoil \/ Mend
    PROVE  MergeInv'
<1>1. UNCHANGED <<hist, base, side, reg, call, task, shown>> /\ file.kind # "absent"
  BY DEF Spoil, Mend
<1>2. spent'.peers = spent.peers /\ spent'.edits = spent.edits
  BY CallGiven, FaultCounted DEF Spoil, Mend
<1>3. (file'.kind = "absent" /\ file'.text = {}) \/ file'.text = file.text
  <2>1. file \in Files
    BY CallGiven
  <2>. QED BY <2>1 DEF Spoil, Mend, Files
<1>4. file'.text \subseteq Born
  BY <1>3 DEF MergeInv, BornOnly
<1>5. FileCovers' /\ SendCovers'
  BY <1>1, <1>2, <1>3 DEF MergeInv, FileCovers, SendCovers
<1>. QED BY <1>1, <1>2, <1>4, <1>5, FileTouched

LEMMA RestartMerge ==
    ASSUME BriefInv, MergeInv, Alone, Restart
    PROVE  MergeInv'
<1>1. call = NoCall
  BY DEF Restart, Fault, Alone
<1>2. reg' = 0 /\ call' = NoCall /\ UNCHANGED <<hist, disk, task, shown>>
  BY DEF Restart
<1>3. spent'.peers = spent.peers /\ spent'.edits = spent.edits
  BY CallGiven, FaultCounted DEF Restart
<1>4. call'.pc = "none" /\ call'.why = "" /\ call'.text = {} /\ call.pc = "none"
  BY <1>1, <1>2, NoCallFields
<1>5. CallKnows' /\ SendCovers'
  BY <1>2, <1>4, CallRests DEF MergeInv
<1>. QED BY <1>2, <1>3, <1>4, <1>5, CallMoves DEF MergeInv

LEMMA MergeInvInit == Init => MergeInv
<1> SUFFICES ASSUME Init PROVE MergeInv
  OBVIOUS
<1>1. Tip = 0 /\ file.kind = "absent" /\ file.text = {} /\ base = 0 /\ reg = 0 /\ shown = {} /\ side = NoSide
  BY DEF Init, Tip
<1>2. call.pc = "none" /\ call.why = "" /\ call.text = {} /\ task.todo = "none" /\ task.text = {} /\ side.sha = 0
  BY NoCallFields, OtherFields DEF Init, NoTask
<1>3. BornOnly /\ Grown /\ EachAdds
  <2>1. 1 .. Tip = {}
    BY <1>1
  <2>. QED BY <1>1, <1>2, <2>1 DEF BornOnly, Grown, EachAdds
<1>4. FileCovers /\ SendCovers /\ TaskCovers /\ CallKnows
  BY <1>1, <1>2 DEF FileCovers, SendCovers, TaskCovers, CallKnows
<1>. QED BY <1>3, <1>4 DEF MergeInv

LEMMA MergeInvStep == Alone /\ BriefInv /\ MergeInv /\ [Next]_vars => MergeInv'
<1> SUFFICES ASSUME Alone, BriefInv, MergeInv, [Next]_vars PROVE MergeInv'
  OBVIOUS
<1>1. ASSUME NEW resolved \in BOOLEAN, CallPush(resolved) PROVE MergeInv'
  BY <1>1, CallPushMerge
<1>2. CASE Step
  BY <1>2, ResolveMerge, FreshMerge, ContentMerge, ListMerge, NoteConflictMerge, SendMerge DEF Step
<1>3. CASE CallPull \/ OtherPull \/ WritePage
  BY <1>3, CallPullMerge, OtherPullMerge, WritePageMerge
<1>4. CASE Edit \/ Spoil \/ Mend \/ PeerPush \/ Restart
  BY <1>4, EditMerge, SpoilMendMerge, PeerPushMerge, RestartMerge
<1>5. CASE UNCHANGED vars
  <2>1. Born' = Born /\ Tip' = Tip
    BY <1>5 DEF vars, Born, Tip
  <2>2. BornOnly' /\ Grown' /\ EachAdds' /\ FileCovers'
    BY <1>5, <2>1 DEF vars, MergeInv, BornOnly, Grown, EachAdds, FileCovers
  <2>3. SendCovers' /\ TaskCovers' /\ CallKnows'
    BY <1>5 DEF vars, MergeInv, SendCovers, TaskCovers, CallKnows
  <2>. QED BY <2>2, <2>3 DEF MergeInv
<1>. QED BY <1>1, <1>2, <1>3, <1>4, <1>5 DEF Next

(* Every fact above in one invariant, for PTL.                              *)
HandshakeInv == BriefInv /\ (Alone => MergeInv)

LEMMA HandshakeInvHolds == Spec => []HandshakeInv
<1>1. Init => HandshakeInv
  BY BriefInvInit, MergeInvInit DEF HandshakeInv
<1>2. HandshakeInv /\ [Next]_vars => HandshakeInv'
  BY BriefInvStep, MergeInvStep DEF HandshakeInv, Alone
<1>. QED BY <1>1, <1>2, PTL DEF Spec

LEMMA SoundFromInv ==
    ASSUME BriefInv, MergeInv
    PROVE  BriefSound
<1>1. /\ Tip \in Nat /\ hist \in Seq(Texts) /\ base \in Nat /\ base <= Tip /\ side.sha \in Nat /\ side.sha <= Tip
      /\ call.sha \in Nat /\ call.sha <= Tip /\ reg \in Nat /\ \A v \in shown : v \in Nat /\ v <= Tip
  BY ShaGiven
<1>2. Tip \in Version
  BY VersionsBounded DEF MergeInv
<1>3. \A s \in Nat : s <= Tip => s \in Version
  BY <1>1, <1>2, BoundsAssumption DEF Version
<1>4. BriefNotAhead
  BY DEF BriefInv
<1>5. reg \in Version
  <2>1. reg # 0 => reg <= Tip
    BY <1>1, <1>4 DEF BriefNotAhead
  <2>2. 0 \in Nat /\ 0 <= Tip
    BY <1>1
  <2>. QED BY <1>1, <1>3, <2>1, <2>2
<1>6. base \in Version /\ side.sha \in Version /\ call.sha \in Version /\ shown \subseteq Version
  BY <1>1, <1>3
<1>7. file \in Files /\ side \in Sides /\ call \in Calls /\ task \in Tasks /\ spent \in Spents
  BY DEF BriefInv, TypeInv
<1>8. side \in [sha : Version, content : BOOLEAN]
  BY <1>6, <1>7 DEF Sides
<1>9. call \in [pc : {"none", "resolve", "fresh", "content", "list", "note", "send"},
                why : {"", "unknown", "stale", "brief"}, sha : Version, text : SUBSET Change]
  BY <1>6, <1>7 DEF Calls, Pcs, Whys, Texts
<1>10. file \in [kind : {"valid", "invalid", "absent"}, text : SUBSET Change]
       /\ task \in [todo : {"none", "merge", "merged"}, text : SUBSET Change]
       /\ spent \in [peers : 0 .. MaxPeerPushes, edits : 0 .. MaxEdits, faults : 0 .. MaxFaults]
       /\ hist \in Seq(SUBSET Change)
  BY <1>1, <1>7 DEF Files, Tasks, Spents, Texts
<1>. QED BY <1>2, <1>4, <1>5, <1>6, <1>8, <1>9, <1>10 DEF BriefSound, MergeTypeOK

(* The registry holds what was shown and every version, whatever its       *)
(* writer, adds a change to the one before: their number never leaves the  *)
(* bound that counts the changes.                                          *)
THEOREM BriefsAreSound == ASSUME Alone PROVE Spec => []BriefSound
<1>1. HandshakeInv => BriefSound
  BY SoundFromInv DEF HandshakeInv
<1>. QED BY <1>1, HandshakeInvHolds, PTL

(* resolve --ours re-bases a merged page onto a version that the agent was *)
(* shown, never onto a newer one (tools.go 665).                           *)
THEOREM RebasedOnShown == ASSUME Alone PROVE Spec => NeverNewer
<1>1. HandshakeInv /\ [Next]_vars => [call.pc = "resolve" /\ base' # base => \E v \in shown : v >= base']_vars
  <2> SUFFICES ASSUME HandshakeInv, Next, call.pc = "resolve", base' # base
               PROVE  \E v \in shown : v >= base'
    OBVIOUS
  <2>1. BriefInv /\ MergeInv
    BY DEF HandshakeInv
  <2>2. call # NoCall
    BY NoCallFields
  <2>3. Resolve
    BY <2>2 DEF Next, Step, CallPush, CallPull, OtherPull, Alone, WritePage, Edit, Spoil, Mend, PeerPush, Restart,
                Fresh, Content, List, NoteConflict, Send, disk
  <2>4. base' = Tip /\ Known # 0 /\ Tip = Known /\ OnlineState = "conflict"
    BY <2>3 DEF Resolve, Moved, KeepsOurs, disk
  <2>5. Tip \in shown
    BY <2>1, <2>4, OnlineFacts, ResolvedMerge
  <2>6. Tip \in Nat
    BY <2>1, ShaGiven
  <2>. QED BY <2>4, <2>5, <2>6
<1>. QED BY <1>1, HandshakeInvHolds, PTL DEF Spec, NeverNewer

(* Every version contains what the one it replaces contains, though the    *)
(* agent's text was made long before it is pushed and a lost reply may     *)
(* have pushed it already.                                                 *)
THEOREM NothingIsOverwritten == ASSUME Alone PROVE Spec => NothingOverwritten
<1>1. HandshakeInv /\ [Next]_vars => [Tip # 0 /\ Len(hist') > Tip => hist[Tip] \subseteq hist'[Len(hist')]]_vars
  <2> SUFFICES ASSUME HandshakeInv, Next, Tip # 0, Len(hist') > Tip
               PROVE  hist[Tip] \subseteq hist'[Len(hist')]
    OBVIOUS
  <2>1. BriefInv /\ MergeInv /\ Tip \in Nat /\ hist \in Seq(Texts) /\ hist' # hist
    BY ShaGiven DEF HandshakeInv, Tip
  <2>2. CASE PeerPush
    <3> DEFINE t == hist[Tip] \cup {PeerChange(spent.peers + 1)}
    <3>1. hist' = Append(hist, t)
      BY <2>2 DEF PeerPush
    <3>. QED BY <2>1, <3>1 DEF Tip
  <2>3. CASE Send
    <3>1. ~Refuses /\ hist' = Append(hist, call.text) /\ call.pc = "send"
      BY <2>1, <2>3 DEF Send, Recorded, Written
    <3>2. hist[Tip] \subseteq call.text
      BY <2>1, <3>1, SentGrows
    <3>. QED BY <2>1, <3>1, <3>2 DEF Tip
  <2>4. PeerPush \/ Send
    BY <2>1 DEF Next, Step, CallPush, CallPull, OtherPull, WritePage, Edit, Spoil, Mend, Restart,
                Resolve, Fresh, Content, List, NoteConflict, Recorded
  <2>. QED BY <2>2, <2>3, <2>4
<1>. QED BY <1>1, HandshakeInvHolds, PTL DEF Spec, NothingOverwritten
=============================================================================
