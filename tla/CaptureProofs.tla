---------------------------- MODULE CaptureProofs ----------------------------
(***************************************************************************)
(* What the capture of sessions and the distill handshake keep, for any    *)
(* number of sessions, hooks, turns and pushes: no turn is lost, turns are *)
(* in their order, a prompt is used once, the buffers are bounded and the  *)
(* replies are whole.                                                      *)
(***************************************************************************)
EXTENDS CaptureTypes

-----------------------------------------------------------------------------
(* What each action does to the rest, pointwise *)

(* The steps of a hook that leave the buffers alone.                       *)
Calm(g) == \/ StashOpen(g) \/ StashWrite(g) \/ TakeRead(g) \/ TakeRemove(g) \/ LatestTurn(g)
           \/ Records(g) \/ PruneStat(g) \/ Kill(g)

LEMMA CalmIs ==
    ASSUME TypeInv, NEW g \in Hooks, Calm(g)
    PROVE  /\ UNCHANGED <<asked, stops, script, file, order, age, kept, gone>>
           /\ Others(g) /\ hk' \in [Hooks -> HookRec] /\ \A h \in Hooks \ {g} : Carried(h)
           /\ hk[g].at # "free" /\ hk[g].s \in Sessions
           /\ hk'[g].at # "free" => hk'[g].s = hk[g].s
           /\ hk'[g].at \in Writing => Records(g)
           /\ hk'[g].at = "remove" => hk'[g].victim \in Sessions /\ age[hk'[g].victim] = 2
           /\ hk'[g].at = "records" => TakeRead(g) \/ TakeRemove(g) \/ LatestTurn(g)
           /\ hk'[g].at = "stashed" => StashOpen(g)
           /\ hk'[g].at = "taken" => TakeRead(g)
           /\ hk'[g].at \in {"free", "stashed", "taken", "records", "remove", "append", "create"}
           /\ prompt' = prompt \/ StashOpen(g) \/ StashWrite(g) \/ TakeRemove(g)
           /\ hk'[g].at \in Unwritten \cup Stashing => hk'[g].ex = hk[g].ex /\ hk[g].at \in Unwritten \cup Stashing
<1>1. UNCHANGED <<asked, stops, script, file, order, age, kept, gone>> /\ hk[g].at # "free" /\ hk[g].s \in Sessions
  BY DEF Calm, StashOpen, StashWrite, TakeRead, TakeRemove, LatestTurn, Records, PruneStat, Kill, ghosts, TypeInv, HookOK
<1>2. CASE StashOpen(g)
  <2>1. To(g, "stashed") /\ "stashed" \in Stages /\ hk[g].at = "stash"
    BY <1>2 DEF StashOpen, Stages, Stashing
  <2>. QED BY <1>1, <1>2, <2>1, ToHook, OthersCarried DEF Writing, Unwritten, Stashing
<1>3. CASE StashWrite(g) \/ Kill(g)
  <2>1. Ends(g)
    BY <1>3 DEF StashWrite, Kill
  <2>2. prompt' = prompt \/ StashWrite(g)
    BY <1>3 DEF Kill
  <2>. QED BY <1>1, <2>1, <2>2, EndsHook, OthersCarried DEF Writing, Unwritten, Stashing
<1>4. CASE TakeRead(g)
  <2>1. prompt' = prompt
    BY <1>4 DEF TakeRead
  <2>. QED BY <1>1, <1>4, <2>1, TakeReadHook, OthersCarried DEF Writing, Unwritten, Stashing
<1>5. CASE TakeRemove(g)
  <2>1. To(g, "records") /\ "records" \in Stages /\ hk[g].at = "taken"
    BY <1>5 DEF TakeRemove, Stages, Unwritten
  <2>. QED BY <1>1, <1>5, <2>1, ToHook, OthersCarried DEF Writing, Unwritten, Stashing
<1>6. CASE LatestTurn(g)
  <2>1. prompt' = prompt
    BY <1>6 DEF LatestTurn
  <2>. QED BY <1>1, <1>6, <2>1, LatestTurnHook, OthersCarried DEF Writing, Unwritten, Stashing
<1>7. CASE Records(g)
  <2>1. prompt' = prompt
    BY <1>7 DEF Records
  <2>. QED BY <1>1, <1>7, <2>1, RecordsHook, OthersCarried DEF Unwritten, Stashing
<1>8. CASE PruneStat(g)
  <2>1. prompt' = prompt
    BY <1>8 DEF PruneStat
  <2>. QED BY <1>1, <1>8, <2>1, PruneStatHook, OthersCarried DEF Writing, Unwritten, Stashing
<1>. QED BY <1>2, <1>3, <1>4, <1>5, <1>6, <1>7, <1>8 DEF Calm

(* The sessions' steps and time. *)
SessionStep == (\E s \in Sessions : Submit(s) \/ Stop(s) \/ Land(s)) \/ TimePasses

LEMMA SessionStepIs ==
    ASSUME TypeInv, SessionStep
    PROVE  /\ UNCHANGED <<prompt, file, order, kept, gone>>
           /\ \A h \in Hooks : \/ hk'[h] = hk[h] /\ Carried(h)
                               \/ /\ hk[h].at = "free" /\ hk'[h].at \in {"stash", "take", "transcript"}
                                  /\ hk'[h].s \in Sessions /\ hk'[h].ex = asked'[hk'[h].s]
                                  /\ hk'[h].user = 0
           /\ \A s \in Sessions : age[s] = 2 => age'[s] = 2
<1>1. UNCHANGED <<prompt, file, order, kept, gone>>
  BY Zenon DEF SessionStep, Submit, Stop, Land, TimePasses, ghosts
<1>2. \A s \in Sessions : age[s] = 2 => age'[s] = 2
  <2>1. CASE TimePasses
    BY <2>1 DEF TimePasses
  <2>2. CASE age' = age
    BY <2>2
  <2>. QED BY Zenon, <2>1, <2>2 DEF SessionStep, Submit, Stop, Land
<1>3. ASSUME hk' = hk
      PROVE  \A h \in Hooks : hk'[h] = hk[h] /\ Carried(h)
  BY <1>3 DEF Carried
<1>4. ASSUME NEW s \in Sessions, Submit(s)
      PROVE  \A h \in Hooks : \/ hk'[h] = hk[h] /\ Carried(h)
                              \/ /\ hk[h].at = "free" /\ hk'[h].at \in {"stash", "take", "transcript"}
                                 /\ hk'[h].s \in Sessions /\ hk'[h].ex = asked'[hk'[h].s]
                                 /\ hk'[h].user = 0
  <2>1. CASE s \in Inline
    <3>1. PICK h \in Hooks :
            /\ hk[h].at = "free" /\ Others(h) /\ hk'[h].at = "stash" /\ hk'[h].s = s
            /\ hk'[h].ex = asked[s] + 1 /\ hk'[h].user = 0 /\ hk'[h].into = "none"
      BY <1>4, <2>1, SubmitHook
    <3>2. asked'[s] = asked[s] + 1
      BY <1>4 DEF Submit, TypeInv
    <3>. QED BY <3>1, <3>2, OthersCarried DEF Others
  <2>2. CASE s \notin Inline
    BY <1>3, <1>4, <2>2, SubmitHook
  <2>. QED BY <2>1, <2>2
<1>5. ASSUME NEW s \in Sessions, Stop(s)
      PROVE  \A h \in Hooks : \/ hk'[h] = hk[h] /\ Carried(h)
                              \/ /\ hk[h].at = "free" /\ hk'[h].at \in {"stash", "take", "transcript"}
                                 /\ hk'[h].s \in Sessions /\ hk'[h].ex = asked'[hk'[h].s]
                                 /\ hk'[h].user = 0
  <2>1. PICK h \in Hooks :
          /\ hk[h].at = "free" /\ hk' \in [Hooks -> HookRec] /\ Others(h)
          /\ hk'[h].at = (IF s \in Inline THEN "take" ELSE "transcript") /\ hk'[h].s = s
          /\ hk'[h].ex = asked[s] /\ hk'[h].user = 0 /\ hk'[h].into = "none"
    BY <1>5, StopHook
  <2>2. asked' = asked
    BY <1>5 DEF Stop
  <2>. QED BY <2>1, <2>2, OthersCarried DEF Others
<1>6. CASE \E s \in Sessions : Land(s)
  BY <1>1, <1>2, <1>3, <1>6 DEF Land
<1>7. CASE TimePasses
  BY <1>1, <1>2, <1>3, <1>7 DEF TimePasses
<1>. QED BY <1>1, <1>2, <1>4, <1>5, <1>6, <1>7 DEF SessionStep

LEMMA AppendIs ==
    ASSUME TypeInv, NEW g \in Hooks, AppendLine(g), NEW s, s = hk[g].s
    PROVE  /\ s \in Sessions /\ hk[g].at = "append" /\ hk'[g].at = "prune" /\ hk'[g].s = s
           /\ hk' \in [Hooks -> HookRec] /\ Others(g) /\ \A h \in Hooks \ {g} : Carried(h)
           /\ UNCHANGED <<asked, stops, script, prompt, gone>>
           /\ file'[s]["pend"] = Append(Recs(file[s]["pend"]), Record(g))
           /\ \A t \in Sessions : \A f \in Names : (t # s \/ f # "pend") => file'[t][f] = file[t][f]
           /\ kept'[s] = kept[s] \cup {<<hk[g].user, hk[g].ex>>}
           /\ \A t \in Sessions : t # s => kept'[t] = kept[t] /\ age'[t] = age[t]
<1>1. s \in Sessions /\ hk[g].at = "append"
  BY DEF TypeInv, AppendLine, HookOK
<1>2. /\ file' = [file EXCEPT ![s]["pend"] = Append(Recs(file[s]["pend"]), Record(g))]
      /\ Touch(s) /\ Kept(g) /\ UNCHANGED <<asked, stops, script, prompt, gone>>
  BY DEF AppendLine, LineAdded
<1>3. kept' = [kept EXCEPT ![s] = @ \cup {<<hk[g].user, hk[g].ex>>}] /\ age' = [age EXCEPT ![s] = 0]
  BY <1>2 DEF Kept, Touch
<1>4. /\ file \in [Sessions -> [Names -> Contents]] /\ kept \in [Sessions -> SUBSET (Nat \X Nat)] /\ age \in [Sessions -> 0 .. 2]
      /\ "pend" \in Names
  BY DEF TypeInv, Names
<1>5. /\ file'[s]["pend"] = Append(Recs(file[s]["pend"]), Record(g))
      /\ \A t \in Sessions : \A f \in Names : (t # s \/ f # "pend") => file'[t][f] = file[t][f]
  BY <1>1, <1>2, <1>4
<1>6. /\ kept'[s] = kept[s] \cup {<<hk[g].user, hk[g].ex>>}
      /\ \A t \in Sessions : t # s => kept'[t] = kept[t] /\ age'[t] = age[t]
  BY <1>1, <1>3, <1>4
<1>. QED BY <1>1, <1>2, <1>5, <1>6, AppendHook, OthersCarried

LEMMA CreateIs ==
    ASSUME TypeInv, NEW g \in Hooks, CreateTmp(g), NEW s, s = hk[g].s
    PROVE  /\ s \in Sessions /\ hk[g].at = "create" /\ hk'[g].at = "flush" /\ hk'[g].s = s
           /\ hk'[g].ex = hk[g].ex /\ hk'[g].user = hk[g].user /\ hk'[g].seen = hk[g].seen /\ hk'[g].into = "tmp"
           /\ Others(g) /\ \A h \in Hooks \ {g} : Carried(h)
           /\ UNCHANGED <<asked, stops, script, prompt, order, age, kept, gone>>
           /\ file'[s]["tmp"] = << >>
           /\ \A t \in Sessions : \A f \in Names : (t # s \/ f # "tmp") => file'[t][f] = file[t][f]
<1>1. s \in Sessions
  BY DEF TypeInv, CreateTmp, HookOK
<1>2. file' = [file EXCEPT ![s]["tmp"] = << >>] /\ UNCHANGED <<asked, stops, script, prompt, order, age, kept, gone>>
  BY DEF CreateTmp, ghosts
<1>3. file \in [Sessions -> [Names -> Contents]] /\ "tmp" \in Names
  BY DEF TypeInv, Names
<1>4. /\ file'[s]["tmp"] = << >>
      /\ \A t \in Sessions : \A f \in Names : (t # s \/ f # "tmp") => file'[t][f] = file[t][f]
  BY <1>1, <1>2, <1>3
<1>. QED BY <1>1, <1>2, <1>4, CreateHook, OthersCarried

LEMMA FlushIs ==
    ASSUME TypeInv, NEW g \in Hooks, FlushTmp(g), NEW s, s = hk[g].s
    PROVE  /\ s \in Sessions /\ hk[g].at = "flush" /\ hk'[g].at = "rename" /\ hk'[g].s = s
           /\ hk'[g].ex = hk[g].ex /\ hk'[g].user = hk[g].user /\ hk'[g].seen = hk[g].seen
           /\ Others(g) /\ \A h \in Hooks \ {g} : Carried(h)
           /\ UNCHANGED <<asked, stops, script, prompt, order, age, kept, gone>>
           /\ \A t \in Sessions : \A f \in Names : (t # s \/ f # hk[g].into) => file'[t][f] = file[t][f]
           /\ \A f \in Names : f = hk[g].into => file'[s][f] = Overlay(file[s][f], Shortened(g))
<1>1. s \in Sessions
  BY DEF TypeInv, FlushTmp, HookOK
<1>2. /\ file' = IF hk[g].into = "none" THEN file ELSE [file EXCEPT ![s][hk[g].into] = Overlay(@, Shortened(g))]
      /\ UNCHANGED <<asked, stops, script, prompt, order, age, kept, gone>>
  BY DEF FlushTmp, ghosts
<1>3. file \in [Sessions -> [Names -> Contents]] /\ "none" \notin Names
  BY DEF TypeInv, Names
<1>4. /\ \A t \in Sessions : \A f \in Names : (t # s \/ f # hk[g].into) => file'[t][f] = file[t][f]
      /\ \A f \in Names : f = hk[g].into => file'[s][f] = Overlay(file[s][f], Shortened(g))
  BY <1>1, <1>2, <1>3
<1>. QED BY <1>1, <1>2, <1>4, FlushHook, OthersCarried

LEMMA RenameFails ==
    ASSUME TypeInv, NEW g \in Hooks, RenameTmp(g), file[hk[g].s]["tmp"] = NoFile
    PROVE  /\ hk[g].at = "rename" /\ hk'[g].at = "free" /\ hk' \in [Hooks -> HookRec]
           /\ Others(g) /\ \A h \in Hooks \ {g} : Carried(h)
           /\ UNCHANGED <<asked, stops, script, prompt, file, order, age, kept, gone>>
<1>1. hk[g].at = "rename" /\ Ends(g) /\ UNCHANGED <<asked, stops, script, prompt, file, order, age, kept, gone>>
  BY DEF RenameTmp, ghosts
<1>. QED BY <1>1, EndsHook, OthersCarried

LEMMA RenameIs ==
    ASSUME TypeInv, NEW g \in Hooks, RenameTmp(g), NEW s, s = hk[g].s, file[s]["tmp"] # NoFile
    PROVE  /\ s \in Sessions /\ hk[g].at = "rename" /\ hk'[g].at = "prune" /\ hk'[g].s = s
           /\ hk' \in [Hooks -> HookRec]
           /\ \A h \in Hooks \ {g} : Carried(h) /\ (hk[h].s # s => hk'[h] = hk[h])
           /\ UNCHANGED <<asked, stops, script, prompt>>
           /\ file'[s]["pend"] = file[s]["tmp"] /\ file'[s]["tmp"] = NoFile
           /\ \A t \in Sessions : \A f \in Names : (t # s \/ f \notin {"tmp", "pend"}) => file'[t][f] = file[t][f]
           /\ kept'[s] = kept[s] \cup {<<hk[g].user, hk[g].ex>>} /\ gone'[s] = gone[s] \cup Dropped(g)
           /\ \A t \in Sessions : t # s => kept'[t] = kept[t] /\ gone'[t] = gone[t] /\ age'[t] = age[t]
<1>1. s \in Sessions
  BY Zenon DEF TypeInv, RenameTmp, HookOK
<1>2. /\ file' = Moved(s, "tmp", "pend") /\ Touch(s) /\ Kept(g)
      /\ gone' = [gone EXCEPT ![s] = @ \cup Dropped(g)] /\ UNCHANGED <<asked, stops, script, prompt>>
  BY DEF RenameTmp
<1>3. kept' = [kept EXCEPT ![s] = @ \cup {<<hk[g].user, hk[g].ex>>}] /\ age' = [age EXCEPT ![s] = 0]
  BY <1>2 DEF Kept, Touch
<1>4. /\ kept \in [Sessions -> SUBSET (Nat \X Nat)] /\ gone \in [Sessions -> SUBSET (Nat \X Nat)] /\ age \in [Sessions -> 0 .. 2]
  BY Zenon DEF TypeInv
<1>5. /\ file'[s]["pend"] = file[s]["tmp"] /\ file'[s]["tmp"] = NoFile
      /\ \A t \in Sessions : \A f \in Names : (t # s \/ f \notin {"tmp", "pend"}) => file'[t][f] = file[t][f]
  BY <1>1, <1>2, MovedIs DEF Names
<1>6. /\ kept'[s] = kept[s] \cup {<<hk[g].user, hk[g].ex>>} /\ gone'[s] = gone[s] \cup Dropped(g)
      /\ \A t \in Sessions : t # s => kept'[t] = kept[t] /\ gone'[t] = gone[t] /\ age'[t] = age[t]
  BY <1>1, <1>2, <1>3, <1>4
<1>. QED BY <1>1, <1>2, <1>5, <1>6, RenameHook

LEMMA RemoveIs ==
    ASSUME TypeInv, NEW g \in Hooks, PruneRemove(g), NEW s, s = hk[g].victim
    PROVE  /\ s \in Sessions /\ hk[g].at = "remove" /\ hk'[g].at = "prune" /\ hk'[g].s = hk[g].s
           /\ hk' \in [Hooks -> HookRec]
           /\ \A h \in Hooks \ {g} : Carried(h) /\ (hk[h].into = "tmp" => hk'[h].into = "tmp")
           /\ UNCHANGED <<asked, stops, script, prompt, order, age, kept>>
           /\ file'[s]["pend"] = NoFile
           /\ \A t \in Sessions : \A f \in Names : (t # s \/ f # "pend") => file'[t][f] = file[t][f]
           /\ age[s] = 2 => gone'[s] = gone[s] \cup Turns(file[s]["pend"])
           /\ \A t \in Sessions : t # s => gone'[t] = gone[t]
<1>1. s \in Sessions
  BY DEF TypeInv, PruneRemove, HookOK
<1>2. /\ file' = [file EXCEPT ![s]["pend"] = NoFile]
      /\ gone' = [gone EXCEPT ![s] = @ \cup IF age[s] = 2 THEN Turns(file[s]["pend"]) ELSE {}]
      /\ UNCHANGED <<asked, stops, script, prompt, order, age, kept>>
  BY DEF PruneRemove
<1>3. /\ file \in [Sessions -> [Names -> Contents]] /\ "pend" \in Names /\ gone \in [Sessions -> SUBSET (Nat \X Nat)]
  BY Zenon DEF TypeInv, Names
<1>4. /\ file'[s]["pend"] = NoFile
      /\ \A t \in Sessions : \A f \in Names : (t # s \/ f # "pend") => file'[t][f] = file[t][f]
  BY <1>1, <1>2, <1>3
<1>5. /\ age[s] = 2 => gone'[s] = gone[s] \cup Turns(file[s]["pend"])
      /\ \A t \in Sessions : t # s => gone'[t] = gone[t]
  BY <1>1, <1>2, <1>3
<1>. QED BY <1>1, <1>2, <1>4, <1>5, RemoveHook

LEMMA ArchiveIs ==
    ASSUME TypeInv, PushInv, Archive
    PROVE  /\ UNCHANGED <<asked, stops, script, prompt, order, age, kept, mixed, clash>>
           /\ \A g \in Hooks : Carried(g) /\ (hk[g].into = "tmp" => hk'[g].into = "tmp")
           /\ \/ UNCHANGED <<file, hk, gone>>
              \/ \E s \in Sessions :
                    /\ file'[s]["arch"] = file[s]["pend"] /\ file'[s]["pend"] = NoFile
                    /\ \A t \in Sessions : \A f \in Names : (t # s \/ f \notin {"pend", "arch"}) => file'[t][f] = file[t][f]
                    /\ gone'[s] = gone[s] \cup Turns(file[s]["arch"])
                    /\ \A t \in Sessions : t # s => gone'[t] = gone[t]
<1>1. PICK s \in Sessions : s = push.victim
  BY DEF Archive, PushInv
<1>2. UNCHANGED <<asked, stops, script, prompt, order, age, kept, mixed, clash>>
  BY DEF Archive
<1>3. CASE file[s]["pend"] = NoFile
  BY <1>1, <1>2, <1>3 DEF Archive, Carried
<1>4. CASE file[s]["pend"] # NoFile
  <2>1. /\ file' = Moved(s, "pend", "arch") /\ gone' = [gone EXCEPT ![s] = @ \cup Turns(file[s]["arch"])]
        /\ hk' = Follow(s, "pend", "arch")
    BY <1>1, <1>4 DEF Archive
  <2>2. /\ file'[s]["arch"] = file[s]["pend"] /\ file'[s]["pend"] = NoFile
        /\ \A t \in Sessions : \A f \in Names : (t # s \/ f \notin {"pend", "arch"}) => file'[t][f] = file[t][f]
    BY <2>1, MovedIs DEF Names
  <2>3. gone \in [Sessions -> SUBSET (Nat \X Nat)]
    BY DEF TypeInv
  <2>4. gone'[s] = gone[s] \cup Turns(file[s]["arch"]) /\ \A t \in Sessions : t # s => gone'[t] = gone[t]
    BY <2>1, <2>3
  <2>. QED BY <1>2, <2>1, <2>2, <2>4, ArchiveHooks
<1>. QED BY <1>3, <1>4

(* A step of the push that is not Archive leaves the capture alone.        *)
LEMMA PushStepIs == ASSUME PushStep PROVE Archive \/ UNCHANGED captureVars
BY DEF PushStep, Call, GuardList, GuardStat, GuardRead, GuardDone, Direct, Link, Sent, MostRecent, Buffers

LEMMA StepIs ==
    ASSUME DistillNext
    PROVE  \/ Remember /\ UNCHANGED pushVars /\ SessionStep
           \/ /\ Remember /\ UNCHANGED pushVars
              /\ \E g \in Hooks : \/ Calm(g) \/ AppendLine(g) \/ CreateTmp(g) \/ FlushTmp(g)
                                  \/ RenameTmp(g) \/ PruneRemove(g)
           \/ PushStep /\ Archive
           \/ PushStep /\ UNCHANGED captureVars
BY PushStepIs DEF DistillNext, CaptureStep, HookStep, Calm, SessionStep

-----------------------------------------------------------------------------
(* Who is alone *)

LEMMA TwoRun ==
    ASSUME NEW A, A \subseteq Hooks, NEW g \in A, NEW h \in A, g # h
    PROVE  Cardinality(A) > 1
<1>1. Cardinality(A \ {g}) = Cardinality(A) - 1 /\ Cardinality(A) \in Nat
  BY Counting
<1>2. h \in A \ {g} /\ A \ {g} \subseteq Hooks
  OBVIOUS
<1>3. Cardinality(A \ {g}) >= 1 /\ Cardinality(A \ {g}) \in Nat
  BY Zenon, <1>2, Counting
<1>. QED BY <1>1, <1>3

LEMMA Remembered ==
    ASSUME Remember
    PROVE  /\ mixed \subseteq mixed' /\ clash \subseteq clash' /\ Apart'
           /\ \A s \in Sessions \ mixed' : asked'[s] # asked[s] => Running(s) = {}
<1>1. mixed \subseteq mixed' /\ clash \subseteq clash'
  BY DEF Remember
<1>2. ASSUME NEW s \in Sessions, s \notin clash' PROVE ~Clashing(s)'
  BY <1>2 DEF Remember
<1>3. ASSUME NEW s \in Sessions, s \notin mixed' PROVE \A g, h \in Running(s)' : g = h
  <2>1. ~(Cardinality(Running(s)') > 1)
    BY <1>3 DEF Remember
  <2>2. Running(s)' \subseteq Hooks
    BY DEF Running
  <2>. QED BY <2>1, <2>2, TwoRun
<1>4. Apart'
  BY <1>2, <1>3 DEF Apart
<1>5. \A s \in Sessions \ mixed' : asked'[s] # asked[s] => Running(s) = {}
  BY DEF Remember
<1>. QED BY <1>1, <1>4, <1>5

LEMMA ApartCarried ==
    ASSUME Apart, \A g \in Hooks : Carried(g), UNCHANGED <<mixed, clash>>
    PROVE  Apart'
<1>1. \A s \in Sessions : Running(s)' = Running(s)
  BY DEF Running, Carried
<1>2. \A s \in Sessions : Clashing(s)' => Clashing(s)
  BY <1>1 DEF Clashing, Carried, Running
<1>. QED BY <1>1, <1>2 DEF Apart

LEMMA ApartStep ==
    ASSUME TypeInv, PushInv, Apart, DistillNext
    PROVE  Apart' /\ mixed \subseteq mixed' /\ clash \subseteq clash'
<1>1. CASE Remember
  BY <1>1, Remembered
<1>2. CASE Archive
  BY <1>2, ArchiveIs, ApartCarried
<1>3. CASE UNCHANGED captureVars
  <2>1. hk' = hk /\ mixed' = mixed /\ clash' = clash
    BY <1>3 DEF captureVars
  <2>. QED BY <2>1, ApartCarried DEF Carried
<1>. QED BY <1>1, <1>2, <1>3, StepIs

(* A hook that rewrites meets no other that writes, unless the session has *)
(* clashed and its hooks have run at one time.                             *)
LEMMA Alone ==
    ASSUME TypeInv, Apart, NEW g \in Hooks, NEW h \in Hooks, g # h, hk[g].s = hk[h].s,
           hk[g].at \in Rewriting, hk[h].at \in Writing, NEW s, s = hk[g].s
    PROVE  s \in clash /\ s \in mixed
<1>1. s \in Sessions
  BY DEF TypeInv, HookOK, Rewriting, Writing
<1>2. g \in Running(s) /\ h \in Running(s)
  BY DEF Running, Rewriting, Writing
<1>3. Clashing(s)
  BY <1>2 DEF Clashing
<1>. QED BY <1>1, <1>2, <1>3 DEF Apart

(* A buffer that is removed has no writer, unless its session has clashed. *)
LEMMA RemoverAlone ==
    ASSUME TypeInv, Apart, NEW g \in Hooks, NEW h \in Hooks, hk[g].at \in Writing,
           hk[h].at = "remove", hk[h].victim = hk[g].s, NEW s, s = hk[g].s
    PROVE  s \in clash
<1>1. s \in Sessions
  BY DEF TypeInv, HookOK, Writing
<1>2. g \in Running(s)
  BY DEF Running, Writing
<1>3. Clashing(s)
  BY <1>2 DEF Clashing
<1>. QED BY <1>1, <1>3 DEF Apart

-----------------------------------------------------------------------------
(* The temporary file *)

LEMMA ShortenedSame ==
    ASSUME NEW h \in Hooks, hk'[h].seen = hk[h].seen, hk'[h].user = hk[h].user, hk'[h].ex = hk[h].ex
    PROVE  Shortened(h)' = Shortened(h)
BY DEF Shortened, Record

LEMMA RewriteOthers ==
    ASSUME TypeInv, Apart, RewriteInv, clash \subseteq clash', mixed \subseteq mixed', NEW g \in Hooks,
           \A h \in Hooks \ {g} :
              /\ Carried(h)
              /\ \/ /\ hk[h].into = "tmp" => hk'[h].into = "tmp"
                    /\ hk[h].s \in Sessions => file'[hk[h].s]["tmp"] = file[hk[h].s]["tmp"]
                 \/ hk[g].at \in Writing /\ hk[h].s = hk[g].s,
           RewriteOK(g)'
    PROVE  RewriteInv'
<1>1. ASSUME NEW h \in Hooks \ {g}, hk[h].at \in Rewriting,
             ~(hk[h].s \in clash' /\ hk[h].s \in mixed')
      PROVE  /\ hk[h].at = "flush" => hk'[h].into = "tmp" /\ file'[hk[h].s]["tmp"] = << >>
             /\ hk[h].at = "rename" => file'[hk[h].s]["tmp"] = Shortened(h)
  <2>1. RewriteOK(h) /\ ~(hk[h].s \in clash /\ hk[h].s \in mixed) /\ hk[h].s \in Sessions
    BY Zenon, <1>1 DEF RewriteInv, TypeInv, HookOK, Rewriting, Writing
  <2>2. ~(hk[g].at \in Writing /\ hk[h].s = hk[g].s)
    BY <1>1, <2>1, Alone
  <2>3. hk[h].into = "tmp" => hk'[h].into = "tmp"
    BY <1>1, <2>2
  <2>4. file'[hk[h].s]["tmp"] = file[hk[h].s]["tmp"]
    BY <1>1, <2>1, <2>2
  <2>. QED BY <1>1, <2>1, <2>3, <2>4 DEF RewriteOK
<1>2. ASSUME NEW h \in Hooks \ {g} PROVE RewriteOK(h)'
  <2>1. /\ hk'[h].at = hk[h].at /\ hk'[h].s = hk[h].s /\ Shortened(h)' = Shortened(h)
    BY ShortenedSame DEF Carried
  <2>2. PICK s : s = hk[h].s
    OBVIOUS
  <2>3. /\ hk'[h].at \in Rewriting /\ ~(s \in clash' /\ s \in mixed') =>
              /\ hk'[h].at = "flush" => hk'[h].into = "tmp" /\ file'[s]["tmp"] = << >>
              /\ hk'[h].at = "rename" => file'[s]["tmp"] = Shortened(h)'
    BY <1>1, <2>1, <2>2
  <2>. QED BY <2>1, <2>2, <2>3 DEF RewriteOK
<1>. QED BY <1>2 DEF RewriteInv

LEMMA RewriteFree == ASSUME NEW g \in Hooks, hk'[g].at \notin {"flush", "rename"} PROVE RewriteOK(g)'
BY DEF RewriteOK

LEMMA RewriteStep ==
    ASSUME TypeInv, PushInv, Apart, RewriteInv, DistillNext
    PROVE  RewriteInv'
<1>1. clash \subseteq clash' /\ mixed \subseteq mixed'
  BY ApartStep
<1>2. CASE SessionStep
  <2>1. ASSUME NEW h \in Hooks PROVE RewriteOK(h)'
    <3>1. file' = file
      BY <1>2, SessionStepIs
    <3>2. CASE hk'[h] = hk[h] /\ Carried(h)
      <4>1. RewriteOK(h) /\ Shortened(h)' = Shortened(h)
        BY <3>2, ShortenedSame DEF RewriteInv
      <4>2. PICK s : s = hk[h].s
        OBVIOUS
      <4>. QED BY <1>1, <3>1, <3>2, <4>1, <4>2 DEF RewriteOK
    <3>3. CASE hk'[h].at \in {"stash", "take", "transcript"}
      BY <3>3, RewriteFree
    <3>. QED BY <1>2, <3>2, <3>3, SessionStepIs
  <2>. QED BY <2>1 DEF RewriteInv
<1>3. ASSUME NEW g \in Hooks, Calm(g) PROVE RewriteInv'
  <2>1. file' = file /\ Others(g) /\ hk'[g].at \notin {"flush", "rename"} /\ \A h \in Hooks \ {g} : Carried(h)
    BY <1>3, CalmIs
  <2>2. RewriteOK(g)'
    BY <2>1, RewriteFree
  <2>. QED BY <1>1, <2>1, <2>2, RewriteOthers DEF Others
<1>4. ASSUME NEW g \in Hooks, AppendLine(g) PROVE RewriteInv'
  <2>1. PICK s : s = hk[g].s
    OBVIOUS
  <2>2. /\ Others(g) /\ hk'[g].at = "prune" /\ \A h \in Hooks \ {g} : Carried(h)
        /\ \A t \in Sessions : file'[t]["tmp"] = file[t]["tmp"]
    BY <1>4, <2>1, AppendIs DEF Names
  <2>3. RewriteOK(g)'
    BY <2>2, RewriteFree
  <2>. QED BY <1>1, <2>2, <2>3, RewriteOthers DEF Others
<1>5. ASSUME NEW g \in Hooks, CreateTmp(g) PROVE RewriteInv'
  <2>1. PICK s : s = hk[g].s
    OBVIOUS
  <2>2. /\ Others(g) /\ hk[g].at = "create" /\ hk'[g].at = "flush" /\ hk'[g].s = s /\ hk'[g].into = "tmp" /\ \A h \in Hooks \ {g} : Carried(h)
        /\ file'[s]["tmp"] = << >>
        /\ \A t \in Sessions : t # s => file'[t]["tmp"] = file[t]["tmp"]
    BY <1>5, <2>1, CreateIs DEF Names
  <2>3. RewriteOK(g)'
    BY <2>2 DEF RewriteOK
  <2>4. hk[g].at \in Writing
    BY <2>2 DEF Writing
  <2>. QED BY <1>1, <2>1, <2>2, <2>3, <2>4, RewriteOthers DEF Others
<1>6. ASSUME NEW g \in Hooks, FlushTmp(g) PROVE RewriteInv'
  <2>1. PICK s : s = hk[g].s
    OBVIOUS
  <2>2. /\ Others(g) /\ s \in Sessions /\ hk[g].at = "flush" /\ hk'[g].at = "rename" /\ hk'[g].s = s /\ \A h \in Hooks \ {g} : Carried(h)
        /\ hk'[g].ex = hk[g].ex /\ hk'[g].user = hk[g].user /\ hk'[g].seen = hk[g].seen
        /\ \A t \in Sessions : t # s => file'[t]["tmp"] = file[t]["tmp"]
        /\ hk[g].into = "tmp" => file'[s]["tmp"] = Overlay(file[s]["tmp"], Shortened(g))
    BY <1>6, <2>1, FlushIs DEF Names
  <2>3. hk[g].at \in Writing /\ hk[g].at \in Rewriting
    BY <2>2 DEF Writing, Rewriting
  <2>4. ASSUME ~(s \in clash' /\ s \in mixed') PROVE file'[s]["tmp"] = Shortened(g)
    <3>1. hk[g].into = "tmp" /\ file[s]["tmp"] = << >>
      BY <1>1, <2>1, <2>2, <2>3, <2>4 DEF RewriteInv, RewriteOK
    <3>2. hk[g].seen \in Seq(Rec) /\ Record(g) \in Rec /\ Shortened(g) = Short(hk[g].seen, Record(g)) /\ Len(hk[g].seen) >= MaxTurns
      BY <2>3, RecordIs, ShortenedIs
    <3>3. Shortened(g) \in Seq(Rec)
      BY <3>2, ShortIs
    <3>4. Recs(file[s]["tmp"]) = << >> /\ file[s]["tmp"] \in Contents
      <4>1. file[s]["tmp"] \in Seq(Rec)
        BY <3>1
      <4>. QED BY <3>1, <4>1, RecsOf
    <3>5. Overlay(file[s]["tmp"], Shortened(g)) = Shortened(g)
      BY <3>3, <3>4, OverlayIs
    <3>. QED BY <2>2, <3>1, <3>5
  <2>5. RewriteOK(g)'
    <3>1. Shortened(g)' = Shortened(g)
      BY <2>2, ShortenedSame
    <3>. QED BY <2>2, <2>4, <3>1 DEF RewriteOK
  <2>. QED BY <1>1, <2>1, <2>2, <2>3, <2>5, RewriteOthers DEF Others
<1>7. ASSUME NEW g \in Hooks, RenameTmp(g) PROVE RewriteInv'
  <2>1. PICK s : s = hk[g].s
    OBVIOUS
  <2>2. CASE file[s]["tmp"] = NoFile
    <3>1. Others(g) /\ hk'[g].at = "free" /\ file' = file /\ \A h \in Hooks \ {g} : Carried(h)
      BY <1>7, <2>1, <2>2, RenameFails
    <3>2. RewriteOK(g)'
      BY <3>1, RewriteFree
    <3>. QED BY <1>1, <3>1, <3>2, RewriteOthers DEF Others
  <2>3. CASE file[s]["tmp"] # NoFile
    <3>1. /\ hk[g].at = "rename" /\ hk'[g].at = "prune" /\ \A h \in Hooks \ {g} : Carried(h) /\ (hk[h].s # s => hk'[h] = hk[h])
          /\ \A t \in Sessions : t # s => file'[t]["tmp"] = file[t]["tmp"]
      BY <1>7, <2>1, <2>3, RenameIs DEF Names
    <3>2. RewriteOK(g)' /\ hk[g].at \in Writing
      BY <3>1, RewriteFree DEF Writing
    <3>. QED BY <1>1, <2>1, <3>1, <3>2, RewriteOthers
  <2>. QED BY <2>2, <2>3
<1>8. ASSUME NEW g \in Hooks, PruneRemove(g) PROVE RewriteInv'
  <2>1. PICK s : s = hk[g].victim
    OBVIOUS
  <2>2. /\ hk'[g].at = "prune" /\ \A h \in Hooks \ {g} : Carried(h) /\ (hk[h].into = "tmp" => hk'[h].into = "tmp")
        /\ \A t \in Sessions : file'[t]["tmp"] = file[t]["tmp"]
    BY <1>8, <2>1, RemoveIs DEF Names
  <2>3. RewriteOK(g)'
    BY <2>2, RewriteFree
  <2>. QED BY <1>1, <2>2, <2>3, RewriteOthers
<1>9. CASE Archive
  <2>1. /\ \A g \in Hooks : Carried(g) /\ (hk[g].into = "tmp" => hk'[g].into = "tmp")
        /\ \A t \in Sessions : file'[t]["tmp"] = file[t]["tmp"]
    BY <1>9, ArchiveIs DEF Names
  <2>2. ASSUME NEW h \in Hooks PROVE RewriteOK(h)'
    <3>1. RewriteOK(h) /\ Shortened(h)' = Shortened(h)
      BY <2>1, ShortenedSame DEF RewriteInv, Carried
    <3>2. PICK s : s = hk[h].s
      OBVIOUS
    <3>3. hk[h].at \in Rewriting => s \in Sessions
      BY <3>2 DEF TypeInv, HookOK, Rewriting, Writing
    <3>. QED BY <1>1, <2>1, <3>1, <3>2, <3>3 DEF RewriteOK, Carried
  <2>. QED BY <2>2 DEF RewriteInv
<1>10. CASE UNCHANGED captureVars
  BY Zenon, <1>10 DEF captureVars, RewriteInv, RewriteOK, Shortened, Record
<1>. QED BY <1>2, <1>3, <1>4, <1>5, <1>6, <1>7, <1>8, <1>9, <1>10, StepIs

-----------------------------------------------------------------------------
(* What is not lost *)

SafeIn(s) == kept[s] \subseteq InBuffer(s, "pend") \cup InBuffer(s, "arch") \cup gone[s]

LEMMA LossCarried ==
    ASSUME NEW h \in Hooks, LossOK(h), Carried(h), clash \subseteq clash',
           \A s : s = hk[h].s /\ hk[h].at \in Rewriting /\ s \notin clash' => Turns(file'[s]["pend"]) \subseteq Turns(file[s]["pend"]),
           \A v : v = hk[h].victim /\ hk[h].at = "remove" /\ v \notin clash' => age'[v] = age[v]
    PROVE  LossOK(h)'
<1>1. PICK s : s = hk[h].s
  OBVIOUS
<1>2. PICK v : v = hk[h].victim
  OBVIOUS
<1>3. hk'[h].at = hk[h].at /\ hk'[h].s = s /\ hk'[h].victim = v /\ hk'[h].seen = hk[h].seen
  BY <1>1, <1>2 DEF Carried
<1>4. hk[h].at \in Rewriting /\ s \notin clash' => Turns(file'[s]["pend"]) \subseteq Turns(hk[h].seen)
  BY <1>1 DEF LossOK
<1>5. hk[h].at = "remove" /\ v \notin clash' => age'[v] = 2
  BY <1>2 DEF LossOK
<1>. QED BY <1>3, <1>4, <1>5 DEF LossOK, Turns, Recs

LEMMA LossFree == ASSUME NEW g \in Hooks, hk'[g].at \notin Rewriting \cup {"remove"} PROVE LossOK(g)'
BY DEF LossOK

LEMMA SafeSame ==
    ASSUME NEW s, SafeIn(s), kept'[s] = kept[s], gone'[s] = gone[s],
           file'[s]["pend"] = file[s]["pend"], file'[s]["arch"] = file[s]["arch"]
    PROVE  SafeIn(s)'
BY DEF SafeIn, InBuffer, Turns, Recs

LEMMA SafeSessions ==
    ASSUME LossInv, clash \subseteq clash', \A s \in Sessions : s \notin clash' /\ SafeIn(s) => SafeIn(s)'
    PROVE  NothingLost'
BY DEF LossInv, NothingLost, SafeIn

(* A writer's turn is in the buffer, or dropped as the oldest.             *)
LEMMA AppendLoss ==
    ASSUME TypeInv, Apart, LossInv, Apart', clash \subseteq clash', NEW g \in Hooks, AppendLine(g)
    PROVE  LossInv'
<1>1. PICK s : s = hk[g].s
  OBVIOUS
<1>2. /\ s \in Sessions /\ hk[g].at = "append" /\ hk'[g].at = "prune" /\ \A h \in Hooks \ {g} : Carried(h)
      /\ file'[s]["pend"] = Append(Recs(file[s]["pend"]), Record(g))
      /\ \A t \in Sessions : \A f \in Names : (t # s \/ f # "pend") => file'[t][f] = file[t][f]
      /\ kept'[s] = kept[s] \cup {<<hk[g].user, hk[g].ex>>} /\ gone' = gone
      /\ \A t \in Sessions : t # s => kept'[t] = kept[t] /\ age'[t] = age[t]
  BY <1>1, AppendIs
<1>3. hk[g].at \in Writing
  BY <1>2 DEF Writing
<1>4. /\ Record(g) \in Rec /\ Record(g)[3] # 0 /\ Record(g)[2] = hk[g].user /\ Record(g)[3] = hk[g].ex
  BY <1>3, RecordIs
<1>5. Turns(file[s]["pend"]) \cup {<<hk[g].user, hk[g].ex>>} \subseteq Turns(file'[s]["pend"])
  BY <1>2, <1>4, TurnsAppended, ContentsType DEF Names
<1>6. SafeIn(s) => SafeIn(s)'
  <2>1. file'[s]["arch"] = file[s]["arch"] /\ gone'[s] = gone[s]
    BY <1>2 DEF Names
  <2>. QED BY <1>2, <1>5, <2>1 DEF SafeIn, InBuffer, Turns, Recs
<1>7. NothingLost'
  <2>1. ASSUME NEW t \in Sessions, t # s PROVE SafeIn(t) => SafeIn(t)'
    BY <1>2, <2>1, SafeSame DEF Names
  <2>. QED BY <1>6, <2>1, SafeSessions
<1>8. ASSUME NEW h \in Hooks \ {g} PROVE LossOK(h)'
  <2>1. ASSUME NEW t, t = hk[h].s, hk[h].at \in Rewriting, t \notin clash'
        PROVE  Turns(file'[t]["pend"]) \subseteq Turns(file[t]["pend"])
    <3>1. t # s
      BY <1>1, <1>3, <2>1, Alone
    <3>2. t \in Sessions
      BY <2>1 DEF TypeInv, HookOK, Rewriting, Writing
    <3>. QED BY <1>2, <3>1, <3>2 DEF Names
  <2>2. ASSUME NEW v, v = hk[h].victim, hk[h].at = "remove", v \notin clash' PROVE age'[v] = age[v]
    <3>1. v # s
      BY <1>1, <1>3, <2>2, RemoverAlone
    <3>2. v \in Sessions
      BY <2>2 DEF TypeInv, HookOK
    <3>. QED BY <1>2, <3>1, <3>2
  <2>. QED BY <1>2, <2>1, <2>2, LossCarried DEF LossInv
<1>9. LossOK(g)'
  BY <1>2, LossFree DEF Rewriting, Writing
<1>. QED BY <1>7, <1>8, <1>9 DEF LossInv

LEMMA RenameLoss ==
    ASSUME TypeInv, Apart, RewriteInv, LossInv, clash \subseteq clash', NEW g \in Hooks, RenameTmp(g),
           NEW s, s = hk[g].s, file[s]["tmp"] # NoFile
    PROVE  LossInv'
<1>1. /\ s \in Sessions /\ hk[g].at = "rename" /\ hk'[g].at = "prune" /\ \A h \in Hooks \ {g} : Carried(h)
      /\ file'[s]["pend"] = file[s]["tmp"]
      /\ \A t \in Sessions : \A f \in Names : (t # s \/ f \notin {"tmp", "pend"}) => file'[t][f] = file[t][f]
      /\ kept'[s] = kept[s] \cup {<<hk[g].user, hk[g].ex>>} /\ gone'[s] = gone[s] \cup Dropped(g)
      /\ \A t \in Sessions : t # s => kept'[t] = kept[t] /\ gone'[t] = gone[t] /\ age'[t] = age[t]
  BY RenameIs
<1>2. hk[g].at \in Writing /\ hk[g].at \in Rewriting
  BY <1>1 DEF Writing, Rewriting
<1>3. ASSUME s \notin clash' PROVE SafeIn(s) => SafeIn(s)'
  <2>1. file[s]["tmp"] = Shortened(g) /\ Turns(file[s]["pend"]) \subseteq Turns(hk[g].seen)
    BY Zenon, <1>1, <1>2, <1>3 DEF RewriteInv, RewriteOK, LossInv, LossOK
  <2>2. /\ Record(g) \in Rec /\ Record(g)[3] # 0 /\ Record(g)[2] = hk[g].user /\ Record(g)[3] = hk[g].ex
        /\ hk[g].seen \in Seq(Rec) /\ Shortened(g) = Short(hk[g].seen, Record(g)) /\ Len(hk[g].seen) >= MaxTurns
    BY <1>2, RecordIs, ShortenedIs
  <2>3. /\ Turns(hk[g].seen) \subseteq Dropped(g) \cup Turns(Shortened(g))
        /\ <<hk[g].user, hk[g].ex>> \in Turns(Shortened(g))
    BY <2>2, TurnsShort DEF Dropped
  <2>4. Turns(file[s]["pend"]) \cup {<<hk[g].user, hk[g].ex>>} \subseteq Dropped(g) \cup Turns(file'[s]["pend"])
    BY <1>1, <2>1, <2>3
  <2>5. file'[s]["arch"] = file[s]["arch"]
    BY <1>1 DEF Names
  <2>. QED BY <1>1, <2>4, <2>5 DEF SafeIn, InBuffer
<1>4. NothingLost'
  <2>1. ASSUME NEW t \in Sessions, t # s PROVE SafeIn(t) => SafeIn(t)'
    BY <1>1, <2>1, SafeSame DEF Names
  <2>. QED BY <1>3, <2>1, SafeSessions
<1>5. ASSUME NEW h \in Hooks \ {g} PROVE LossOK(h)'
  <2>1. ASSUME NEW t, t = hk[h].s, hk[h].at \in Rewriting, t \notin clash'
        PROVE  Turns(file'[t]["pend"]) \subseteq Turns(file[t]["pend"])
    <3>1. t # s
      BY <1>2, <2>1, Alone
    <3>2. t \in Sessions
      BY <2>1 DEF TypeInv, HookOK, Rewriting, Writing
    <3>. QED BY <1>1, <3>1, <3>2 DEF Names
  <2>2. ASSUME NEW v, v = hk[h].victim, hk[h].at = "remove", v \notin clash' PROVE age'[v] = age[v]
    <3>1. v # s
      BY <1>2, <2>2, RemoverAlone
    <3>2. v \in Sessions
      BY <2>2 DEF TypeInv, HookOK
    <3>. QED BY <1>1, <3>1, <3>2
  <2>. QED BY <1>1, <2>1, <2>2, LossCarried DEF LossInv
<1>6. LossOK(g)'
  BY <1>1, LossFree DEF Rewriting, Writing
<1>. QED BY <1>4, <1>5, <1>6 DEF LossInv

LEMMA RemoveLoss ==
    ASSUME TypeInv, Apart, LossInv, clash \subseteq clash', NEW g \in Hooks, PruneRemove(g)
    PROVE  LossInv'
<1>1. PICK s : s = hk[g].victim
  OBVIOUS
<1>2. /\ s \in Sessions /\ hk[g].at = "remove" /\ hk'[g].at = "prune"
      /\ \A h \in Hooks \ {g} : Carried(h)
      /\ age' = age /\ kept' = kept /\ file'[s]["pend"] = NoFile
      /\ \A t \in Sessions : \A f \in Names : (t # s \/ f # "pend") => file'[t][f] = file[t][f]
      /\ age[s] = 2 => gone'[s] = gone[s] \cup Turns(file[s]["pend"])
      /\ \A t \in Sessions : t # s => gone'[t] = gone[t]
  BY <1>1, RemoveIs
<1>3. ASSUME s \notin clash' PROVE SafeIn(s) => SafeIn(s)'
  <2>1. age[s] = 2
    BY <1>1, <1>2, <1>3 DEF LossInv, LossOK
  <2>2. file'[s]["arch"] = file[s]["arch"]
    BY <1>2 DEF Names
  <2>. QED BY <1>2, <2>1, <2>2 DEF SafeIn, InBuffer, Turns, Recs
<1>4. NothingLost'
  <2>1. ASSUME NEW t \in Sessions, t # s PROVE SafeIn(t) => SafeIn(t)'
    BY <1>2, <2>1, SafeSame DEF Names
  <2>. QED BY <1>3, <2>1, SafeSessions
<1>5. ASSUME NEW h \in Hooks \ {g} PROVE LossOK(h)'
  <2>1. ASSUME NEW t, t = hk[h].s, hk[h].at \in Rewriting, t \notin clash'
        PROVE  Turns(file'[t]["pend"]) \subseteq Turns(file[t]["pend"])
    <3>1. t \in Sessions
      BY <2>1 DEF TypeInv, HookOK, Rewriting, Writing
    <3>2. t = s => Turns(file'[t]["pend"]) = {}
      BY <1>2, TurnsNone
    <3>3. t # s => file'[t]["pend"] = file[t]["pend"]
      BY <1>2, <3>1 DEF Names
    <3>. QED BY <3>2, <3>3
  <2>. QED BY <1>2, <2>1, LossCarried DEF LossInv
<1>6. LossOK(g)'
  BY <1>2, LossFree DEF Rewriting, Writing
<1>. QED BY <1>4, <1>5, <1>6 DEF LossInv

LEMMA ArchiveLoss ==
    ASSUME TypeInv, PushInv, LossInv, Archive
    PROVE  LossInv'
<1>1. /\ age' = age /\ kept' = kept /\ clash' = clash /\ \A g \in Hooks : Carried(g)
      /\ \/ UNCHANGED <<file, hk, gone>>
         \/ \E s \in Sessions :
               /\ file'[s]["arch"] = file[s]["pend"] /\ file'[s]["pend"] = NoFile
               /\ \A t \in Sessions : \A f \in Names : (t # s \/ f \notin {"pend", "arch"}) => file'[t][f] = file[t][f]
               /\ gone'[s] = gone[s] \cup Turns(file[s]["arch"])
               /\ \A t \in Sessions : t # s => gone'[t] = gone[t]
  BY ArchiveIs
<1>2. CASE UNCHANGED <<file, hk, gone>>
  BY <1>1, <1>2 DEF LossInv, NothingLost, InBuffer, Turns, Recs, LossOK
<1>3. ASSUME NEW s \in Sessions,
             file'[s]["arch"] = file[s]["pend"], file'[s]["pend"] = NoFile,
             \A t \in Sessions : \A f \in Names : (t # s \/ f \notin {"pend", "arch"}) => file'[t][f] = file[t][f],
             gone'[s] = gone[s] \cup Turns(file[s]["arch"]),
             \A t \in Sessions : t # s => gone'[t] = gone[t]
      PROVE  LossInv'
  <2>1. SafeIn(s) => SafeIn(s)'
    BY <1>1, <1>3 DEF SafeIn, InBuffer, Turns, Recs
  <2>2. NothingLost'
    <3>1. ASSUME NEW t \in Sessions, t # s PROVE SafeIn(t) => SafeIn(t)'
      BY <1>1, <1>3, <3>1, SafeSame DEF Names
    <3>. QED BY <1>1, <2>1, <3>1, SafeSessions
  <2>3. ASSUME NEW h \in Hooks PROVE LossOK(h)'
    <3>1. ASSUME NEW t, t = hk[h].s, hk[h].at \in Rewriting, t \notin clash'
          PROVE  Turns(file'[t]["pend"]) \subseteq Turns(file[t]["pend"])
      <4>1. t \in Sessions
        BY Zenon, <3>1 DEF TypeInv, HookOK, Rewriting, Writing
      <4>2. t = s => Turns(file'[t]["pend"]) = {}
        BY <1>3, TurnsNone
      <4>3. t # s => file'[t]["pend"] = file[t]["pend"]
        BY <1>3, <4>1 DEF Names
      <4>. QED BY <4>2, <4>3
    <3>. QED BY <1>1, <3>1, LossCarried DEF LossInv
  <2>. QED BY <2>2, <2>3 DEF LossInv
<1>. QED BY <1>1, <1>2, <1>3

LEMMA CalmLoss ==
    ASSUME TypeInv, LossInv, clash \subseteq clash', NEW g \in Hooks, Calm(g)
    PROVE  LossInv'
<1>1. /\ UNCHANGED <<file, age, kept, gone>> /\ \A h \in Hooks \ {g} : Carried(h)
      /\ hk'[g].at \in Writing => Records(g)
      /\ hk'[g].at = "remove" => age[hk'[g].victim] = 2
  BY CalmIs
<1>2. NothingLost'
  BY <1>1 DEF LossInv, NothingLost, InBuffer, Turns, Recs
<1>3. \A h \in Hooks \ {g} : LossOK(h)'
  BY <1>1, LossCarried DEF LossInv
<1>4. LossOK(g)'
  <2>1. CASE Records(g)
    <3>1. PICK s : s = hk[g].s
      OBVIOUS
    <3>2. hk'[g].at \in {"append", "create"} /\ hk'[g].s = s /\ hk'[g].seen = Recs(file[s]["pend"]) /\ s \in Sessions
      BY Zenon, <2>1, <3>1, RecordsHook DEF TypeInv, HookOK
    <3>3. Turns(hk'[g].seen) = Turns(file'[s]["pend"])
      BY <1>1, <3>2, ContentsType DEF Names
    <3>. QED BY <3>2, <3>3 DEF LossOK, Turns, Recs
  <2>2. CASE ~Records(g)
    BY <1>1, <2>2 DEF LossOK, Rewriting, Writing
  <2>. QED BY <2>1, <2>2
<1>. QED BY <1>2, <1>3, <1>4 DEF LossInv

LEMMA LossStep ==
    ASSUME TypeInv, PushInv, Apart, RewriteInv, LossInv, DistillNext
    PROVE  LossInv'
<1>1. clash \subseteq clash' /\ Apart'
  BY ApartStep
<1>2. CASE SessionStep
  <2>1. /\ UNCHANGED <<file, kept, gone>>
        /\ \A h \in Hooks : \/ hk'[h] = hk[h] /\ Carried(h)
                            \/ hk[h].at = "free" /\ hk'[h].at \in {"stash", "take", "transcript"}
        /\ \A s \in Sessions : age[s] = 2 => age'[s] = 2
    BY <1>2, SessionStepIs
  <2>2. NothingLost'
    BY <1>1, <2>1 DEF LossInv, NothingLost, InBuffer, Turns, Recs
  <2>3. ASSUME NEW h \in Hooks PROVE LossOK(h)'
    <3>1. CASE hk'[h] = hk[h]
      <4>1. hk[h].at = "remove" => hk[h].victim \in Sessions
        BY DEF TypeInv, HookOK
      <4>2. LossOK(h)
        BY DEF LossInv
      <4>. QED BY <1>1, <2>1, <3>1, <4>1, <4>2 DEF LossOK, Turns, Recs
    <3>2. CASE hk'[h].at \in {"stash", "take", "transcript"}
      BY <3>2, LossFree DEF Rewriting, Writing
    <3>. QED BY <2>1, <3>1, <3>2
  <2>. QED BY <2>2, <2>3 DEF LossInv
<1>3. ASSUME NEW g \in Hooks, CreateTmp(g) PROVE LossInv'
  <2>1. PICK s : s = hk[g].s
    OBVIOUS
  <2>2. /\ s \in Sessions /\ hk[g].at = "create" /\ hk'[g].at = "flush" /\ hk'[g].s = s /\ hk'[g].seen = hk[g].seen
        /\ \A h \in Hooks \ {g} : Carried(h)
        /\ UNCHANGED <<age, kept, gone>>
        /\ \A t \in Sessions : file'[t]["pend"] = file[t]["pend"] /\ file'[t]["arch"] = file[t]["arch"]
    BY <1>3, <2>1, CreateIs DEF Names
  <2>3. NothingLost'
    BY <1>1, <2>2, SafeSame, SafeSessions
  <2>4. ASSUME NEW h \in Hooks \ {g} PROVE LossOK(h)'
    <3>1. hk[h].at \in Rewriting => hk[h].s \in Sessions
      BY DEF TypeInv, HookOK, Rewriting, Writing
    <3>. QED BY <1>1, <2>2, <3>1, LossCarried DEF LossInv
  <2>5. LossOK(g)'
    BY <1>1, <2>1, <2>2 DEF LossInv, LossOK, Rewriting, Writing, Turns, Recs
  <2>. QED BY <2>3, <2>4, <2>5 DEF LossInv
<1>4. ASSUME NEW g \in Hooks, FlushTmp(g) PROVE LossInv'
  <2>1. PICK s : s = hk[g].s
    OBVIOUS
  <2>2. /\ s \in Sessions /\ hk[g].at = "flush" /\ hk'[g].at = "rename" /\ hk'[g].s = s /\ hk'[g].seen = hk[g].seen
        /\ \A h \in Hooks \ {g} : Carried(h)
        /\ UNCHANGED <<age, kept, gone>>
        /\ \A t \in Sessions : t # s => file'[t]["pend"] = file[t]["pend"] /\ file'[t]["arch"] = file[t]["arch"]
        /\ hk[g].into = "tmp" => file'[s]["pend"] = file[s]["pend"] /\ file'[s]["arch"] = file[s]["arch"]
    BY <1>4, <2>1, FlushIs DEF Names
  <2>3. s \notin clash' => hk[g].into = "tmp"
    BY <1>1, <2>1, <2>2 DEF RewriteInv, RewriteOK, Rewriting, Writing
  <2>4. NothingLost'
    BY <1>1, <2>2, <2>3, SafeSame, SafeSessions
  <2>5. ASSUME NEW h \in Hooks \ {g} PROVE LossOK(h)'
    <3>1. hk[h].at \in Rewriting => hk[h].s \in Sessions
      BY DEF TypeInv, HookOK, Rewriting, Writing
    <3>. QED BY <1>1, <2>2, <2>3, <3>1, LossCarried DEF LossInv
  <2>6. LossOK(g)'
    BY <1>1, <2>1, <2>2, <2>3 DEF LossInv, LossOK, Rewriting, Writing, Turns, Recs
  <2>. QED BY <2>4, <2>5, <2>6 DEF LossInv
<1>5. ASSUME NEW g \in Hooks, RenameTmp(g) PROVE LossInv'
  <2>1. PICK s : s = hk[g].s
    OBVIOUS
  <2>2. CASE file[s]["tmp"] = NoFile
    <3>1. hk'[g].at = "free" /\ UNCHANGED <<file, age, kept, gone>> /\ \A h \in Hooks \ {g} : Carried(h)
      BY <1>5, <2>1, <2>2, RenameFails
    <3>2. NothingLost'
      BY <1>1, <3>1 DEF LossInv, NothingLost, InBuffer, Turns, Recs
    <3>3. \A h \in Hooks \ {g} : LossOK(h)'
      BY <1>1, <3>1, LossCarried DEF LossInv
    <3>4. LossOK(g)'
      BY <3>1, LossFree DEF Rewriting, Writing
    <3>. QED BY <3>2, <3>3, <3>4 DEF LossInv
  <2>3. CASE file[s]["tmp"] # NoFile
    BY <1>1, <1>5, <2>1, <2>3, RenameLoss
  <2>. QED BY <2>2, <2>3
<1>6. CASE UNCHANGED captureVars
  <2>1. UNCHANGED <<file, hk, age, kept, gone, clash>>
    BY <1>6 DEF captureVars
  <2>. QED BY <2>1 DEF LossInv, NothingLost, InBuffer, LossOK, Turns, Recs
<1>. QED BY <1>1, <1>2, <1>3, <1>4, <1>5, <1>6, StepIs, AppendLoss, RemoveLoss, ArchiveLoss, CalmLoss

(* What the invariants are true of when the model begins.                  *)
LEMMA LossInitial == ASSUME DistillInit PROVE Apart /\ RewriteInv /\ LossInv
<1>1. /\ hk = [h \in Hooks |-> Free]
      /\ file = [s \in Sessions |-> [f \in Names |-> IF f = "pend" THEN Earlier[s] ELSE NoFile]]
      /\ kept = [s \in Sessions |-> Turns(Earlier[s])] /\ gone = [s \in Sessions |-> {}]
  BY DEF DistillInit, Names
<1>2. \A h \in Hooks : hk[h].at = "free"
  BY <1>1, FreeHook
<1>3. Apart
  BY <1>2 DEF Apart, Running, Clashing
<1>4. RewriteInv
  BY <1>2, FreeHook DEF RewriteInv, RewriteOK, Rewriting, Writing
<1>5. \A h \in Hooks : LossOK(h)
  BY <1>2 DEF LossOK, Rewriting, Writing
<1>6. NothingLost
  <2>1. \A s \in Sessions : kept[s] = Turns(Earlier[s]) /\ file[s]["pend"] = Earlier[s]
    BY <1>1 DEF Names
  <2>. QED BY <2>1 DEF NothingLost, InBuffer
<1>. QED BY <1>3, <1>4, <1>5, <1>6 DEF LossInv

LossParts == TypeInv /\ PushInv /\ Apart /\ RewriteInv /\ LossInv

LEMMA ApartSame == ASSUME UNCHANGED captureVars PROVE Apart => Apart'
BY DEF captureVars, Apart, Running, Clashing

LEMMA LossPartsStep == LossParts /\ [DistillNext]_distillVars => LossParts'
<1>. SUFFICES ASSUME LossParts, [DistillNext]_distillVars PROVE LossParts'
  OBVIOUS
<1>1. CASE DistillNext
  BY <1>1, TypeStep, PushStepKeeps, ApartStep, RewriteStep, LossStep DEF LossParts
<1>2. CASE UNCHANGED distillVars
  <2>1. UNCHANGED captureVars /\ push' = push
    BY <1>2 DEF distillVars, pushVars
  <2>2. UNCHANGED <<file, hk, age, kept, gone, clash, mixed>>
    BY <2>1 DEF captureVars
  <2>3. TypeInv' /\ PushInv' /\ Apart'
    BY <2>1, UnchangedTyped, PushBeside, ApartSame DEF LossParts
  <2>4. RewriteInv'
    BY Zenon, <2>2 DEF LossParts, RewriteInv, RewriteOK, Shortened, Record
  <2>5. LossInv'
    BY <2>2 DEF LossParts, LossInv, NothingLost, InBuffer, LossOK
  <2>. QED BY <2>3, <2>4, <2>5 DEF LossParts
<1>. QED BY <1>1, <1>2

(* NothingLost: a lone rewriter holds every turn of the buffer it will     *)
(* replace, and what is about to be pruned is old; a rewrite that met      *)
(* another writer, or a removal of a buffer written since, is in clash.    *)
THEOREM NothingIsLost == DistillSpec => []NothingLost
<1>1. DistillInit => LossParts
  BY TypeInitial, PushInitial, LossInitial DEF LossParts
<1>2. LossParts => NothingLost
  BY DEF LossParts, LossInv
<1>. QED BY <1>1, <1>2, LossPartsStep, PTL DEF DistillSpec

-----------------------------------------------------------------------------
(* The turns of a session whose hooks run one at a time *)

LEMMA OnlyOne ==
    ASSUME TypeInv, Apart, NEW g \in Hooks, NEW h \in Hooks, g # h, hk[g].at # "free", hk[h].at # "free",
           hk[g].s = hk[h].s, NEW s, s = hk[g].s
    PROVE  s \in mixed
<1>1. s \in Sessions /\ g \in Running(s) /\ h \in Running(s)
  BY DEF TypeInv, HookOK, Running
<1>. QED BY <1>1 DEF Apart

LEMMA IncreasesNone == Increases(<< >>) /\ Increases(Recs(NoFile))
BY RecsOf DEF Increases

LEMMA IncreasesAppend ==
    ASSUME NEW q \in Seq(Rec), Increases(q), NEW r \in Rec,
           \A i \in DOMAIN q : q[i] # Marker => q[i][1] < r[1] /\ q[i][3] <= r[3]
    PROVE  Increases(Append(q, r))
<1>. DEFINE p == Append(q, r)
            n == Len(q) + 1
<1>1. /\ p[n] = r /\ n \in Nat /\ DOMAIN p \subseteq Nat
      /\ \A i \in DOMAIN q : p[i] = q[i] /\ i < n
      /\ \A i \in DOMAIN p : i = n \/ i \in DOMAIN q
  BY Appended
<1>. HIDE DEF p, n
<1>2. ASSUME NEW i \in DOMAIN p, NEW j \in DOMAIN p, i < j, p[i] # Marker, p[j] # Marker
      PROVE  p[i][1] < p[j][1] /\ p[i][3] <= p[j][3]
  <2>1. i \in DOMAIN q
    <3>1. i # n
      <4>1. j = n \/ j < n
        BY <1>1
      <4>2. i \in Nat /\ j \in Nat
        BY <1>1
      <4>. QED BY <1>1, <1>2, <4>1, <4>2
    <3>. QED BY <1>1, <3>1
  <2>2. CASE j = n
    BY <1>1, <1>2, <2>1, <2>2
  <2>3. CASE j \in DOMAIN q
    BY <1>1, <1>2, <2>1, <2>3 DEF Increases
  <2>. QED BY <1>1, <2>2, <2>3
<1>3. Increases(p)
  BY <1>2 DEF Increases
<1>. QED BY <1>3 DEF p

LEMMA IncreasesShort ==
    ASSUME NEW q \in Seq(Rec), Increases(q), NEW r \in Rec, Len(q) >= MaxTurns,
           \A i \in DOMAIN q : q[i] # Marker => q[i][1] < r[1] /\ q[i][3] <= r[3]
    PROVE  Increases(Short(q, r))
<1>. DEFINE p == Short(q, r)
            n == Len(q) - DropOldest + 2
            d == DropOldest - 1
<1>1. /\ p \in Seq(Rec) /\ Len(p) = n /\ p[1] = Marker /\ p[n] = r /\ n \in Nat /\ d \in Nat
      /\ \A i \in 2 .. n - 1 : i + d \in DOMAIN q /\ p[i] = q[i + d]
  <2>1. DropOldest \in Nat /\ DropOldest >= 1
    BY CaptureAssumption
  <2>2. \A i \in 2 .. Len(q) - DropOldest + 1 : i + d = i + DropOldest - 1
    BY <2>1
  <2>3. n - 1 = Len(q) - DropOldest + 1
    BY <2>1
  <2>. HIDE DEF p
  <2>4. /\ p \in Seq(Rec) /\ Len(p) = n /\ p[1] = Marker /\ p[n] = r
        /\ \A i \in 2 .. Len(q) - DropOldest + 1 : i + DropOldest - 1 \in DOMAIN q /\ p[i] = q[i + DropOldest - 1]
    BY ShortIs DEF p
  <2>5. n \in Nat
    BY <2>4
  <2>6. \A i \in 2 .. Len(q) - DropOldest + 1 : i + d \in DOMAIN q /\ p[i] = q[i + d]
    BY <2>2, <2>4
  <2>. QED BY <2>1, <2>3, <2>4, <2>5, <2>6
<1>. HIDE DEF p, n, d
<1>2. ASSUME NEW i \in DOMAIN p, NEW j \in DOMAIN p, i < j, p[i] # Marker, p[j] # Marker
      PROVE  p[i][1] < p[j][1] /\ p[i][3] <= p[j][3]
  <2>1. i \in 2 .. n - 1 /\ (j = n \/ j \in 2 .. n - 1)
    BY <1>1, <1>2
  <2>2. p[i] = q[i + d] /\ i + d \in DOMAIN q
    BY <1>1, <2>1
  <2>3. CASE j = n
    BY <1>1, <1>2, <2>2, <2>3
  <2>4. CASE j \in 2 .. n - 1
    <3>1. p[j] = q[j + d] /\ j + d \in DOMAIN q /\ i + d < j + d
      BY <1>1, <1>2, <2>1, <2>4
    <3>. QED BY <1>2, <2>2, <3>1 DEF Increases
  <2>. QED BY <2>1, <2>3, <2>4
<1>3. Increases(p)
  BY <1>2 DEF Increases
<1>. QED BY <1>3 DEF p

(* A lone writer's record comes after those it has seen.                   *)
LEMMA RecordAfter ==
    ASSUME TypeInv, TurnInv, NEW g \in Hooks, hk[g].at \in Writing, NEW s, s = hk[g].s, s \notin mixed
    PROVE  \A i \in DOMAIN hk[g].seen : hk[g].seen[i] # Marker =>
              hk[g].seen[i][1] < Record(g)[1] /\ hk[g].seen[i][3] <= Record(g)[3]
<1>1. s \in Sessions /\ Record(g)[3] = hk[g].ex /\ \A i \in DOMAIN hk[g].seen : hk[g].seen[i][1] < Record(g)[1]
  BY RecordIs
<1>2. hk[g].ex = asked[s] /\ asked[s] \in Nat
  BY <1>1, FiredType DEF TurnInv, TurnOK, Writing, Unwritten
<1>3. GoodRecs(hk[g].seen, Written(s), asked[s])
  BY DEF TypeInv, HookOK
<1>4. ASSUME NEW i \in DOMAIN hk[g].seen, hk[g].seen[i] # Marker PROVE hk[g].seen[i][3] \in 1 .. asked[s]
  BY <1>3, <1>4 DEF GoodRecs
<1>. QED BY <1>1, <1>2, <1>4

LEMMA TurnOthers ==
    ASSUME TypeInv, Apart, TurnInv, mixed \subseteq mixed', NEW g \in Hooks, hk[g].at # "free",
           \A h \in Hooks \ {g} : Carried(h), asked' = asked,
           \A t \in Sessions : t # hk[g].s => file'[t]["pend"] \in {file[t]["pend"], NoFile},
           TurnOK(g)', \A s \in Sessions \ mixed' : s = hk[g].s => Increases(Recs(file'[s]["pend"]))
    PROVE  TurnInv'
<1>1. ASSUME NEW h \in Hooks \ {g} PROVE TurnOK(h)'
  <2>1. PICK s : s = hk[h].s
    OBVIOUS
  <2>2. hk'[h].at = hk[h].at /\ hk'[h].s = s /\ hk'[h].ex = hk[h].ex /\ hk'[h].seen = hk[h].seen
    BY <2>1 DEF Carried
  <2>3. CASE hk[h].at # "free" /\ s \notin mixed'
    <3>1. s \in Sessions /\ s \notin mixed
      BY Zenon, <2>1, <2>3 DEF TypeInv, HookOK
    <3>2. s # hk[g].s
      BY <2>1, <2>3, <3>1, OnlyOne
    <3>3. file'[s]["pend"] \in {file[s]["pend"], NoFile}
      BY <3>1, <3>2
    <3>. QED BY <2>1, <2>2, <2>3, <3>1, <3>3 DEF TurnInv, TurnOK, Recs
  <2>4. CASE ~(hk[h].at # "free" /\ s \notin mixed')
    BY <2>2, <2>4 DEF TurnOK
  <2>. QED BY <2>3, <2>4
<1>2. ASSUME NEW s \in Sessions \ mixed' PROVE Increases(Recs(file'[s]["pend"]))
  <2>1. CASE s = hk[g].s
    BY <2>1
  <2>2. CASE s # hk[g].s
    <3>1. file'[s]["pend"] = file[s]["pend"] \/ file'[s]["pend"] = NoFile
      BY <2>2
    <3>2. Increases(Recs(file[s]["pend"]))
      BY DEF TurnInv
    <3>. QED BY <3>1, <3>2, IncreasesNone
  <2>. QED BY <2>1, <2>2
<1>3. \A s \in Sessions \ mixed' : Increases(Recs(file[s]["pend"]))'
  BY <1>2 DEF Increases, Recs
<1>. QED BY <1>1, <1>3 DEF TurnInv

LEMMA TurnFree ==
    ASSUME NEW g \in Hooks, hk'[g].at \notin Unwritten \cup Stashing \cup {"rename"} PROVE TurnOK(g)'
BY DEF TurnOK, Writing, Unwritten

LEMMA CalmTurn ==
    ASSUME TypeInv, Apart, TurnInv, mixed \subseteq mixed', NEW g \in Hooks, Calm(g)
    PROVE  TurnInv'
<1>1. PICK s : s = hk[g].s
  OBVIOUS
<1>2. /\ asked' = asked /\ file' = file /\ \A h \in Hooks \ {g} : Carried(h)
      /\ hk[g].at # "free" /\ s \in Sessions /\ (hk'[g].at # "free" => hk'[g].s = s)
      /\ (hk'[g].at \in Writing => Records(g)) /\ hk'[g].at # "rename"
      /\ (hk'[g].at \in Unwritten \cup Stashing => hk'[g].ex = hk[g].ex /\ hk[g].at \in Unwritten \cup Stashing)
  BY <1>1, CalmIs
<1>3. TurnOK(g)'
  <2>1. s \notin mixed' /\ hk'[g].at \in Unwritten \cup Stashing => hk'[g].ex = asked'[s]
    BY <1>1, <1>2 DEF TurnInv, TurnOK
  <2>2. s \notin mixed' /\ hk'[g].at \in Writing => hk'[g].seen = Recs(file'[s]["pend"]) /\ Increases(hk'[g].seen)
    BY <1>1, <1>2, RecordsHook DEF TurnInv
  <2>. QED BY <1>2, <2>1, <2>2 DEF TurnOK, Recs, Increases
<1>4. \A t \in Sessions \ mixed' : Increases(Recs(file'[t]["pend"]))
  BY <1>2 DEF TurnInv
<1>. QED BY <1>2, <1>3, <1>4, TurnOthers

LEMMA AppendTurn ==
    ASSUME TypeInv, Apart, TurnInv, mixed \subseteq mixed', NEW g \in Hooks, AppendLine(g)
    PROVE  TurnInv'
<1>1. PICK s : s = hk[g].s
  OBVIOUS
<1>2. /\ s \in Sessions /\ hk[g].at = "append" /\ hk'[g].at = "prune" /\ asked' = asked /\ \A h \in Hooks \ {g} : Carried(h)
      /\ file'[s]["pend"] = Append(Recs(file[s]["pend"]), Record(g))
      /\ \A t \in Sessions : t # s => file'[t]["pend"] = file[t]["pend"]
  BY <1>1, AppendIs DEF Names
<1>3. hk[g].at \in Writing
  BY <1>2 DEF Writing
<1>4. ASSUME s \notin mixed' PROVE Increases(Recs(file'[s]["pend"]))
  <2>1. s \notin mixed
    BY <1>4
  <2>2. /\ hk[g].seen \in Seq(Rec) /\ Record(g) \in Rec /\ Increases(hk[g].seen)
        /\ file[s]["pend"] = NoFile \/ Recs(file[s]["pend"]) = hk[g].seen
        /\ \A i \in DOMAIN hk[g].seen : hk[g].seen[i] # Marker =>
              hk[g].seen[i][1] < Record(g)[1] /\ hk[g].seen[i][3] <= Record(g)[3]
    BY <1>1, <1>3, <2>1, RecordIs, RecordAfter DEF TurnInv, TurnOK, Writing
  <2>3. Increases(Append(Recs(file[s]["pend"]), Record(g)))
    <3>1. CASE Recs(file[s]["pend"]) = hk[g].seen
      BY <2>2, <3>1, IncreasesAppend
    <3>2. CASE file[s]["pend"] = NoFile
      <4>1. Recs(file[s]["pend"]) = << >>
        BY <3>2, RecsOf
      <4>. DEFINE q == << >>
      <4>2. q \in Seq(Rec) /\ DOMAIN q = {} /\ Increases(q)
        BY IncreasesNone
      <4>. HIDE DEF q
      <4>3. Increases(Append(q, Record(g)))
        BY Zenon, <2>2, <4>2, IncreasesAppend
      <4>. QED BY <4>1, <4>3 DEF q
    <3>. QED BY <2>2, <3>1, <3>2
  <2>4. Recs(file'[s]["pend"]) = file'[s]["pend"]
    <3>1. Recs(file[s]["pend"]) \in Seq(Rec)
      BY <1>2, ContentsType DEF Names
    <3>2. file'[s]["pend"] \in Seq(Rec)
      BY <1>2, <2>2, <3>1, Appended
    <3>. QED BY <3>2, RecsOf
  <2>. QED BY <1>2, <2>3, <2>4
<1>5. TurnOK(g)'
  BY <1>2, TurnFree DEF Unwritten, Stashing
<1>. QED BY Zenon, <1>1, <1>2, <1>4, <1>5, TurnOthers

LEMMA RewriteTurn ==
    ASSUME TypeInv, Apart, RewriteInv, TurnInv, mixed \subseteq mixed', NEW g \in Hooks,
           CreateTmp(g) \/ FlushTmp(g)
    PROVE  TurnInv'
<1>1. PICK s : s = hk[g].s
  OBVIOUS
<1>2. /\ s \in Sessions /\ hk[g].at \in {"create", "flush"} /\ hk'[g].at \in {"flush", "rename"} /\ asked' = asked
      /\ hk'[g].s = s /\ hk'[g].ex = hk[g].ex /\ hk'[g].seen = hk[g].seen /\ \A h \in Hooks \ {g} : Carried(h)
      /\ \A t \in Sessions : t # s => file'[t]["pend"] = file[t]["pend"]
      /\ hk[g].at = "create" \/ hk[g].into = "tmp" => file'[s]["pend"] = file[s]["pend"]
  <2>1. CASE CreateTmp(g)
    BY <1>1, <2>1, CreateIs DEF Names
  <2>2. CASE FlushTmp(g)
    BY <1>1, <2>2, FlushIs DEF Names
  <2>. QED BY <2>1, <2>2
<1>3. s \notin mixed' => file'[s]["pend"] = file[s]["pend"]
  BY <1>1, <1>2 DEF RewriteInv, RewriteOK, Rewriting, Writing
<1>4. TurnOK(g)'
  <2>1. s \notin mixed' => /\ hk[g].ex = asked[s] /\ Increases(hk[g].seen)
                           /\ file[s]["pend"] = NoFile \/ Recs(file[s]["pend"]) = hk[g].seen
    BY <1>1, <1>2 DEF TurnInv, TurnOK, Writing, Unwritten
  <2>. QED BY <1>2, <1>3, <2>1 DEF TurnOK, Recs, Increases
<1>5. s \notin mixed' => Increases(Recs(file'[s]["pend"]))
  BY <1>2, <1>3 DEF TurnInv
<1>. QED BY <1>1, <1>2, <1>4, <1>5, TurnOthers

LEMMA RenameTurn ==
    ASSUME TypeInv, Apart, RewriteInv, TurnInv, mixed \subseteq mixed', NEW g \in Hooks, RenameTmp(g)
    PROVE  TurnInv'
<1>1. PICK s : s = hk[g].s
  OBVIOUS
<1>2. CASE file[s]["tmp"] = NoFile
  <2>1. /\ hk[g].at = "rename" /\ hk'[g].at = "free" /\ asked' = asked /\ file' = file /\ \A h \in Hooks \ {g} : Carried(h)
    BY <1>1, <1>2, RenameFails
  <2>2. TurnOK(g)'
    BY <2>1 DEF TurnOK
  <2>3. \A t \in Sessions \ mixed' : Increases(Recs(file'[t]["pend"]))
    BY <2>1 DEF TurnInv
  <2>. QED BY <2>1, <2>2, <2>3, TurnOthers
<1>3. CASE file[s]["tmp"] # NoFile
  <2>1. /\ s \in Sessions /\ hk[g].at = "rename" /\ hk'[g].at = "prune" /\ asked' = asked /\ \A h \in Hooks \ {g} : Carried(h)
        /\ file'[s]["pend"] = file[s]["tmp"]
        /\ \A t \in Sessions : t # s => file'[t]["pend"] = file[t]["pend"]
    BY <1>1, <1>3, RenameIs DEF Names
  <2>2. hk[g].at \in Writing /\ hk[g].at \in Rewriting
    BY <2>1 DEF Writing, Rewriting
  <2>3. ASSUME s \notin mixed' PROVE Increases(Recs(file'[s]["pend"]))
    <3>1. s \notin mixed
      BY <2>3
    <3>2. /\ hk[g].seen \in Seq(Rec) /\ Record(g) \in Rec /\ Increases(hk[g].seen)
          /\ \A i \in DOMAIN hk[g].seen : hk[g].seen[i] # Marker =>
                hk[g].seen[i][1] < Record(g)[1] /\ hk[g].seen[i][3] <= Record(g)[3]
          /\ Shortened(g) = Short(hk[g].seen, Record(g)) /\ Len(hk[g].seen) >= MaxTurns
      BY <1>1, <2>2, <3>1, RecordIs, RecordAfter, ShortenedIs DEF TurnInv, TurnOK, Writing
    <3>3. file[s]["tmp"] = Shortened(g)
      BY <1>1, <2>1, <2>2, <3>1 DEF RewriteInv, RewriteOK
    <3>4. Increases(Shortened(g)) /\ Shortened(g) \in Seq(Rec)
      BY Zenon, <3>2, IncreasesShort, ShortIs
    <3>. QED BY <2>1, <3>3, <3>4, RecsOf
  <2>4. TurnOK(g)'
    BY <2>1, TurnFree DEF Unwritten, Stashing
  <2>. QED BY <1>1, <2>1, <2>3, <2>4, TurnOthers
<1>. QED BY <1>2, <1>3

LEMMA RemoveTurn ==
    ASSUME TypeInv, Apart, TurnInv, mixed \subseteq mixed', NEW g \in Hooks, PruneRemove(g)
    PROVE  TurnInv'
<1>1. PICK v : v = hk[g].victim
  OBVIOUS
<1>2. /\ v \in Sessions /\ hk[g].at = "remove" /\ hk'[g].at = "prune" /\ asked' = asked
      /\ \A h \in Hooks \ {g} : Carried(h)
      /\ file'[v]["pend"] = NoFile
      /\ \A t \in Sessions : t # v => file'[t]["pend"] = file[t]["pend"]
  BY <1>1, RemoveIs DEF Names
<1>3. \A t \in Sessions : file'[t]["pend"] \in {file[t]["pend"], NoFile}
  BY <1>2
<1>4. \A t \in Sessions \ mixed' : Increases(Recs(file'[t]["pend"]))
  BY <1>3, IncreasesNone DEF TurnInv
<1>5. TurnOK(g)'
  BY <1>2, TurnFree DEF Unwritten, Stashing
<1>. QED BY <1>2, <1>3, <1>4, <1>5, TurnOthers

LEMMA ArchiveFiles ==
    ASSUME TypeInv, PushInv, Archive
    PROVE  /\ UNCHANGED <<asked, stops, script, prompt, mixed>> /\ \A g \in Hooks : Carried(g)
           /\ \A t \in Sessions : /\ file'[t]["pend"] \in {file[t]["pend"], NoFile}
                                  /\ file'[t]["tmp"] = file[t]["tmp"]
BY ArchiveIs DEF Names

LEMMA ArchiveTurn == ASSUME TypeInv, PushInv, TurnInv, Archive PROVE TurnInv'
<1>1. /\ asked' = asked /\ mixed' = mixed /\ \A g \in Hooks : Carried(g)
      /\ \A t \in Sessions : file'[t]["pend"] \in {file[t]["pend"], NoFile}
  BY ArchiveFiles
<1>2. ASSUME NEW h \in Hooks PROVE TurnOK(h)'
  <2>1. PICK s : s = hk[h].s
    OBVIOUS
  <2>2. hk[h].at # "free" => s \in Sessions
    BY <2>1 DEF TypeInv, HookOK
  <2>3. hk'[h].at = hk[h].at /\ hk'[h].s = s /\ hk'[h].ex = hk[h].ex /\ hk'[h].seen = hk[h].seen
    BY <1>1, <2>1 DEF Carried
  <2>. QED BY <1>1, <2>1, <2>2, <2>3 DEF TurnInv, TurnOK, Recs
<1>3. \A s \in Sessions \ mixed' : Increases(Recs(file'[s]["pend"]))
  BY <1>1, IncreasesNone DEF TurnInv
<1>4. \A s \in Sessions \ mixed' : Increases(Recs(file[s]["pend"]))'
  BY <1>3 DEF Increases, Recs
<1>. QED BY <1>2, <1>4 DEF TurnInv

LEMMA SessionTurn ==
    ASSUME TypeInv, TurnInv, SessionStep, Remember
    PROVE  TurnInv'
<1>1. /\ file' = file
      /\ \A h \in Hooks : \/ hk'[h] = hk[h] /\ Carried(h)
                          \/ /\ hk[h].at = "free" /\ hk'[h].at \in {"stash", "take", "transcript"}
                             /\ hk'[h].s \in Sessions /\ hk'[h].ex = asked'[hk'[h].s]
  BY SessionStepIs
<1>2. mixed \subseteq mixed' /\ \A s \in Sessions \ mixed' : asked'[s] # asked[s] => Running(s) = {}
  BY Remembered
<1>3. ASSUME NEW h \in Hooks PROVE TurnOK(h)'
  <2>1. CASE hk'[h] = hk[h]
    <3>1. PICK s : s = hk[h].s
      OBVIOUS
    <3>2. CASE hk[h].at # "free" /\ s \notin mixed'
      <4>1. s \in Sessions /\ h \in Running(s)
        BY <3>1, <3>2 DEF TypeInv, HookOK, Running
      <4>2. asked'[s] = asked[s] /\ s \notin mixed
        BY <1>2, <3>2, <4>1
      <4>. QED BY <1>1, <2>1, <3>1, <3>2, <4>2 DEF TurnInv, TurnOK, Recs, Increases
    <3>3. CASE ~(hk[h].at # "free" /\ s \notin mixed')
      BY <2>1, <3>1, <3>3 DEF TurnOK
    <3>. QED BY <3>2, <3>3
  <2>2. CASE hk'[h].at \in {"stash", "take", "transcript"} /\ hk'[h].ex = asked'[hk'[h].s]
    BY <2>2 DEF TurnOK, Writing
  <2>. QED BY <1>1, <2>1, <2>2
<1>4. \A s \in Sessions \ mixed' : Increases(Recs(file[s]["pend"]))'
  BY <1>1, <1>2 DEF TurnInv, Increases, Recs
<1>. QED BY <1>3, <1>4 DEF TurnInv

LEMMA SameTurn == ASSUME TurnInv, UNCHANGED captureVars PROVE TurnInv'
BY DEF captureVars, TurnInv, TurnOK, Increases, Recs

LEMMA TurnStep ==
    ASSUME TypeInv, PushInv, Apart, RewriteInv, TurnInv, DistillNext
    PROVE  TurnInv'
<1>1. mixed \subseteq mixed'
  BY ApartStep
<1>. QED BY <1>1, StepIs, SessionTurn, CalmTurn, AppendTurn, RewriteTurn, RenameTurn, RemoveTurn, ArchiveTurn, SameTurn

-----------------------------------------------------------------------------
(* The prompts of a session whose hooks run one at a time *)

LEMMA PromptNone ==
    Recs(NoFile) = << >> /\ OnceEach(<< >>) /\ \A n : Unused(n, << >>) /\ Below(<< >>, n)
BY RecsOf DEF OnceEach, Unused, Below

LEMMA OnceAppend ==
    ASSUME NEW q \in Seq(Rec), OnceEach(q), NEW r \in Rec, Unused(r[2], q),
           NEW u, Unused(u, q), r[2] = u => u = 0
    PROVE  OnceEach(Append(q, r)) /\ Unused(u, Append(q, r))
<1>. DEFINE p == Append(q, r)
            n == Len(q) + 1
<1>1. /\ p[n] = r /\ \A i \in DOMAIN q : p[i] = q[i]
      /\ \A i \in DOMAIN p : i = n \/ i \in DOMAIN q
  BY Appended
<1>. HIDE DEF p, n
<1>2. OnceEach(p)
  BY <1>1 DEF OnceEach, Unused
<1>3. Unused(u, p)
  BY <1>1 DEF Unused
<1>. QED BY <1>2, <1>3 DEF p

LEMMA OnceShort ==
    ASSUME NEW q \in Seq(Rec), OnceEach(q), NEW r \in Rec, Unused(r[2], q), Len(q) >= MaxTurns,
           NEW u, Unused(u, q), r[2] = u => u = 0
    PROVE  OnceEach(Short(q, r)) /\ Unused(u, Short(q, r))
<1>. DEFINE p == Short(q, r)
            n == Len(q) - DropOldest + 2
            m == n - 1
            d == DropOldest - 1
<1>1. /\ p[1] = Marker /\ p[n] = r /\ d \in Nat /\ \A i \in DOMAIN p : i = 1 \/ i = n \/ i \in 2 .. m
      /\ \A i \in 2 .. m : i + d \in DOMAIN q /\ p[i] = q[i + d]
  <2>1. DropOldest \in Nat /\ DropOldest >= 1
    BY CaptureAssumption
  <2>2. m = Len(q) - DropOldest + 1 /\ \A i \in 2 .. Len(q) - DropOldest + 1 : i + d = i + DropOldest - 1
    BY <2>1
  <2>. HIDE DEF p
  <2>3. /\ p \in Seq(Rec) /\ Len(p) = n /\ p[1] = Marker /\ p[n] = r
        /\ \A i \in 2 .. Len(q) - DropOldest + 1 : i + DropOldest - 1 \in DOMAIN q /\ p[i] = q[i + DropOldest - 1]
    BY ShortIs DEF p
  <2>4. \A i \in DOMAIN p : i = 1 \/ i = n \/ i \in 2 .. m
    BY <2>3
  <2>5. \A i \in 2 .. Len(q) - DropOldest + 1 : i + d \in DOMAIN q /\ p[i] = q[i + d]
    BY <2>2, <2>3
  <2>. QED BY <2>1, <2>2, <2>3, <2>4, <2>5
<1>. HIDE DEF p, n, m, d
<1>2. ASSUME NEW i \in 2 .. m, NEW j \in 2 .. m, i # j PROVE i + d # j + d
  <2>1. i \in Int /\ j \in Int /\ d \in Int
    BY <1>1
  <2>. QED BY <1>2, <2>1
<1>3. Marker[2] = 0
  BY MarkerType
<1>4. ASSUME NEW i \in DOMAIN p, NEW j \in DOMAIN p, i # j, p[i][2] = p[j][2] PROVE p[i][2] = 0
  <2>1. CASE i = 1 \/ j = 1
    BY <1>1, <1>3, <1>4, <2>1
  <2>2. CASE i = n /\ j \in 2 .. m
    BY <1>1, <1>4, <2>2 DEF Unused
  <2>3. CASE j = n /\ i \in 2 .. m
    BY <1>1, <1>4, <2>3 DEF Unused
  <2>4. CASE i \in 2 .. m /\ j \in 2 .. m
    <3>1. /\ i + d \in DOMAIN q /\ j + d \in DOMAIN q /\ i + d # j + d
          /\ p[i] = q[i + d] /\ p[j] = q[j + d]
      BY <1>1, <1>2, <1>4, <2>4
    <3>. QED BY <1>4, <3>1 DEF OnceEach
  <2>. QED BY <1>1, <1>4, <2>1, <2>2, <2>3, <2>4
<1>5. Unused(u, p)
  BY <1>1, <1>3 DEF Unused
<1>6. OnceEach(p)
  BY <1>4 DEF OnceEach
<1>. QED BY <1>5, <1>6 DEF p

LEMMA PromptFree ==
    ASSUME NEW g \in Hooks, hk'[g].at \notin Stashing \cup Writing \cup {"taken", "records"}
    PROVE  PromptOK(g)'
BY DEF PromptOK

(* A hook whose session a step leaves alone, but for a removal.            *)
LEMMA PromptCarried ==
    ASSUME TypeInv, NEW h \in Hooks, PromptOK(h), Carried(h), mixed \subseteq mixed', asked' = asked,
           NEW s, s = hk[h].s, hk[h].at # "free" /\ s \notin mixed' =>
              prompt'[s] = prompt[s] /\ file'[s]["pend"] \in {file[s]["pend"], NoFile}
    PROVE  PromptOK(h)'
<1>1. hk'[h].at = hk[h].at /\ hk'[h].s = s /\ hk'[h].user = hk[h].user /\ hk'[h].seen = hk[h].seen
  BY DEF Carried
<1>2. CASE hk[h].at # "free" /\ s \in Inline \ mixed'
  <2>1. prompt'[s] = prompt[s] /\ s \notin mixed
    BY <1>2
  <2>2. CASE file'[s]["pend"] = file[s]["pend"]
    BY <1>1, <1>2, <2>1, <2>2 DEF PromptOK, Recs, OnceEach, Unused, Below
  <2>3. CASE file'[s]["pend"] = NoFile
    <3>1. Recs(file'[s]["pend"]) = << >>
      BY <2>3, PromptNone
    <3>2. \A n : Unused(n, Recs(file'[s]["pend"])) /\ Below(Recs(file'[s]["pend"]), n)
      BY <3>1, PromptNone
    <3>3. /\ hk[h].at \in Stashing => prompt[s] < asked[s]
          /\ hk[h].at = "taken" => hk[h].user = prompt[s]
          /\ hk[h].at \in Writing \cup {"records"} => (hk[h].user = prompt[s] => hk[h].user = 0)
          /\ hk[h].at \in Writing => OnceEach(hk[h].seen) /\ Unused(hk[h].user, hk[h].seen) /\ Unused(prompt[s], hk[h].seen)
      BY <1>2, <2>1 DEF PromptOK
    <3>4. OnceEach(hk'[h].seen) = OnceEach(hk[h].seen) /\ (\A n : Unused(n, hk'[h].seen) = Unused(n, hk[h].seen))
      BY <1>1
    <3>5. \A n : Unused(n, Recs(file[s]["pend"])') /\ Below(Recs(file[s]["pend"])', n)
      BY Zenon, <3>2 DEF Recs
    <3>. QED BY <1>1, <1>2, <2>1, <3>2, <3>3, <3>4 DEF PromptOK, Recs, OnceEach, Unused, Below
  <2>. QED BY <1>2, <2>2, <2>3
<1>3. CASE ~(hk[h].at # "free" /\ s \in Inline \ mixed')
  BY <1>1, <1>3 DEF PromptOK
<1>. QED BY <1>2, <1>3

PromptSafe(s) == OnceEach(Recs(file[s]["pend"])) /\ Unused(prompt[s], Recs(file[s]["pend"]))

LEMMA PromptSafeNext ==
    ASSUME NEW s
    PROVE  PromptSafe(s)' <=> OnceEach(Recs(file'[s]["pend"])) /\ Unused(prompt'[s], Recs(file'[s]["pend"]))
BY DEF PromptSafe, OnceEach, Unused, Recs

LEMMA PromptSafeStays ==
    ASSUME NEW s, PromptSafe(s), prompt'[s] = prompt[s], file'[s]["pend"] \in {file[s]["pend"], NoFile}
    PROVE  PromptSafe(s)'
<1>1. CASE file'[s]["pend"] = file[s]["pend"]
  BY <1>1, PromptSafeNext DEF PromptSafe
<1>2. CASE file'[s]["pend"] = NoFile
  BY <1>2, PromptSafeNext, PromptNone
<1>. QED BY <1>1, <1>2

LEMMA PromptInvIs == PromptInv <=> (\A s \in Inline \ mixed : PromptSafe(s)) /\ \A h \in Hooks : PromptOK(h)
BY DEF PromptInv, PromptSafe

LEMMA PromptOthers ==
    ASSUME TypeInv, Apart, PromptInv, mixed \subseteq mixed', NEW g \in Hooks, hk[g].at # "free",
           \A h \in Hooks \ {g} : Carried(h), asked' = asked, NEW s, s = hk[g].s,
           \A t \in Sessions : t # s =>
              prompt'[t] = prompt[t] /\ file'[t]["pend"] \in {file[t]["pend"], NoFile},
           PromptOK(g)', s \in Inline \ mixed' => PromptSafe(s)'
    PROVE  PromptInv'
<1>1. ASSUME NEW h \in Hooks \ {g} PROVE PromptOK(h)'
  <2>1. PICK t : t = hk[h].s
    OBVIOUS
  <2>2. ASSUME hk[h].at # "free", t \notin mixed'
        PROVE  prompt'[t] = prompt[t] /\ file'[t]["pend"] \in {file[t]["pend"], NoFile}
    <3>1. t \in Sessions /\ t \notin mixed
      BY Zenon, <2>1, <2>2 DEF TypeInv, HookOK
    <3>2. t # s
      BY <2>1, <2>2, <3>1, OnlyOne
    <3>. QED BY <3>1, <3>2
  <2>. QED BY <2>1, <2>2, PromptCarried DEF PromptInv
<1>2. ASSUME NEW t \in Inline \ mixed', t # s PROVE PromptSafe(t)'
  <2>1. t \in Sessions
    BY CaptureAssumption
  <2>. QED BY <1>2, <2>1, PromptSafeStays DEF PromptInv, PromptSafe
<1>3. \A t \in Inline \ mixed' : PromptSafe(t)'
  BY <1>2
<1>. QED BY <1>1, <1>3 DEF PromptInv, PromptSafe

LEMMA CalmPrompt ==
    ASSUME TypeInv, Apart, TurnInv, PromptInv, mixed \subseteq mixed', NEW g \in Hooks, Calm(g)
    PROVE  PromptInv'
<1>1. PICK s : s = hk[g].s
  OBVIOUS
<1>2. /\ asked' = asked /\ file' = file /\ \A h \in Hooks \ {g} : Carried(h)
      /\ hk[g].at # "free" /\ s \in Sessions /\ (hk'[g].at # "free" => hk'[g].s = s)
      /\ prompt' = prompt \/ StashOpen(g) \/ StashWrite(g) \/ TakeRemove(g)
  BY <1>1, CalmIs
<1>3. prompt \in [Sessions -> Int] /\ asked[s] \in Nat
  BY <1>2, FiredType DEF TypeInv
<1>4. \A t \in Sessions : t # s => prompt'[t] = prompt[t]
  BY <1>1, <1>2, <1>3 DEF StashOpen, StashWrite, TakeRemove, Taken
<1>5. ASSUME s \in Inline \ mixed'
      PROVE  PromptSafe(s)' /\ PromptOK(g)'
  <2>. DEFINE q == Recs(file[s]["pend"])
  <2>1. /\ q \in Seq(Rec) /\ Recs(file'[s]["pend"]) = q /\ OnceEach(q) /\ Unused(prompt[s], q) /\ PromptOK(g)
        /\ s \in Inline \ mixed
    BY <1>2, <1>5, ContentsType DEF PromptInv, Names
  <2>. HIDE DEF q
  <2>2. ASSUME prompt' = prompt PROVE PromptSafe(s)'
    BY <2>1, <2>2, PromptSafeNext
  <2>3. CASE StashOpen(g)
    <3>1. /\ hk[g].at = "stash" /\ hk'[g].at = "stashed" /\ hk'[g].s = s /\ prompt'[s] = 0
      BY <1>1, <1>2, <1>3, <2>3, ToHook DEF StashOpen, Stages, Stashing
    <3>2. asked[s] > 0
      <4>1. hk[g].ex \in 1 .. asked[s]
        BY <1>1, <3>1 DEF TypeInv, HookOK, Stashing
      <4>. QED BY <1>3, <4>1
    <3>3. Below(q, asked[s])
      BY <1>1, <1>2, <2>1, <3>1 DEF PromptOK, Stashing, q
    <3>4. PromptSafe(s)'
      BY <2>1, <3>1, PromptSafeNext DEF Unused
    <3>5. PromptOK(g)'
      <4>1. Below(q, asked'[s]) /\ prompt'[s] < asked'[s]
        BY <1>2, <1>3, <3>1, <3>2, <3>3
      <4>. QED BY <2>1, <3>1, <4>1 DEF PromptOK, Stashing, Writing, Below, Recs
    <3>. QED BY <3>4, <3>5
  <2>4. CASE StashWrite(g)
    <3>1. hk[g].at = "stashed" /\ hk'[g].at = "free" /\ prompt'[s] = hk[g].ex
      BY <1>1, <1>2, <1>3, <2>4, EndsHook DEF StashWrite
    <3>2. hk[g].ex = asked[s] /\ Below(q, asked[s])
      BY <1>1, <1>2, <2>1, <3>1 DEF TurnInv, TurnOK, PromptOK, Stashing, q
    <3>3. \A i \in DOMAIN q : q[i][2] \in Nat
      BY <2>1, RecType
    <3>4. Unused(prompt'[s], q)
      BY <1>3, <3>1, <3>2, <3>3 DEF Below, Unused
    <3>5. PromptSafe(s)'
      BY <2>1, <3>4, PromptSafeNext
    <3>. QED BY <3>1, <3>5 DEF PromptOK
  <2>5. CASE TakeRead(g)
    <3>1. /\ hk'[g].s = s /\ hk'[g].at = (IF prompt[s] = -1 THEN "records" ELSE "taken") /\ prompt' = prompt
          /\ hk'[g].user = IF prompt[s] = -1 THEN 0 ELSE prompt[s]
      <4>1. prompt' = prompt
        BY <2>5 DEF TakeRead
      <4>. QED BY Zenon, <1>1, <2>5, <4>1, TakeReadHook
    <3>2. Unused(0, q)
      BY DEF Unused
    <3>3. PromptOK(g)'
      BY <2>1, <3>1, <3>2 DEF PromptOK, Stashing, Writing, Unused, Recs
    <3>. QED BY <2>2, <3>1, <3>3
  <2>6. CASE TakeRemove(g)
    <3>1. /\ hk[g].at = "taken" /\ hk'[g].at = "records" /\ hk'[g].s = s /\ hk'[g].user = hk[g].user /\ prompt'[s] = -1
      BY <1>1, <1>2, <1>3, <2>6, ToHook DEF TakeRemove, Taken, Stages, Unwritten
    <3>2. hk[g].user = prompt[s] /\ hk[g].user \in 0 .. asked[s]
      BY Zenon, <1>1, <1>2, <2>1, <3>1 DEF PromptOK, TypeInv, HookOK, Unwritten
    <3>3. \A i \in DOMAIN q : q[i][2] \in Nat
      BY <2>1, RecType
    <3>4. Unused(-1, q)
      BY <3>3 DEF Unused
    <3>5. PromptSafe(s)'
      BY <2>1, <3>1, <3>4, PromptSafeNext
    <3>6. hk'[g].user # prompt'[s] /\ Unused(hk'[g].user, q)
      BY <1>3, <2>1, <3>1, <3>2
    <3>7. PromptOK(g)'
      BY <2>1, <3>1, <3>6 DEF PromptOK, Stashing, Writing, Unused, Recs
    <3>. QED BY <3>5, <3>7
  <2>7. CASE LatestTurn(g)
    BY <1>1, <1>5, <2>7 DEF LatestTurn, TypeInv, HookOK
  <2>8. CASE Records(g)
    <3>1. /\ hk[g].at = "records" /\ hk'[g].at \in {"create", "append"} /\ hk'[g].s = s /\ hk'[g].user = hk[g].user
          /\ hk'[g].seen = q /\ prompt' = prompt
      <4>1. prompt' = prompt
        BY <2>8 DEF Records
      <4>2. hk[g].at = "records" /\ hk'[g].s = hk[g].s /\ hk'[g].user = hk[g].user
            /\ hk'[g].at \in {"create", "append"} /\ hk'[g].seen = Recs(file[hk[g].s]["pend"])
        BY Zenon, <1>1, <2>8, RecordsHook
      <4>. QED BY Zenon, <1>1, <4>1, <4>2 DEF q
    <3>2. (hk[g].user = prompt[s] => hk[g].user = 0) /\ Unused(hk[g].user, q)
      BY <1>1, <2>1, <3>1 DEF PromptOK, q
    <3>3. PromptOK(g)'
      BY <2>1, <3>1, <3>2 DEF PromptOK, Stashing, Writing, Unused, OnceEach, Recs
    <3>. QED BY <2>2, <3>1, <3>3
  <2>9. CASE PruneStat(g) \/ Kill(g)
    <3>1. prompt' = prompt
      BY <2>9 DEF PruneStat, Kill
    <3>2. hk'[g].at \in {"free", "remove"}
      BY <2>9, PruneStatHook, EndsHook DEF Kill
    <3>. QED BY <2>2, <3>1, <3>2, PromptFree DEF Stashing, Writing
  <2>. QED BY <2>3, <2>4, <2>5, <2>6, <2>7, <2>8, <2>9 DEF Calm
<1>6. s \notin Inline \ mixed' => PromptOK(g)'
  BY <1>2 DEF PromptOK
<1>7. \A t \in Sessions : t # s => prompt'[t] = prompt[t] /\ file'[t]["pend"] \in {file[t]["pend"], NoFile}
  BY <1>2, <1>4
<1>. QED BY <1>1, <1>2, <1>5, <1>6, <1>7, PromptOthers

LEMMA AppendPrompt ==
    ASSUME TypeInv, Apart, PromptInv, mixed \subseteq mixed', NEW g \in Hooks, AppendLine(g)
    PROVE  PromptInv'
<1>1. PICK s : s = hk[g].s
  OBVIOUS
<1>2. /\ s \in Sessions /\ hk[g].at = "append" /\ hk'[g].at = "prune" /\ asked' = asked /\ prompt' = prompt
      /\ \A h \in Hooks \ {g} : Carried(h)
      /\ file'[s]["pend"] = Append(Recs(file[s]["pend"]), Record(g))
      /\ \A t \in Sessions : t # s => file'[t]["pend"] = file[t]["pend"]
  BY <1>1, AppendIs DEF Names
<1>3. hk[g].at \in Writing
  BY <1>2 DEF Writing
<1>4. PromptOK(g)'
  BY <1>2, PromptFree DEF Stashing, Writing
<1>5. ASSUME s \in Inline \ mixed' PROVE PromptSafe(s)'
  <2>. DEFINE q == Recs(file[s]["pend"])
              r == Record(g)
  <2>1. q \in Seq(Rec) /\ r \in Rec /\ r[2] = hk[g].user
    BY <1>2, <1>3, ContentsType, RecordIs DEF Names
  <2>2. OnceEach(q) /\ Unused(prompt[s], q) /\ PromptOK(g) /\ s \notin mixed
    BY <1>5 DEF PromptInv
  <2>3. (r[2] = prompt[s] => r[2] = 0) /\ Unused(r[2], q)
    BY <1>1, <1>2, <1>3, <1>5, <2>1, <2>2 DEF PromptOK
  <2>. HIDE DEF q, r
  <2>4. OnceEach(Append(q, r)) /\ Unused(prompt[s], Append(q, r))
    <3>. DEFINE u == prompt[s]
    <3>1. Unused(u, q) /\ (r[2] = u => u = 0)
      BY <2>2, <2>3
    <3>. HIDE DEF u
    <3>2. OnceEach(Append(q, r)) /\ Unused(u, Append(q, r))
      BY <2>1, <2>2, <2>3, <3>1, OnceAppend
    <3>. QED BY <3>2 DEF u
  <2>5. file'[s]["pend"] = Append(q, r) /\ Append(q, r) \in Seq(Rec)
    BY <1>2, <2>1, Appended DEF q, r
  <2>6. Recs(file'[s]["pend"]) = Append(q, r)
    BY Zenon, <2>5, RecsOf
  <2>. QED BY Zenon, <1>2, <2>4, <2>6, PromptSafeNext
<1>. QED BY <1>1, <1>2, <1>4, <1>5, PromptOthers

LEMMA RewritePrompt ==
    ASSUME TypeInv, Apart, RewriteInv, PromptInv, mixed \subseteq mixed', NEW g \in Hooks,
           CreateTmp(g) \/ FlushTmp(g)
    PROVE  PromptInv'
<1>1. PICK s : s = hk[g].s
  OBVIOUS
<1>2. /\ s \in Sessions /\ hk[g].at \in {"create", "flush"} /\ hk'[g].at \in {"flush", "rename"} /\ asked' = asked
      /\ hk'[g].s = s /\ hk'[g].user = hk[g].user /\ hk'[g].seen = hk[g].seen /\ \A h \in Hooks \ {g} : Carried(h)
      /\ prompt' = prompt
      /\ \A t \in Sessions : t # s => file'[t]["pend"] = file[t]["pend"]
      /\ hk[g].at = "create" \/ hk[g].into = "tmp" => file'[s]["pend"] = file[s]["pend"]
  <2>1. CASE CreateTmp(g)
    BY <1>1, <2>1, CreateIs DEF Names
  <2>2. CASE FlushTmp(g)
    BY <1>1, <2>2, FlushIs DEF Names
  <2>. QED BY <2>1, <2>2
<1>3. s \notin mixed' => file'[s]["pend"] = file[s]["pend"]
  BY <1>1, <1>2 DEF RewriteInv, RewriteOK, Rewriting, Writing
<1>4. PromptOK(g)'
  <2>1. CASE s \in Inline \ mixed'
    <3>1. PromptOK(g) /\ s \notin mixed /\ hk[g].at \in Writing /\ hk[g].at \notin Stashing \cup {"taken"}
      BY <1>2, <2>1 DEF PromptInv, Writing, Stashing
    <3>2. /\ hk[g].user = prompt[s] => hk[g].user = 0
          /\ Unused(hk[g].user, Recs(file[s]["pend"]))
          /\ OnceEach(hk[g].seen) /\ Unused(hk[g].user, hk[g].seen) /\ Unused(prompt[s], hk[g].seen)
      BY <1>1, <1>2, <2>1, <3>1 DEF PromptOK
    <3>. QED BY <1>2, <1>3, <2>1, <3>2 DEF PromptOK, Unused, OnceEach, Recs, Stashing
  <2>2. CASE s \notin Inline \ mixed'
    BY <1>2, <2>2 DEF PromptOK
  <2>. QED BY <2>1, <2>2
<1>5. s \in Inline \ mixed' => PromptSafe(s)'
  BY <1>2, <1>3, PromptSafeStays DEF PromptInv, PromptSafe
<1>. QED BY <1>1, <1>2, <1>4, <1>5, PromptOthers

LEMMA RenamePrompt ==
    ASSUME TypeInv, Apart, RewriteInv, PromptInv, mixed \subseteq mixed', NEW g \in Hooks, RenameTmp(g)
    PROVE  PromptInv'
<1>1. PICK s : s = hk[g].s
  OBVIOUS
<1>2. CASE file[s]["tmp"] = NoFile
  <2>1. /\ hk[g].at = "rename" /\ hk'[g].at = "free" /\ asked' = asked /\ file' = file /\ prompt' = prompt
        /\ \A h \in Hooks \ {g} : Carried(h)
    BY <1>1, <1>2, RenameFails
  <2>2. PromptOK(g)'
    BY <2>1, PromptFree DEF Stashing, Writing
  <2>3. s \in Inline \ mixed' => PromptSafe(s)'
    BY <2>1, PromptSafeStays DEF PromptInv, PromptSafe
  <2>. QED BY <1>1, <2>1, <2>2, <2>3, PromptOthers
<1>3. CASE file[s]["tmp"] # NoFile
  <2>1. /\ s \in Sessions /\ hk[g].at = "rename" /\ hk'[g].at = "prune" /\ asked' = asked /\ prompt' = prompt
        /\ \A h \in Hooks \ {g} : Carried(h)
        /\ file'[s]["pend"] = file[s]["tmp"]
        /\ \A t \in Sessions : t # s => file'[t]["pend"] = file[t]["pend"]
    BY <1>1, <1>3, RenameIs DEF Names
  <2>2. hk[g].at \in Writing /\ hk[g].at \in Rewriting
    BY <2>1 DEF Writing, Rewriting
  <2>3. ASSUME s \in Inline \ mixed' PROVE PromptSafe(s)'
    <3>. DEFINE q == hk[g].seen
                r == Record(g)
                u == prompt[s]
    <3>1. PromptOK(g) /\ s \notin mixed
      BY <2>3 DEF PromptInv
    <3>2. /\ q \in Seq(Rec) /\ r \in Rec /\ r[2] = hk[g].user /\ Shortened(g) = Short(q, r) /\ Len(q) >= MaxTurns
      BY <2>2, RecordIs, ShortenedIs
    <3>3. OnceEach(q) /\ Unused(r[2], q) /\ Unused(u, q) /\ (r[2] = u => u = 0)
      BY <1>1, <2>1, <2>2, <2>3, <3>1, <3>2 DEF PromptOK
    <3>4. file[s]["tmp"] = Shortened(g)
      BY <1>1, <2>1, <2>2, <3>1 DEF RewriteInv, RewriteOK
    <3>. HIDE DEF q, r, u
    <3>5. Short(q, r) \in Seq(Rec)
      BY <3>2, ShortIs
    <3>6. OnceEach(Short(q, r)) /\ Unused(u, Short(q, r))
      BY <3>2, <3>3, OnceShort
    <3>7. Recs(file'[s]["pend"]) = Short(q, r)
      BY <2>1, <3>2, <3>4, <3>5, RecsOf
    <3>8. prompt'[s] = u
      BY <2>1 DEF u
    <3>. QED BY <3>6, <3>7, <3>8, PromptSafeNext
  <2>4. PromptOK(g)'
    BY <2>1, PromptFree DEF Stashing, Writing
  <2>. QED BY <1>1, <2>1, <2>3, <2>4, PromptOthers
<1>. QED BY <1>2, <1>3

LEMMA RemovePrompt ==
    ASSUME TypeInv, Apart, PromptInv, mixed \subseteq mixed', NEW g \in Hooks, PruneRemove(g)
    PROVE  PromptInv'
<1>1. PICK s, v : s = hk[g].s /\ v = hk[g].victim
  OBVIOUS
<1>2. /\ v \in Sessions /\ hk[g].at = "remove" /\ hk'[g].at = "prune" /\ asked' = asked /\ prompt' = prompt
      /\ \A h \in Hooks \ {g} : Carried(h)
      /\ file'[v]["pend"] = NoFile
      /\ \A t \in Sessions : t # v => file'[t]["pend"] = file[t]["pend"]
  BY <1>1, RemoveIs DEF Names
<1>3. \A t \in Sessions : prompt'[t] = prompt[t] /\ file'[t]["pend"] \in {file[t]["pend"], NoFile}
  BY <1>2
<1>4. PromptOK(g)'
  BY <1>2, PromptFree DEF Stashing, Writing
<1>5. s \in Inline \ mixed' => PromptSafe(s)'
  BY <1>3, PromptSafeStays, CaptureAssumption DEF PromptInv, PromptSafe
<1>. QED BY <1>1, <1>2, <1>3, <1>4, <1>5, PromptOthers

LEMMA ArchivePrompt == ASSUME TypeInv, PushInv, PromptInv, Archive PROVE PromptInv'
<1>1. /\ asked' = asked /\ mixed' = mixed /\ prompt' = prompt /\ \A g \in Hooks : Carried(g)
      /\ \A t \in Sessions : file'[t]["pend"] \in {file[t]["pend"], NoFile}
  BY ArchiveFiles
<1>2. ASSUME NEW h \in Hooks PROVE PromptOK(h)'
  <2>1. PICK s : s = hk[h].s
    OBVIOUS
  <2>2. hk[h].at # "free" => s \in Sessions
    BY <2>1 DEF TypeInv, HookOK
  <2>. QED BY <1>1, <2>1, <2>2, PromptCarried DEF PromptInv
<1>3. ASSUME NEW s \in Inline \ mixed' PROVE PromptSafe(s)'
  BY <1>1, PromptSafeStays, CaptureAssumption DEF PromptInv, PromptSafe
<1>. QED BY <1>2, <1>3 DEF PromptInv, PromptSafe

LEMMA StashStarts ==
    ASSUME TypeInv, SessionStep, NEW h \in Hooks, hk[h].at = "free", hk'[h].at = "stash", NEW s, s = hk'[h].s
    PROVE  asked'[s] = asked[s] + 1
<1>1. ASSUME NEW t \in Sessions, Submit(t) PROVE asked'[s] = asked[s] + 1
  <2>1. t \in Inline
    <3>1. t \notin Inline => hk' = hk
      BY <1>1 DEF Submit
    <3>. QED BY <3>1
  <2>2. PICK g \in Hooks : Others(g) /\ hk'[g].at = "stash" /\ hk'[g].s = t
    BY <1>1, <2>1, SubmitHook
  <2>3. g = h
    BY <2>2 DEF Others
  <2>. QED BY Zenon, <1>1, <2>2, <2>3 DEF Submit, TypeInv
<1>2. ASSUME NEW t \in Sessions, Stop(t) PROVE FALSE
  <2>1. PICK g \in Hooks : Others(g) /\ hk'[g].at \in {"take", "transcript"}
    BY <1>2, StopHook
  <2>2. g = h
    BY <2>1 DEF Others
  <2>. QED BY <2>1, <2>2
<1>3. ASSUME hk' = hk PROVE FALSE
  BY <1>3
<1>. QED BY <1>1, <1>2, <1>3 DEF SessionStep, Land, TimePasses

LEMMA SessionPrompt ==
    ASSUME TypeInv, PromptInv, SessionStep, Remember
    PROVE  PromptInv'
<1>1. /\ file' = file /\ prompt' = prompt
      /\ \A h \in Hooks : \/ hk'[h] = hk[h]
                          \/ hk[h].at = "free" /\ hk'[h].at \in {"stash", "take", "transcript"} /\ hk'[h].s \in Sessions
  BY SessionStepIs
<1>2. mixed \subseteq mixed' /\ \A s \in Sessions \ mixed' : asked'[s] # asked[s] => Running(s) = {}
  BY Remembered
<1>3. ASSUME NEW h \in Hooks PROVE PromptOK(h)'
  <2>1. CASE hk'[h] = hk[h]
    <3>1. PICK s : s = hk[h].s
      OBVIOUS
    <3>2. CASE hk[h].at # "free" /\ s \in Inline \ mixed'
      <4>1. s \in Sessions /\ h \in Running(s)
        BY <3>1, <3>2 DEF TypeInv, HookOK, Running
      <4>2. asked'[s] = asked[s] /\ s \notin mixed
        BY <1>2, <3>2, <4>1
      <4>3. PromptOK(h)
        BY DEF PromptInv
      <4>. QED BY <1>1, <2>1, <3>1, <3>2, <4>2, <4>3 DEF PromptOK, Recs, OnceEach, Unused, Below
    <3>3. CASE ~(hk[h].at # "free" /\ s \in Inline \ mixed')
      BY <2>1, <3>1, <3>3 DEF PromptOK
    <3>. QED BY <3>2, <3>3
  <2>2. CASE hk'[h].at \in {"take", "transcript"}
    BY <2>2, PromptFree DEF Stashing, Writing
  <2>3. CASE hk[h].at = "free" /\ hk'[h].at = "stash" /\ hk'[h].s \in Sessions
    <3>1. PICK s \in Sessions : s = hk'[h].s
      BY <2>3
    <3>2. asked'[s] = asked[s] + 1
      BY <2>3, <3>1, StashStarts
    <3>. DEFINE q == Recs(file[s]["pend"])
    <3>3. /\ asked[s] \in Nat /\ prompt[s] \in -1 .. asked[s] /\ GoodRecs(q, Written(s), asked[s])
      BY <3>1, FiredType DEF TypeInv, SessionOK, Names
    <3>. HIDE DEF q
    <3>4. \A i \in DOMAIN q : q[i][2] \in 0 .. asked[s]
      BY <3>3, MarkerType DEF GoodRecs
    <3>5. Below(q, asked'[s]) /\ prompt'[s] < asked'[s]
      BY <1>1, <3>2, <3>3, <3>4 DEF Below
    <3>. QED BY <1>1, <2>3, <3>1, <3>5 DEF PromptOK, Stashing, Writing, Below, Recs, q
  <2>. QED BY <1>1, <2>1, <2>2, <2>3
<1>4. ASSUME NEW s \in Inline \ mixed' PROVE PromptSafe(s)'
  BY <1>1, <1>2, PromptSafeStays DEF PromptInv, PromptSafe
<1>. QED BY <1>3, <1>4 DEF PromptInv, PromptSafe

LEMMA SamePrompt == ASSUME PromptInv, UNCHANGED captureVars PROVE PromptInv'
BY DEF captureVars, PromptInv, PromptOK, OnceEach, Unused, Below, Recs

LEMMA PromptStep ==
    ASSUME TypeInv, PushInv, Apart, RewriteInv, TurnInv, PromptInv, DistillNext
    PROVE  PromptInv'
<1>1. mixed \subseteq mixed'
  BY ApartStep
<1>. QED BY <1>1, StepIs, SessionPrompt, CalmPrompt, AppendPrompt, RewritePrompt, RenamePrompt, RemovePrompt,
            ArchivePrompt, SamePrompt

-----------------------------------------------------------------------------
(* The size of a buffer *)

LEMMA CapType ==
    ASSUME RoomToDrop
    PROVE  /\ Cardinality(Hooks) \in Nat /\ MaxTurns \in Nat /\ Cap \in Nat /\ Cap = MaxTurns + Cardinality(Hooks) - 1
           /\ Cardinality(Hooks) <= Cap /\ MaxTurns <= Cap /\ Cap - DropOldest + 2 <= MaxTurns
<1>1. DropOldest \in 1 .. MaxTurns /\ MaxTurns \in Nat /\ Cardinality(Hooks) \in Nat
  BY CaptureAssumption, FS_CardinalityType
<1>. QED BY <1>1 DEF RoomToDrop, Cap

LEMMA SizeNext ==
    ASSUME NEW s
    PROVE  SizeOK(s)' <=> /\ Len(Recs(file'[s]["pend"])) + Cardinality(Appending(s)') <= Cap
                          /\ Len(Recs(file'[s]["tmp"])) <= MaxTurns
BY DEF SizeOK, Recs, Cap, Appending

(* The hooks about to append, beside one that steps. *)
LEMMA AppendingNext ==
    ASSUME NEW g \in Hooks, \A h \in Hooks \ {g} : Carried(h), NEW s
    PROVE  LET n == Cardinality(Appending(s))  m == Cardinality(Appending(s)')  all == Cardinality(Hooks) IN
           /\ n \in Nat /\ m \in Nat /\ n <= all /\ m <= all
           /\ hk'[g].at # "append" => m <= n /\ m <= all - 1
           /\ hk'[g].at # "append" /\ hk[g].at = "append" /\ hk[g].s = s => m = n - 1
           /\ hk'[g].at = "append" /\ hk'[g].s # s => m <= n
<1>. DEFINE A == Appending(s)
            B == Appending(s)'
<1>1. A \subseteq Hooks /\ B \subseteq Hooks /\ A \ {g} = B \ {g}
      /\ (g \in A <=> hk[g].at = "append" /\ hk[g].s = s) /\ (g \in B <=> hk'[g].at = "append" /\ hk'[g].s = s)
  BY DEF Appending, Carried
<1>. HIDE DEF A, B
<1>2. CASE g \in A
  <2>1. Cardinality(A \ {g}) = Cardinality(A) - 1 /\ Cardinality(A) >= 1
    BY <1>1, <1>2, Counting
  <2>2. CASE g \in B
    <3>1. A = B
      BY <1>1, <1>2, <2>2
    <3>. QED BY <1>1, <2>2, <3>1, Counting DEF A, B
  <2>3. CASE g \notin B
    <3>1. B = A \ {g}
      BY <1>1, <2>3
    <3>. QED BY <1>1, <1>2, <2>1, <3>1, Counting DEF A, B
  <2>. QED BY <2>2, <2>3
<1>3. CASE g \notin A
  <2>1. CASE g \in B
    BY <1>1, <1>3, <2>1, Counting DEF A, B
  <2>2. CASE g \notin B
    <3>1. A = B
      BY <1>1, <1>3, <2>2
    <3>2. Cardinality(B \cup {g}) = Cardinality(B) + 1 /\ B \cup {g} \subseteq Hooks
      BY <1>1, <2>2, Counting
    <3>3. Cardinality(B \cup {g}) <= Cardinality(Hooks) /\ Cardinality(B) \in Nat /\ Cardinality(Hooks) \in Nat
      BY <1>1, <3>2, Counting
    <3>. QED BY <1>1, <1>3, <2>2, <3>1, <3>2, <3>3 DEF A, B
  <2>. QED BY <2>1, <2>2
<1>. QED BY <1>2, <1>3

LEMMA LengthType ==
    ASSUME TypeInv, NEW s \in Sessions, NEW f \in Names
    PROVE  Len(Recs(file[s][f])) \in Nat /\ Len(Recs(NoFile)) = 0
BY ContentsType, RecsOf

LEMMA BoundOthers ==
    ASSUME TypeInv, BoundInv, RoomToDrop, NEW g \in Hooks, \A h \in Hooks \ {g} : Carried(h),
           hk'[g].at # "append", NEW s,
           \A t \in Sessions : t # s => file'[t]["pend"] = file[t]["pend"] /\ file'[t]["tmp"] = file[t]["tmp"],
           s \in Sessions => SizeOK(s)', hk'[g].at \in Rewriting => Len(hk'[g].seen) <= Cap
    PROVE  BoundInv'
<1>1. ASSUME NEW t \in Sessions, t # s PROVE SizeOK(t)'
  <2>. DEFINE n == Cardinality(Appending(t))
              m == Cardinality(Appending(t)')
              l == Len(Recs(file[t]["pend"]))
  <2>1. n \in Nat /\ m \in Nat /\ m <= n
    BY AppendingNext
  <2>2. l \in Nat /\ l + n <= Cap /\ Len(Recs(file[t]["tmp"])) <= MaxTurns /\ Cap \in Nat
    BY LengthType, CapType DEF BoundInv, SizeOK, Names
  <2>3. l + m <= Cap
    <3>. HIDE DEF l, m, n
    <3>. QED BY <2>1, <2>2
  <2>. QED BY <1>1, <2>2, <2>3, SizeNext
<1>2. ASSUME NEW h \in Hooks PROVE hk'[h].at \in Rewriting => Len(hk'[h].seen) <= Cap
  BY DEF BoundInv, Carried
<1>. QED BY <1>1, <1>2 DEF BoundInv, Cap, Rewriting, Writing

LEMMA CalmBound ==
    ASSUME TypeInv, BoundInv, RoomToDrop, NEW g \in Hooks, Calm(g)
    PROVE  BoundInv'
<1>1. PICK s : s = hk[g].s
  OBVIOUS
<1>2. /\ s \in Sessions /\ file' = file /\ \A h \in Hooks \ {g} : Carried(h)
      /\ hk'[g].at # "free" => hk'[g].s = s
      /\ hk'[g].at \in Writing => Records(g)
  BY <1>1, CalmIs
<1>. DEFINE n == Cardinality(Appending(s))
            m == Cardinality(Appending(s)')
            l == Len(Recs(file[s]["pend"]))
<1>3. /\ l \in Nat /\ Len(Recs(file[s]["tmp"])) <= MaxTurns /\ l + n <= Cap /\ Cap \in Nat
      /\ Cap = MaxTurns + Cardinality(Hooks) - 1 /\ MaxTurns \in Nat /\ Cardinality(Hooks) \in Nat
  BY <1>2, LengthType, CapType DEF BoundInv, SizeOK, Names
<1>4. n \in Nat /\ m \in Nat /\ m <= Cardinality(Hooks) /\ (hk'[g].at # "append" => m <= n)
  BY <1>2, AppendingNext
<1>5. hk'[g].at = "append" => l < MaxTurns
  BY <1>1, <1>2, <1>3, RecordsHook DEF IsFull, Writing
<1>6. l + m <= Cap
  <2>. HIDE DEF l, m, n
  <2>. QED BY <1>3, <1>4, <1>5
<1>7. SizeOK(s)'
  BY <1>2, <1>3, <1>6, SizeNext
<1>8. hk'[g].at \in Rewriting => Len(hk'[g].seen) <= Cap
  <2>1. l <= Cap
    <3>. HIDE DEF l, n
    <3>. QED BY <1>3, <1>4
  <2>. QED BY <1>1, <1>2, <2>1, RecordsHook DEF Rewriting
<1>9. ASSUME NEW t \in Sessions, t # s PROVE SizeOK(t)'
  <2>. DEFINE b == Cardinality(Appending(t))
              c == Cardinality(Appending(t)')
              k == Len(Recs(file[t]["pend"]))
  <2>1. b \in Nat /\ c \in Nat /\ c <= b
    BY <1>2, <1>9, AppendingNext
  <2>2. k \in Nat /\ k + b <= Cap /\ Len(Recs(file[t]["tmp"])) <= MaxTurns
    BY LengthType DEF BoundInv, SizeOK, Names
  <2>3. k + c <= Cap
    <3>. HIDE DEF b, c, k
    <3>. QED BY <1>3, <2>1, <2>2
  <2>. QED BY <1>2, <2>2, <2>3, SizeNext
<1>10. ASSUME NEW h \in Hooks PROVE hk'[h].at \in Rewriting => Len(hk'[h].seen) <= Cap
  BY <1>2, <1>8 DEF BoundInv, Carried
<1>. QED BY <1>7, <1>9, <1>10 DEF BoundInv, Cap, Rewriting, Writing

LEMMA AppendBound ==
    ASSUME TypeInv, BoundInv, RoomToDrop, NEW g \in Hooks, AppendLine(g)
    PROVE  BoundInv'
<1>1. PICK s : s = hk[g].s
  OBVIOUS
<1>2. /\ s \in Sessions /\ hk[g].at = "append" /\ hk'[g].at = "prune"
      /\ \A h \in Hooks \ {g} : Carried(h)
      /\ file'[s]["pend"] = Append(Recs(file[s]["pend"]), Record(g)) /\ file'[s]["tmp"] = file[s]["tmp"]
      /\ \A t \in Sessions : t # s => file'[t]["pend"] = file[t]["pend"] /\ file'[t]["tmp"] = file[t]["tmp"]
  BY <1>1, AppendIs DEF Names
<1>. DEFINE n == Cardinality(Appending(s))
            m == Cardinality(Appending(s)')
            q == Recs(file[s]["pend"])
<1>3. /\ q \in Seq(Rec) /\ Len(q) \in Nat /\ Len(Recs(file[s]["tmp"])) <= MaxTurns /\ Len(q) + n <= Cap /\ Cap \in Nat
  BY <1>2, LengthType, ContentsType, CapType DEF BoundInv, SizeOK, Names
<1>4. n \in Nat /\ m \in Nat /\ m = n - 1
  BY <1>1, <1>2, AppendingNext
<1>5. Record(g) \in Rec
  BY <1>2, RecordIs DEF Writing
<1>6. Len(Recs(file'[s]["pend"])) = Len(q) + 1
  <2>. HIDE DEF q
  <2>1. Append(q, Record(g)) \in Seq(Rec) /\ Len(Append(q, Record(g))) = Len(q) + 1
    BY <1>3, <1>5, Appended
  <2>2. file'[s]["pend"] = Append(q, Record(g))
    BY <1>2 DEF q
  <2>. QED BY Zenon, <2>1, <2>2, RecsOf
<1>7. Len(q) + 1 + m <= Cap
  <2>. HIDE DEF n, m, q
  <2>. QED BY <1>3, <1>4
<1>8. SizeOK(s)'
  BY Zenon, <1>2, <1>3, <1>6, <1>7, SizeNext
<1>. QED BY <1>2, <1>8, BoundOthers DEF Rewriting, Writing

LEMMA CreateBound ==
    ASSUME TypeInv, BoundInv, RoomToDrop, NEW g \in Hooks, CreateTmp(g)
    PROVE  BoundInv'
<1>1. PICK s : s = hk[g].s
  OBVIOUS
<1>2. /\ s \in Sessions /\ hk[g].at = "create" /\ hk'[g].at = "flush" /\ hk'[g].seen = hk[g].seen
      /\ \A h \in Hooks \ {g} : Carried(h)
      /\ file'[s]["pend"] = file[s]["pend"] /\ file'[s]["tmp"] = << >>
      /\ \A t \in Sessions : t # s => file'[t]["pend"] = file[t]["pend"] /\ file'[t]["tmp"] = file[t]["tmp"]
  BY <1>1, CreateIs DEF Names
<1>. DEFINE n == Cardinality(Appending(s))
            m == Cardinality(Appending(s)')
            l == Len(Recs(file[s]["pend"]))
<1>3. l \in Nat /\ l + n <= Cap /\ Cap \in Nat /\ MaxTurns \in Nat
  BY <1>2, LengthType, CapType DEF BoundInv, SizeOK, Names
<1>4. n \in Nat /\ m \in Nat /\ m <= n
  BY <1>2, AppendingNext
<1>5. l + m <= Cap
  <2>. HIDE DEF l, m, n
  <2>. QED BY <1>3, <1>4
<1>6. Len(Recs(<< >>)) = 0
  BY RecsOf
<1>7. SizeOK(s)'
  BY <1>2, <1>3, <1>5, <1>6, SizeNext
<1>8. Len(hk'[g].seen) <= Cap
  BY <1>2 DEF BoundInv, Rewriting, Writing
<1>. QED BY <1>2, <1>7, <1>8, BoundOthers

(* What a rewriter writes is not above the cap. *)
LEMMA ShortenedBound ==
    ASSUME TypeInv, BoundInv, RoomToDrop, NEW g \in Hooks, hk[g].at \in Rewriting
    PROVE  Shortened(g) \in Seq(Rec) /\ Len(Shortened(g)) \in Nat /\ Len(Shortened(g)) <= MaxTurns
<1>1. /\ hk[g].seen \in Seq(Rec) /\ Record(g) \in Rec /\ Shortened(g) = Short(hk[g].seen, Record(g))
      /\ Len(hk[g].seen) >= MaxTurns /\ Len(hk[g].seen) <= Cap
  BY RecordIs, ShortenedIs DEF BoundInv
<1>2. Shortened(g) \in Seq(Rec) /\ Len(Shortened(g)) = Len(hk[g].seen) - DropOldest + 2
  BY <1>1, ShortIs
<1>3. Len(hk[g].seen) \in Nat /\ Len(Shortened(g)) \in Nat /\ DropOldest \in Nat
  BY <1>1, <1>2, CaptureAssumption
<1>4. Cap \in Nat /\ MaxTurns \in Nat /\ Cap - DropOldest + 2 <= MaxTurns
  BY CapType
<1>. DEFINE a == Len(hk[g].seen)  b == Len(Shortened(g))
<1>5. a \in Nat /\ b \in Nat /\ a <= Cap /\ b = a - DropOldest + 2
  BY <1>1, <1>2, <1>3
<1>. HIDE DEF a, b
<1>6. b <= MaxTurns
  BY <1>3, <1>4, <1>5
<1>. QED BY <1>2, <1>3, <1>6 DEF b

LEMMA FlushBound ==
    ASSUME TypeInv, BoundInv, RoomToDrop, NEW g \in Hooks, FlushTmp(g)
    PROVE  BoundInv'
<1>1. PICK s, f : s = hk[g].s /\ f = hk[g].into
  OBVIOUS
<1>2. /\ s \in Sessions /\ hk[g].at = "flush" /\ hk'[g].at = "rename" /\ hk'[g].seen = hk[g].seen
      /\ \A h \in Hooks \ {g} : Carried(h)
      /\ "pend" # f => file'[s]["pend"] = file[s]["pend"]
      /\ "tmp" # f => file'[s]["tmp"] = file[s]["tmp"]
      /\ f \in Names => file'[s][f] = Overlay(file[s][f], Shortened(g))
      /\ \A t \in Sessions : t # s => file'[t]["pend"] = file[t]["pend"] /\ file'[t]["tmp"] = file[t]["tmp"]
  BY <1>1, FlushIs DEF Names
<1>3. Shortened(g) \in Seq(Rec) /\ Len(Shortened(g)) \in Nat /\ Len(Shortened(g)) <= MaxTurns
  BY <1>2, ShortenedBound DEF Rewriting, Writing
<1>. DEFINE n == Cardinality(Appending(s))
            m == Cardinality(Appending(s)')
            l == Len(Recs(file[s]["pend"]))
            k == Len(Recs(file[s]["tmp"]))
<1>4. /\ l \in Nat /\ k \in Nat /\ l + n <= Cap /\ k <= MaxTurns /\ Cap \in Nat /\ MaxTurns \in Nat
      /\ Cap = MaxTurns + Cardinality(Hooks) - 1 /\ Cardinality(Hooks) \in Nat
  BY <1>2, LengthType, CapType DEF BoundInv, SizeOK, Names
<1>5. n \in Nat /\ m \in Nat /\ m <= n /\ m <= Cardinality(Hooks) - 1
  BY <1>2, AppendingNext
<1>6. ASSUME NEW e \in Names, e = f
      PROVE  /\ Len(Recs(file'[s][e])) \in Nat
             /\ Len(Recs(file'[s][e])) <= MaxTurns \/ Len(Recs(file'[s][e])) = Len(Recs(file[s][e]))
  <2>. DEFINE c == file[s][e]
              o == Overlay(c, Shortened(g))
  <2>1. c \in Contents /\ Recs(c) \in Seq(Rec)
    BY <1>2, ContentsType
  <2>. HIDE DEF c
  <2>2. o \in Seq(Rec) /\ Len(o) = IF Len(Shortened(g)) > Len(Recs(c)) THEN Len(Shortened(g)) ELSE Len(Recs(c))
    BY <1>3, <2>1, OverlayIs
  <2>. HIDE DEF o
  <2>3. file'[s][e] = o /\ Recs(o) = o
    BY <1>2, <1>6, <2>2, RecsOf DEF c, o
  <2>4. Len(Recs(c)) \in Nat
    BY <2>1
  <2>. QED BY <1>3, <2>2, <2>3, <2>4 DEF c
<1>. DEFINE l1 == Len(Recs(file'[s]["pend"]))
            k1 == Len(Recs(file'[s]["tmp"]))
<1>7. l1 = l \/ (l1 \in Nat /\ l1 <= MaxTurns)
  BY <1>2, <1>6 DEF Names
<1>8. k1 = k \/ k1 <= MaxTurns
  BY <1>2, <1>6 DEF Names
<1>9. l1 + m <= Cap /\ k1 <= MaxTurns
  <2>. HIDE DEF l, k, m, n, l1, k1
  <2>. QED BY <1>4, <1>5, <1>7, <1>8
<1>10. SizeOK(s)'
  BY <1>9, SizeNext
<1>11. Len(hk'[g].seen) <= Cap
  BY <1>2 DEF BoundInv, Rewriting, Writing
<1>. QED BY <1>2, <1>10, <1>11, BoundOthers

LEMMA RenameBound ==
    ASSUME TypeInv, BoundInv, RoomToDrop, NEW g \in Hooks, RenameTmp(g)
    PROVE  BoundInv'
<1>1. PICK s : s = hk[g].s
  OBVIOUS
<1>2. CASE file[s]["tmp"] = NoFile
  <2>1. /\ hk'[g].at = "free" /\ file' = file /\ \A h \in Hooks \ {g} : Carried(h)
    BY <1>1, <1>2, RenameFails
  <2>2. ASSUME s \in Sessions PROVE SizeOK(s)'
    <3>. DEFINE n == Cardinality(Appending(s))
                m == Cardinality(Appending(s)')
                l == Len(Recs(file[s]["pend"]))
    <3>1. l \in Nat /\ l + n <= Cap /\ Cap \in Nat /\ Len(Recs(file[s]["tmp"])) <= MaxTurns
      BY <2>2, LengthType, CapType DEF BoundInv, SizeOK, Names
    <3>2. n \in Nat /\ m \in Nat /\ m <= n
      BY <2>1, AppendingNext
    <3>3. l + m <= Cap
      <4>. HIDE DEF l, m, n
      <4>. QED BY <3>1, <3>2
    <3>. QED BY <2>1, <3>1, <3>3, SizeNext
  <2>. QED BY <2>1, <2>2, BoundOthers DEF Rewriting, Writing
<1>3. CASE file[s]["tmp"] # NoFile
  <2>1. /\ s \in Sessions /\ hk'[g].at = "prune" /\ \A h \in Hooks \ {g} : Carried(h)
        /\ file'[s]["pend"] = file[s]["tmp"] /\ file'[s]["tmp"] = NoFile
        /\ \A t \in Sessions : t # s => file'[t]["pend"] = file[t]["pend"] /\ file'[t]["tmp"] = file[t]["tmp"]
    BY <1>1, <1>3, RenameIs DEF Names
  <2>. DEFINE m == Cardinality(Appending(s)')
              k == Len(Recs(file[s]["tmp"]))
  <2>2. k \in Nat /\ k <= MaxTurns /\ Cap = MaxTurns + Cardinality(Hooks) - 1 /\ Cardinality(Hooks) \in Nat
        /\ MaxTurns \in Nat /\ Len(Recs(NoFile)) = 0
    BY <2>1, LengthType, CapType DEF BoundInv, SizeOK, Names
  <2>3. m \in Nat /\ m <= Cardinality(Hooks) - 1
    BY <2>1, AppendingNext
  <2>4. k + m <= Cap
    <3>. HIDE DEF k, m
    <3>. QED BY <2>2, <2>3
  <2>5. SizeOK(s)'
    BY <2>1, <2>2, <2>4, SizeNext
  <2>. QED BY <2>1, <2>5, BoundOthers DEF Rewriting, Writing
<1>. QED BY <1>2, <1>3

LEMMA RemoveBound ==
    ASSUME TypeInv, BoundInv, RoomToDrop, NEW g \in Hooks, PruneRemove(g)
    PROVE  BoundInv'
<1>1. PICK v : v = hk[g].victim
  OBVIOUS
<1>2. /\ v \in Sessions /\ hk'[g].at = "prune" /\ \A h \in Hooks \ {g} : Carried(h)
      /\ file'[v]["pend"] = NoFile /\ file'[v]["tmp"] = file[v]["tmp"]
      /\ \A t \in Sessions : t # v => file'[t]["pend"] = file[t]["pend"] /\ file'[t]["tmp"] = file[t]["tmp"]
  BY <1>1, RemoveIs DEF Names
<1>3. Len(Recs(NoFile)) = 0 /\ Len(Recs(file[v]["tmp"])) <= MaxTurns /\ Cardinality(Hooks) <= Cap /\ Cap \in Nat
      /\ Cardinality(Hooks) \in Nat
  BY <1>2, LengthType, CapType DEF BoundInv, SizeOK, Names
<1>4. Cardinality(Appending(v)') \in Nat /\ Cardinality(Appending(v)') <= Cardinality(Hooks)
  BY <1>2, AppendingNext
<1>5. SizeOK(v)'
  BY <1>2, <1>3, <1>4, SizeNext
<1>. QED BY <1>2, <1>5, BoundOthers DEF Rewriting, Writing

(* Steps of others than the hooks. *)
LEMMA BesideBound ==
    ASSUME TypeInv, BoundInv, RoomToDrop,
           \A s \in Sessions : /\ file'[s]["pend"] \in {file[s]["pend"], NoFile}
                               /\ file'[s]["tmp"] = file[s]["tmp"],
           \A h \in Hooks : Carried(h) \/ (hk[h].at = "free" /\ hk'[h].at \notin Writing)
    PROVE  BoundInv'
<1>1. ASSUME NEW s \in Sessions PROVE SizeOK(s)'
  <2>1. Appending(s)' = Appending(s)
    BY DEF Appending, Carried, Writing
  <2>. DEFINE n == Cardinality(Appending(s))
              l == Len(Recs(file[s]["pend"]))
  <2>2. l \in Nat /\ l + n <= Cap /\ Cap \in Nat /\ Len(Recs(file[s]["tmp"])) <= MaxTurns /\ Len(Recs(NoFile)) = 0
    BY LengthType, CapType DEF BoundInv, SizeOK, Names
  <2>3. n \in Nat
    BY Counting DEF Appending
  <2>4. n <= Cap
    <3>. HIDE DEF n, l
    <3>. QED BY <2>2, <2>3
  <2>5. Len(Recs(file'[s]["pend"])) = l \/ Len(Recs(file'[s]["pend"])) = 0
    BY <2>2
  <2>6. Len(Recs(file'[s]["pend"])) + n <= Cap
    <3>. HIDE DEF n, l
    <3>. QED BY <2>2, <2>3, <2>4, <2>5
  <2>. QED BY <2>1, <2>2, <2>6, SizeNext
<1>2. ASSUME NEW h \in Hooks PROVE hk'[h].at \in Rewriting => Len(hk'[h].seen) <= Cap
  BY DEF BoundInv, Carried, Rewriting
<1>. QED BY <1>1, <1>2 DEF BoundInv, Cap, Rewriting, Writing

LEMMA BoundStep ==
    ASSUME TypeInv, PushInv, BoundInv, RoomToDrop, DistillNext
    PROVE  BoundInv'
<1>1. CASE SessionStep
  <2>1. file' = file /\ \A h \in Hooks : Carried(h) \/ (hk[h].at = "free" /\ hk'[h].at \notin Writing)
    BY <1>1, SessionStepIs DEF Writing
  <2>. QED BY <2>1, BesideBound
<1>2. CASE Archive
  <2>1. /\ \A g \in Hooks : Carried(g)
        /\ \A t \in Sessions : file'[t]["pend"] \in {file[t]["pend"], NoFile} /\ file'[t]["tmp"] = file[t]["tmp"]
    BY <1>2, ArchiveFiles
  <2>. QED BY <2>1, BesideBound
<1>3. CASE UNCHANGED captureVars
  <2>1. file' = file /\ hk' = hk
    BY <1>3 DEF captureVars
  <2>. QED BY <2>1, BesideBound DEF Carried
<1>. QED BY <1>1, <1>2, <1>3, StepIs, CalmBound, AppendBound, CreateBound, FlushBound, RenameBound, RemoveBound

-----------------------------------------------------------------------------
(* The reply of an exchange *)

(* The final text is the last of all, and told from those before it.       *)
LEMMA AllTextsAre ==
    ASSUME NEW x \in Shapes
    PROVE  /\ Len(x) \in Nat /\ Len(x) - 1 \in Nat
           /\ TextsOf(x, Len(x) - 1) \in Seq(1 .. Len(x) - 1)
           /\ AllTexts(x) = Append(TextsOf(x, Len(x) - 1), Len(x))
<1>1. x \in Seq(STRING) /\ x # << >> /\ x[Len(x)] = "text"
  BY CaptureAssumption
<1>. DEFINE n == Len(x) - 1
<1>2. n \in Nat /\ Len(x) = n + 1
  BY <1>1
<1>. HIDE DEF n
<1>. DEFINE q == [k \in 1 .. n + 1 |-> k]
            p == [k \in 1 .. n |-> k]
            S == {k \in DOMAIN x : x[k] = "text"}
<1>3. /\ Len(q) = n + 1 /\ Len(p) = n /\ q[n + 1] = n + 1 /\ n + 1 \in S
      /\ \A i \in 1 .. n : p[i] = q[i]
  BY <1>1, <1>2
<1>4. TextsOf(x, n + 1) = Pick(q, S) /\ TextsOf(x, n) = Pick(p, S)
  BY DEF TextsOf
<1>5. Pick(q, S) = Append(Pick(p, S), n + 1)
  <2>. HIDE DEF q, p, S
  <2>. QED BY <1>3, PickPrefix
<1>. HIDE DEF q, p, S
<1>6. TextsOf(x, n + 1) = Append(TextsOf(x, n), n + 1)
  BY <1>4, <1>5
<1>7. TextsOf(x, n) \in Seq(1 .. n)
  BY <1>2, TextsType
<1>. QED BY <1>2, <1>6, <1>7 DEF AllTexts, n

LEMMA WholeReply ==
    ASSUME TypeInv, LastTextApart, NEW h \in Hooks, hk[h].at = "transcript", NEW s \in Sessions, s = hk[h].s,
           script[s].landed \in {Len(script[s].shape) - 1, Len(script[s].shape)},
           hk[h].final \/ Settled(s)
    PROVE  script[s].shape \in Shapes /\ Completed(s, hk[h].final) = AllTexts(script[s].shape)
<1>. DEFINE x == script[s].shape
            n == Len(x)
            before == TextsOf(x, n - 1)
            all == AllTexts(x)
<1>1. x \in Shapes
  BY Zenon DEF TypeInv, HookOK
<1>2. n \in Nat /\ n - 1 \in Nat /\ before \in Seq(1 .. n - 1) /\ all = Append(before, n)
  BY Zenon, <1>1, AllTextsAre
<1>3. all # << >> /\ all[Len(all)] = n
  <2>. HIDE DEF before, all, n
  <2>. QED BY <1>2
<1>4. before # << >> => before[Len(before)] # n
  <2>. HIDE DEF before, all, n
  <2>. QED BY <1>2
<1>5. CASE script[s].landed = n
  <2>1. Texts(s) = all
    BY <1>5 DEF Texts, AllTexts
  <2>. QED BY <1>1, <1>3, <2>1 DEF Completed, SQ!Last
<1>6. CASE script[s].landed = n - 1
  <2>1. Texts(s) = before
    BY <1>6 DEF Texts
  <2>2. hk[h].final
    <3>1. SUFFICES ASSUME ~hk[h].final PROVE FALSE
      OBVIOUS
    <3>2. n - 1 > 0 /\ x[n - 1] = "text"
      BY <1>6, <3>1 DEF Settled
    <3>3. n > 1
      BY <1>2, <3>2
    <3>. QED BY <1>1, <3>2, <3>3 DEF LastTextApart
  <2>. QED BY <1>1, <1>2, <1>4, <2>1, <2>2 DEF Completed, SQ!Last
<1>. QED BY <1>5, <1>6

LEMMA NewestKept ==
    ASSUME NEW x \in Shapes
    PROVE  NewestOf(NewestParts(AllTexts(x)), x)
<1>. DEFINE all == AllTexts(x)
            l == Len(all)
            ps == NewestParts(all)
<1>1. all \in Seq(Nat) /\ all # << >> /\ MaxParts \in Nat /\ MaxParts >= 1
  <2>1. all \in Seq(Nat)
    BY AllTextsAre, TextsType DEF AllTexts
  <2>2. TextsOf(x, Len(x) - 1) \in Seq(Nat) /\ all = Append(TextsOf(x, Len(x) - 1), Len(x))
    BY AllTextsAre, TextsType
  <2>3. all # << >>
    <3>. DEFINE b == TextsOf(x, Len(x) - 1)
    <3>1. b \in Seq(Nat) /\ all = Append(b, Len(x))
      BY <2>2
    <3>. HIDE DEF b, all
    <3>. QED BY <3>1
  <2>. QED BY <2>1, <2>3, CaptureAssumption
<1>. HIDE DEF all
<1>2. CASE l <= MaxParts
  <2>1. ps = all
    BY <1>2 DEF NewestParts
  <2>2. SubSeq(all, l - l + 1, l) = all
    BY <1>1
  <2>. QED BY <1>1, <2>1, <2>2 DEF NewestOf, all
<1>3. CASE ~(l <= MaxParts)
  <2>1. ps = SubSeq(all, l - MaxParts + 1, l)
    BY Zenon, <1>3 DEF NewestParts
  <2>2. Len(ps) = MaxParts
    BY <1>1, <1>3, <2>1
  <2>. HIDE DEF ps
  <2>3. ps # << >>
    BY <1>1, <2>2
  <2>4. ps = SubSeq(all, l - Len(ps) + 1, l)
    BY Zenon, <2>1, <2>2
  <2>. QED BY <2>3, <2>4 DEF NewestOf, all, ps
<1>. QED BY <1>2, <1>3

LEMMA ReplyFree ==
    ASSUME NEW g \in Hooks, hk'[g].at \notin {"transcript", "records"}
    PROVE  ReplyOK(g)'
BY DEF ReplyOK

LEMMA ReplyOthers ==
    ASSUME ReplyInv, mixed \subseteq mixed', NEW g \in Hooks, \A h \in Hooks \ {g} : Carried(h),
           script' = script, ReplyOK(g)'
    PROVE  ReplyInv'
<1>1. ASSUME NEW h \in Hooks \ {g} PROVE ReplyOK(h)'
  BY DEF ReplyInv, ReplyOK, Carried
<1>. QED BY <1>1 DEF ReplyInv

LEMMA CalmReply ==
    ASSUME TypeInv, ReplyInv, LastTextApart, mixed \subseteq mixed', NEW g \in Hooks, Calm(g)
    PROVE  ReplyInv'
<1>1. PICK s : s = hk[g].s
  OBVIOUS
<1>2. /\ s \in Sessions /\ script' = script /\ hk[g].at # "free"
      /\ \A h \in Hooks \ {g} : Carried(h)
      /\ hk'[g].at # "free" => hk'[g].s = s
      /\ hk'[g].at # "transcript"
      /\ hk'[g].at = "records" => TakeRead(g) \/ TakeRemove(g) \/ LatestTurn(g)
  BY <1>1, CalmIs
<1>3. CASE TakeRead(g) \/ TakeRemove(g)
  <2>1. s \in Inline
    BY <1>1, <1>3 DEF TakeRead, TakeRemove, TypeInv, HookOK
  <2>. QED BY <1>2, <2>1, ReplyOthers DEF ReplyOK
<1>4. CASE LatestTurn(g)
  <2>1. /\ hk[g].at = "transcript" /\ hk'[g].at = "records" /\ hk'[g].s = s
        /\ ~hk'[g].late => hk[g].final \/ Settled(s)
        /\ hk'[g].parts = NewestParts(Completed(s, hk[g].final))
    BY <1>1, <1>4, LatestTurnHook
  <2>2. ASSUME s \notin Inline \cup mixed', ~hk'[g].late PROVE NewestOf(hk'[g].parts, script[s].shape)
    <3>1. script[s].landed \in {Len(script[s].shape) - 1, Len(script[s].shape)}
      BY <1>1, <1>2, <2>1, <2>2 DEF ReplyInv, ReplyOK
    <3>2. script[s].shape \in Shapes /\ Completed(s, hk[g].final) = AllTexts(script[s].shape)
      BY <1>1, <1>2, <2>1, <2>2, <3>1, WholeReply
    <3>. QED BY <2>1, <3>2, NewestKept
  <2>3. ReplyOK(g)'
    BY <1>2, <2>1, <2>2 DEF ReplyOK, NewestOf, AllTexts
  <2>. QED BY <1>2, <2>3, ReplyOthers
<1>5. CASE hk'[g].at # "records"
  BY <1>2, <1>5, ReplyFree, ReplyOthers
<1>. QED BY <1>2, <1>3, <1>4, <1>5

(* What a lone hook's exchange looks like is not changed under it.         *)
LEMMA ScriptStays ==
    ASSUME TypeInv, SessionStep, Remember, NEW h \in Hooks, hk'[h] = hk[h], hk[h].at # "free",
           NEW s, s = hk[h].s, s \notin Inline \cup mixed'
    PROVE  /\ script'[s].shape = script[s].shape
           /\ script'[s].landed \in {script[s].landed, Len(script[s].shape)}
<1>1. s \in Sessions /\ h \in Running(s) /\ h \in Running(s)'
  BY Zenon DEF TypeInv, HookOK, Running
<1>2. Apart' /\ asked'[s] = asked[s] /\ script \in [Sessions -> [shape : Shapes \cup {<< >>}, landed : Nat]]
  BY Zenon, <1>1, Remembered DEF TypeInv
<1>3. ASSUME NEW t \in Sessions, Submit(t) PROVE script'[s] = script[s]
  <2>1. t # s
    BY <1>1, <1>2, <1>3, FiredType DEF Submit, TypeInv
  <2>. QED BY <1>1, <1>2, <1>3, <2>1 DEF Submit
<1>4. ASSUME NEW t \in Sessions, Stop(t) PROVE script'[s] = script[s]
  <2>1. t # s
    <3>1. SUFFICES ASSUME t = s PROVE FALSE
      OBVIOUS
    <3>2. PICK g \in Hooks : /\ hk[g].at = "free" /\ hk'[g].s = s
                             /\ hk'[g].at \in {"take", "transcript"}
      BY <1>4, <3>1, StopHook
    <3>3. g \in Running(s)' /\ g # h
      BY <3>2 DEF Running
    <3>. QED BY <1>1, <1>2, <3>3 DEF Apart
  <2>. QED BY <1>1, <1>2, <1>4, <2>1 DEF Stop
<1>5. ASSUME NEW t \in Sessions, Land(t)
      PROVE  script'[s].shape = script[s].shape /\ script'[s].landed \in {script[s].landed, Len(script[s].shape)}
  <2>1. CASE t # s
    BY <1>1, <1>2, <1>5, <2>1 DEF Land
  <2>2. CASE t = s
    <3>1. script[s].landed = Len(script[s].shape) - 1 /\ script' = [script EXCEPT ![s].landed = @ + 1]
      BY Zenon, <1>5, <2>2 DEF Land
    <3>2. script[s].landed \in Nat /\ Len(script[s].shape) = script[s].landed + 1
      <4>1. script[s].shape \in Shapes \cup {<< >>}
        BY <1>1, <1>2
      <4>2. Len(script[s].shape) \in Nat
        BY <4>1, CaptureAssumption
      <4>. QED BY <1>1, <1>2, <3>1, <4>2
    <3>3. script'[s].shape = script[s].shape /\ script'[s].landed = script[s].landed + 1
      BY <1>1, <1>2, <3>1
    <3>. QED BY <3>2, <3>3
  <2>. QED BY <2>1, <2>2
<1>6. CASE TimePasses
  BY <1>6 DEF TimePasses
<1>. QED BY <1>3, <1>4, <1>5, <1>6 DEF SessionStep

LEMMA SessionReply ==
    ASSUME TypeInv, ReplyInv, SessionStep, Remember
    PROVE  ReplyInv'
<1>1. \A h \in Hooks : \/ hk'[h] = hk[h]
                       \/ hk[h].at = "free" /\ hk'[h].at \in {"stash", "take", "transcript"}
  BY SessionStepIs
<1>2. mixed \subseteq mixed'
  BY Remembered
<1>3. ASSUME NEW h \in Hooks PROVE ReplyOK(h)'
  <2>1. CASE hk'[h] = hk[h]
    <3>1. PICK s : s = hk[h].s
      OBVIOUS
    <3>2. CASE hk[h].at # "free" /\ s \notin Inline \cup mixed'
      <4>1. /\ script'[s].shape = script[s].shape
            /\ script'[s].landed \in {script[s].landed, Len(script[s].shape)}
        BY <2>1, <3>1, <3>2, ScriptStays
      <4>2. ReplyOK(h) /\ s \notin mixed
        BY <1>2, <3>2 DEF ReplyInv
      <4>. QED BY Zenon, <2>1, <3>1, <3>2, <4>1, <4>2 DEF ReplyOK, NewestOf, AllTexts
    <3>3. CASE ~(hk[h].at # "free" /\ s \notin Inline \cup mixed')
      BY <2>1, <3>1, <3>3 DEF ReplyOK
    <3>. QED BY <3>2, <3>3
  <2>2. CASE hk'[h].at \in {"stash", "take"}
    BY <2>2, ReplyFree
  <2>3. CASE hk[h].at = "free" /\ hk'[h].at = "transcript"
    <3>1. ASSUME NEW t \in Sessions, Stop(t) PROVE ReplyOK(h)'
      <4>1. PICK g \in Hooks : /\ Others(g) /\ hk'[g].s = t
                               /\ hk'[g].at = IF t \in Inline THEN "take" ELSE "transcript"
        BY <3>1, StopHook
      <4>2. g = h
        BY <2>3, <4>1 DEF Others
      <4>3. t \notin Inline /\ hk'[h].s = t
        BY <2>3, <4>1, <4>2
      <4>4. script' = [script EXCEPT ![t].landed = Len(script[t].shape) - 1]
        BY <3>1, <4>3 DEF Stop
      <4>5. script'[t].landed = Len(script'[t].shape) - 1
        BY <4>4 DEF TypeInv
      <4>. QED BY <2>3, <4>3, <4>5 DEF ReplyOK
    <3>2. ASSUME NEW t \in Sessions, Submit(t) PROVE FALSE
      <4>1. CASE t \in Inline
        <5>1. PICK g \in Hooks : Others(g) /\ hk'[g].at = "stash"
          BY <3>2, <4>1, SubmitHook
        <5>2. g = h
          BY <2>3, <5>1 DEF Others
        <5>. QED BY <2>3, <5>1, <5>2
      <4>2. CASE t \notin Inline
        BY <2>3, <3>2, <4>2 DEF Submit
      <4>. QED BY <4>1, <4>2
    <3>3. hk' # hk
      BY <2>3
    <3>. QED BY <3>1, <3>2, <3>3 DEF SessionStep, Land, TimePasses
  <2>. QED BY <1>1, <2>1, <2>2, <2>3
<1>. QED BY <1>3 DEF ReplyInv

LEMMA SameReply ==
    ASSUME ReplyInv, \A h \in Hooks : Carried(h), UNCHANGED <<script, mixed>>
    PROVE  ReplyInv'
BY Zenon DEF ReplyInv, ReplyOK, NewestOf, AllTexts, Carried

LEMMA ReplyStep ==
    ASSUME TypeInv, PushInv, Apart, ReplyInv, LastTextApart, DistillNext
    PROVE  ReplyInv'
<1>1. mixed \subseteq mixed'
  BY ApartStep
<1>2. ASSUME NEW g \in Hooks, AppendLine(g) \/ CreateTmp(g) \/ FlushTmp(g) \/ RenameTmp(g) \/ PruneRemove(g)
      PROVE  ReplyInv'
  <2>1. PICK s, v : s = hk[g].s /\ v = hk[g].victim
    OBVIOUS
  <2>2. /\ script' = script /\ \A h \in Hooks \ {g} : Carried(h)
        /\ hk'[g].at \in {"prune", "flush", "rename", "free"}
    <3>1. CASE AppendLine(g)
      BY <2>1, <3>1, AppendIs
    <3>2. CASE CreateTmp(g)
      BY <2>1, <3>2, CreateIs
    <3>3. CASE FlushTmp(g)
      BY <2>1, <3>3, FlushIs
    <3>4. CASE RenameTmp(g)
      BY <2>1, <3>4, RenameIs, RenameFails
    <3>5. CASE PruneRemove(g)
      BY <2>1, <3>5, RemoveIs
    <3>. QED BY <1>2, <3>1, <3>2, <3>3, <3>4, <3>5
  <2>. QED BY <1>1, <2>2, ReplyFree, ReplyOthers
<1>3. CASE Archive
  BY <1>3, ArchiveFiles, SameReply
<1>4. CASE UNCHANGED captureVars
  <2>1. hk' = hk /\ UNCHANGED <<script, mixed>>
    BY <1>4 DEF captureVars
  <2>. QED BY <2>1, SameReply DEF Carried
<1>. QED BY <1>1, <1>2, <1>3, <1>4, StepIs, SessionReply, CalmReply

-----------------------------------------------------------------------------
(* The buffers *)

LEMMA EarlierTurns ==
    ASSUME NEW s \in Sessions
    PROVE  LET q == Recs(Earlier[s]) IN Increases(q) /\ OnceEach(q) /\ Unused(-1, q) /\ Len(q) <= MaxTurns
<1>1. CASE Earlier[s] = NoFile
  <2>1. Len(<< >>) = 0 /\ MaxTurns \in Nat
    BY CaptureAssumption
  <2>. QED BY <1>1, <2>1, PromptNone, IncreasesNone
<1>2. CASE Earlier[s] # NoFile
  <2>. DEFINE q == Earlier[s]
              m == MaxExchanges[s]
  <2>1. /\ Recs(q) = q /\ q \in Seq(Rec) /\ Len(q) <= MaxTurns
        /\ \A i \in DOMAIN q : q[i] = Marker \/ (q[i][1] \in 1 .. m /\ q[i][2] \in {0, q[i][1]} /\ q[i][3] = q[i][1])
        /\ \A i, j \in DOMAIN q : i < j => q[i][1] < q[j][1]
    BY <1>2, EarlierAssumption DEF Recs, Rec
  <2>2. m \in Nat
    BY CaptureAssumption
  <2>. HIDE DEF q, m
  <2>3. \A i \in DOMAIN q : q[i][1] \in Nat /\ q[i][2] \in Nat /\ q[i][3] \in Nat /\ i \in Nat
    BY <2>1, RecType
  <2>4. Increases(q)
    <3>1. ASSUME NEW i \in DOMAIN q, NEW j \in DOMAIN q, i < j, q[i] # Marker, q[j] # Marker
          PROVE  q[i][1] < q[j][1] /\ q[i][3] <= q[j][3]
      <4>1. q[i][1] < q[j][1] /\ q[i][3] = q[i][1] /\ q[j][3] = q[j][1]
        BY <2>1, <3>1
      <4>. QED BY <2>3, <4>1
    <3>. QED BY <3>1 DEF Increases
  <2>5. OnceEach(q)
    <3>1. ASSUME NEW i \in DOMAIN q, NEW j \in DOMAIN q, i # j, q[i][2] = q[j][2], q[i][2] # 0 PROVE FALSE
      <4>1. q[i] # Marker /\ q[j] # Marker
        BY <3>1, MarkerType
      <4>2. q[i][2] = q[i][1] /\ q[j][2] = q[j][1]
        BY <2>1, <3>1, <4>1
      <4>3. i < j \/ j < i
        BY <2>3, <3>1
      <4>4. q[i][1] < q[j][1] \/ q[j][1] < q[i][1]
        BY <2>1, <4>3
      <4>5. q[i][1] = q[j][1] /\ q[i][1] \in Nat
        BY Zenon, <2>3, <3>1, <4>2
      <4>. QED BY <4>4, <4>5
    <3>. QED BY <3>1 DEF OnceEach
  <2>6. Unused(-1, q)
    BY <2>3 DEF Unused
  <2>. QED BY <2>1, <2>4, <2>5, <2>6 DEF q
<1>. QED BY <1>1, <1>2

LEMMA BuffersInitial ==
    ASSUME DistillInit
    PROVE  TurnInv /\ PromptInv /\ ReplyInv /\ (RoomToDrop => BoundInv)
<1>1. /\ hk = [h \in Hooks |-> Free] /\ prompt = [s \in Sessions |-> -1]
      /\ file = [s \in Sessions |-> [f \in Names |-> IF f = "pend" THEN Earlier[s] ELSE NoFile]]
  BY DEF DistillInit, Names
<1>2. \A h \in Hooks : hk[h].at = "free"
  BY <1>1, FreeHook
<1>3. \A s \in Sessions : file[s]["pend"] = Earlier[s] /\ file[s]["tmp"] = NoFile /\ prompt[s] = -1
  BY <1>1 DEF Names
<1>4. TurnInv
  BY <1>2, <1>3, EarlierTurns DEF TurnInv, TurnOK
<1>5. PromptInv
  BY <1>2, <1>3, EarlierTurns, CaptureAssumption DEF PromptInv, PromptOK
<1>6. ReplyInv
  BY <1>2 DEF ReplyInv, ReplyOK
<1>7. ASSUME RoomToDrop PROVE BoundInv
  <2>1. ASSUME NEW s \in Sessions PROVE SizeOK(s)
    <3>1. Appending(s) = {}
      BY <1>2 DEF Appending
    <3>2. Cardinality(Appending(s)) = 0
      BY <3>1, FS_EmptySet
    <3>. DEFINE q == Recs(Earlier[s])
    <3>3. Len(q) <= MaxTurns /\ q \in Seq(Rec)
      BY EarlierTurns, EarlierGood, RecsOf
    <3>4. Recs(file[s]["pend"]) = q /\ Recs(file[s]["tmp"]) = << >> /\ Len(<< >>) = 0
      BY <1>3, RecsOf
    <3>. HIDE DEF q
    <3>5. Len(q) \in Nat
      BY <3>3
    <3>6. Len(q) + 0 <= Cap
      BY <1>7, <3>3, <3>5, CapType
    <3>. QED BY <1>7, <3>2, <3>4, <3>6, CapType DEF SizeOK
  <2>2. \A h \in Hooks : hk[h].at \notin Rewriting
    BY <1>2 DEF Rewriting, Writing
  <2>. QED BY <2>1, <2>2 DEF BoundInv
<1>. QED BY <1>4, <1>5, <1>6, <1>7

(* A turn's number is at most that of the Stop hooks that fired.           *)
LEMMA WrittenBound ==
    ASSUME TypeInv, NEW s \in Sessions
    PROVE  Written(s) \in Nat /\ Written(s) <= 2 * MaxExchanges[s]
<1>1. /\ asked[s] \in Nat /\ stops[s] \in Nat /\ Fired(s) \in Int /\ MaxExchanges[s] \in Nat
      /\ asked[s] <= MaxExchanges[s] /\ stops[s] <= Fires(s) /\ Written(s) \in Nat
  BY Zenon, FiredType, CaptureAssumption DEF TypeInv, SessionOK
<1>2. Cardinality(Waiting(s)) \in Nat
  BY Counting DEF Waiting
<1>3. Written(s) <= Fired(s)
  BY <1>1, <1>2 DEF Written
<1>4. Fired(s) <= 2 * asked[s]
  <2>1. CASE s \in Twice
    BY <1>1, <2>1 DEF Fired, Fires
  <2>2. CASE s \notin Twice /\ asked[s] >= 1
    BY <1>1, <2>2 DEF Fired, Fires
  <2>3. CASE s \notin Twice /\ asked[s] = 0
    <3>1. stops[s] = 1 \/ stops[s] = 0
      BY <1>1, <2>3 DEF Fires
    <3>. QED BY <1>1, <2>3, <3>1 DEF Fired
  <2>. QED BY <1>1, <2>1, <2>2, <2>3
<1>. QED BY <1>1, <1>3, <1>4

LEMMA CaptureTyped == TypeInv /\ PushInv => CaptureTypeOK
<1>. SUFFICES ASSUME TypeInv, PushInv PROVE CaptureTypeOK
  OBVIOUS
<1>1. ASSUME NEW s \in Sessions
      PROVE  /\ stops[s] <= Fires(s) /\ asked[s] <= MaxExchanges[s] /\ prompt[s] \in -1 .. asked[s]
             /\ \A f \in {"pend", "tmp", "arch"} : \A i \in DOMAIN Recs(file[s][f]) :
                   \/ i = 1 /\ Recs(file[s][f])[i] = Marker
                   \/ Recs(file[s][f])[i] \in (1 .. 2 * MaxExchanges[s]) \X (0 .. asked[s]) \X (1 .. asked[s])
  <2>1. ASSUME NEW f \in Names, NEW i \in DOMAIN Recs(file[s][f]), ~(i = 1 /\ Recs(file[s][f])[i] = Marker)
        PROVE  Recs(file[s][f])[i] \in (1 .. 2 * MaxExchanges[s]) \X (0 .. asked[s]) \X (1 .. asked[s])
    <3>. DEFINE r == Recs(file[s][f])[i]
                n == 2 * MaxExchanges[s]
    <3>1. Recs(file[s][f]) \in Seq(Rec) /\ r \in Rec
      BY <2>1, ContentsType
    <3>2. r[1] \in 1 .. Written(s) /\ r[2] \in 0 .. asked[s] /\ r[3] \in 1 .. asked[s]
      BY Zenon, <2>1 DEF TypeInv, SessionOK, GoodRecs
    <3>3. n \in Nat /\ Written(s) <= n /\ Written(s) \in Nat
      BY WrittenBound, CaptureAssumption
    <3>. HIDE DEF r, n
    <3>4. r[1] \in 1 .. n
      BY <3>2, <3>3
    <3>5. r = <<r[1], r[2], r[3]>>
      BY <3>1 DEF Rec
    <3>6. r \in (1 .. n) \X (0 .. asked[s]) \X (1 .. asked[s])
      BY <3>2, <3>4, <3>5
    <3>. QED BY <3>6 DEF r, n
  <2>. QED BY Zenon, <2>1 DEF TypeInv, SessionOK, Names
<1>2. \A h \in Hooks : hk[h].into # "none" => hk[h].at \in {"flush", "rename"}
  BY DEF TypeInv, HookOK
<1>3. SQ!ToSet(order) = Sessions
  BY DEF SQ!ToSet, TypeInv
<1>4. push.fresh \subseteq Sessions
  BY DEF PushInv
<1>. QED BY <1>1, <1>2, <1>3, <1>4 DEF CaptureTypeOK

TurnParts == TypeInv /\ PushInv /\ Apart /\ RewriteInv /\ TurnInv /\ PromptInv

LEMMA TurnPartsStep == TurnParts /\ [DistillNext]_distillVars => TurnParts'
<1>. SUFFICES ASSUME TurnParts, [DistillNext]_distillVars PROVE TurnParts'
  OBVIOUS
<1>1. CASE DistillNext
  BY <1>1, TypeStep, PushStepKeeps, ApartStep, RewriteStep, TurnStep, PromptStep DEF TurnParts
<1>2. CASE UNCHANGED distillVars
  <2>1. UNCHANGED captureVars /\ push' = push
    BY <1>2 DEF distillVars, pushVars
  <2>2. TypeInv' /\ PushInv' /\ Apart'
    BY <2>1, UnchangedTyped, PushBeside, ApartSame DEF TurnParts
  <2>3. TurnInv' /\ PromptInv'
    BY <2>1, SameTurn, SamePrompt DEF TurnParts
  <2>4. UNCHANGED <<file, hk, clash, mixed>>
    BY <2>1 DEF captureVars
  <2>5. RewriteInv'
    BY Zenon, <2>4 DEF TurnParts, RewriteInv, RewriteOK, Shortened, Record
  <2>. QED BY <2>2, <2>3, <2>5 DEF TurnParts
<1>. QED BY <1>1, <1>2

(* CaptureTypeOK, TurnsIncrease and PromptUsedOnce: AppendTurn numbers the *)
(* turns in their order and a prompt is used once, as long as the hooks of *)
(* a session run one at a time, whichever of them die; a lone hook's       *)
(* reading of the buffer stays true until it writes, and a prompt that is  *)
(* in its file or in a hook's hands is in no record.                       *)
THEOREM TurnsInOrder == DistillSpec => [](CaptureTypeOK /\ TurnsIncrease /\ PromptUsedOnce)
<1>1. DistillInit => TurnParts
  BY TypeInitial, PushInitial, LossInitial, BuffersInitial DEF TurnParts
<1>2. TurnParts => CaptureTypeOK /\ TurnsIncrease /\ PromptUsedOnce
  BY CaptureTyped DEF TurnParts, TurnInv, PromptInv, TurnsIncrease, PromptUsedOnce, Increases, OnceEach
<1>. QED BY <1>1, <1>2, TurnPartsStep, PTL DEF DistillSpec

SoundParts == TurnParts /\ RoomToDrop /\ BoundInv

(* BuffersSound: with fewer hooks than an overflow drops turns, the buffer *)
(* is bounded too: every hook that read it below the cap has its place,    *)
(* and what a rewriter puts there is not above the cap.                    *)
THEOREM BuffersAreSound == RoomToDrop /\ DistillSpec => []BuffersSound
<1>1. RoomToDrop /\ DistillInit => SoundParts
  BY TypeInitial, PushInitial, LossInitial, BuffersInitial DEF SoundParts, TurnParts
<1>2. SoundParts /\ [DistillNext]_distillVars => SoundParts'
  <2>. SUFFICES ASSUME SoundParts, [DistillNext]_distillVars PROVE SoundParts'
    OBVIOUS
  <2>1. TurnParts' /\ RoomToDrop'
    BY TurnPartsStep DEF SoundParts, RoomToDrop
  <2>2. CASE DistillNext
    BY <2>1, <2>2, BoundStep DEF SoundParts, TurnParts
  <2>3. CASE UNCHANGED distillVars
    <3>1. file' = file /\ hk' = hk
      BY <2>3 DEF distillVars, captureVars
    <3>2. BoundInv'
      BY <3>1, BesideBound DEF SoundParts, TurnParts, Carried
    <3>. QED BY <2>1, <3>2 DEF SoundParts
  <2>. QED BY <2>2, <2>3
<1>3. SoundParts => BuffersSound
  <2>. SUFFICES ASSUME SoundParts PROVE BuffersSound
    OBVIOUS
  <2>1. CaptureTypeOK /\ TurnsIncrease /\ PromptUsedOnce
    BY CaptureTyped DEF SoundParts, TurnParts, TurnInv, PromptInv, TurnsIncrease, PromptUsedOnce, Increases, OnceEach
  <2>2. ASSUME NEW s \in Sessions PROVE Len(Recs(file[s]["pend"])) <= MaxTurns + Cardinality(Hooks) - 1
    <3>. DEFINE n == Cardinality(Appending(s))
                l == Len(Recs(file[s]["pend"]))
    <3>1. n \in Nat
      BY Counting DEF Appending
    <3>2. l \in Nat /\ l + n <= Cap /\ Cap \in Nat
      BY LengthType, CapType DEF SoundParts, TurnParts, BoundInv, SizeOK, Names
    <3>3. l <= Cap
      <4>. HIDE DEF l, n
      <4>. QED BY <3>1, <3>2
    <3>. QED BY <3>3 DEF Cap
  <2>. QED BY <2>1, <2>2 DEF BuffersSound, BufferBounded
<1>. QED BY <1>1, <1>2, <1>3, PTL DEF DistillSpec

ReplyParts == TypeInv /\ PushInv /\ Apart /\ LastTextApart /\ ReplyInv

(* ReplyComplete: a hook that reads its transcript finds all of it but,    *)
(* perhaps, the final text, and can tell; what it then captures is the     *)
(* end of the texts, the final one included and included once.             *)
THEOREM RepliesComplete == LastTextApart /\ DistillSpec => []ReplyComplete
<1>1. LastTextApart /\ DistillInit => ReplyParts
  BY TypeInitial, PushInitial, LossInitial, BuffersInitial DEF ReplyParts
<1>2. ReplyParts /\ [DistillNext]_distillVars => ReplyParts'
  <2>. SUFFICES ASSUME ReplyParts, [DistillNext]_distillVars PROVE ReplyParts'
    OBVIOUS
  <2>1. LastTextApart'
    BY DEF ReplyParts, LastTextApart
  <2>2. CASE DistillNext
    BY <2>1, <2>2, TypeStep, PushStepKeeps, ApartStep, ReplyStep DEF ReplyParts
  <2>3. CASE UNCHANGED distillVars
    <3>1. UNCHANGED captureVars /\ push' = push
      BY <2>3 DEF distillVars, pushVars
    <3>2. TypeInv' /\ PushInv' /\ Apart'
      BY <3>1, UnchangedTyped, PushBeside, ApartSame DEF ReplyParts
    <3>3. hk' = hk /\ script' = script /\ mixed' = mixed
      BY <3>1 DEF captureVars
    <3>4. ReplyInv'
      BY <3>3, SameReply DEF ReplyParts, Carried
    <3>. QED BY <2>1, <3>2, <3>4 DEF ReplyParts
  <2>. QED BY <2>2, <2>3
<1>3. ReplyParts => ReplyComplete
  BY Zenon DEF ReplyParts, ReplyInv, ReplyOK, ReplyComplete, NewestOf, AllTexts
<1>. QED BY <1>1, <1>2, <1>3, PTL DEF DistillSpec
=============================================================================
