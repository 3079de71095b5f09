----------------------------- MODULE CaptureInv -----------------------------
(***************************************************************************)
(* The inductive invariants of DistillPush, and what the bound of a buffer *)
(* and the reply of an exchange rest on.                                   *)
(***************************************************************************)
EXTENDS DistillPush

-----------------------------------------------------------------------------
(* The invariant *)

Rec      == Nat \X Nat \X Nat
Names    == {"pend", "tmp", "arch"}
Contents == {NoFile} \cup Seq(Rec)

Stashing  == {"stash", "stashed"}
Unwritten == {"take", "taken", "transcript", "records", "append", "create", "flush"}
Stages    == Stashing \cup Unwritten \cup {"free", "rename", "prune", "remove"}

HookRec == [at : Stages, s : Sessions \cup {"none"}, ex : Nat, final : BOOLEAN, late : BOOLEAN, user : Nat,
            parts : Seq(Nat), seen : Seq(Rec), into : {"none", "pend", "tmp", "arch"},
            victim : Sessions \cup {"none"}]

(* The Stop hooks that fired for s, and how many of them may have written. *)
Fired(s)   == (IF s \in Twice THEN 2 * asked[s] - 2 ELSE asked[s] - 1) + stops[s]
Waiting(s) == {h \in Hooks : hk[h].at \in Unwritten /\ hk[h].s = s}
Written(s) == Fired(s) - Cardinality(Waiting(s))

GoodRecs(q, n, a) ==
    /\ q \in Seq(Rec)
    /\ \A i \in DOMAIN q : \/ i = 1 /\ q[i] = Marker
                           \/ q[i][1] \in 1 .. n /\ q[i][2] \in 0 .. a /\ q[i][3] \in 1 .. a

HookOK(h) ==
    LET k == hk[h]  s == hk[h].s
    IN  /\ k.at # "free" => s \in Sessions
        /\ k.into # "none" => k.at \in {"flush", "rename"}
        /\ k.at = "remove" => k.victim \in Sessions
        /\ k.at \in Unwritten \cup Stashing \cup {"rename"} => k.ex \in 1 .. asked[s]
        /\ k.at \in Unwritten \cup {"rename"} => k.user \in 0 .. asked[s]
        /\ k.at \in Stashing \cup {"take", "taken"} => s \in Inline
        /\ k.at = "transcript" => s \notin Inline /\ script[s].shape \in Shapes
        /\ k.at \in Writing => GoodRecs(k.seen, Written(s), asked[s])
        /\ k.at \in Rewriting => Len(k.seen) >= MaxTurns

SessionOK(s) ==
    /\ asked[s] <= MaxExchanges[s] /\ stops[s] <= Fires(s)
    /\ stops[s] < Fires(s) => asked[s] >= 1 /\ (s \notin Inline => script[s].shape \in Shapes)
    /\ script[s].landed <= Len(script[s].shape)
    /\ prompt[s] \in -1 .. asked[s]
    /\ Written(s) \in Nat
    /\ \A f \in Names : GoodRecs(Recs(file[s][f]), Written(s), asked[s])

TypeInv ==
    /\ asked \in [Sessions -> Nat] /\ stops \in [Sessions -> Nat] /\ prompt \in [Sessions -> Int]
    /\ script \in [Sessions -> [shape : Shapes \cup {<< >>}, landed : Nat]]
    /\ file \in [Sessions -> [Names -> Contents]]
    /\ order \in Seq(Sessions) /\ \A s \in Sessions : \E i \in DOMAIN order : order[i] = s
    /\ age \in [Sessions -> 0 .. 2]
    /\ hk \in [Hooks -> HookRec]
    /\ kept \in [Sessions -> SUBSET (Nat \X Nat)] /\ gone \in [Sessions -> SUBSET (Nat \X Nat)]
    /\ \A s \in Sessions : SessionOK(s)
    /\ \A h \in Hooks : HookOK(h)

PushInv ==
    /\ push \in [at : {"idle", "guard", "stat", "read", "direct", "link", "send", "find", "archive"},
                 list : Seq(Sessions), fresh : SUBSET Sessions, done : BOOLEAN, checked : BOOLEAN,
                 victim : Sessions \cup {"none"}]
    /\ push.at = "archive" => push.victim \in Sessions
    /\ push.at \in {"read"} => push.list # << >>
    /\ push.at \in {"guard", "stat", "read"} => push.checked
    /\ push.at \in {"idle", "link"} => ~push.checked
    /\ push.at = "guard" => push.fresh = {}

(* While a session's rewrites meet no other writer, or its hooks run one   *)
(* at a time, a hook has the temporary file to itself.                     *)
Apart == \A s \in Sessions :
    /\ s \notin clash => ~Clashing(s)
    /\ s \notin mixed => \A g, h \in Running(s) : g = h

RewriteOK(h) == LET s == hk[h].s IN
    hk[h].at \in Rewriting /\ ~(s \in clash /\ s \in mixed) =>
        /\ hk[h].at = "flush" => hk[h].into = "tmp" /\ file[s]["tmp"] = << >>
        /\ hk[h].at = "rename" => file[s]["tmp"] = Shortened(h)

RewriteInv == \A h \in Hooks : RewriteOK(h)

(* NothingLost: what a rewriter will put in the buffer's place has its     *)
(* turns, and what is about to be pruned is old.                           *)
LossOK(h) ==
    /\ LET s == hk[h].s
       IN  hk[h].at \in Rewriting /\ s \notin clash => Turns(file[s]["pend"]) \subseteq Turns(hk[h].seen)
    /\ LET v == hk[h].victim
       IN  hk[h].at = "remove" /\ v \notin clash => age[v] = 2

LossInv == NothingLost /\ \A h \in Hooks : LossOK(h)

(* TurnsIncrease: a lone hook's reading of the buffer stays true, but for  *)
(* a removal.                                                              *)
Increases(q) == \A i, j \in DOMAIN q :
    i < j /\ q[i] # Marker /\ q[j] # Marker => q[i][1] < q[j][1] /\ q[i][3] <= q[j][3]

TurnOK(h) == LET s == hk[h].s IN
    hk[h].at # "free" /\ s \notin mixed =>
        /\ hk[h].at \in Unwritten \cup Stashing \cup {"rename"} => hk[h].ex = asked[s]
        /\ hk[h].at \in Writing => /\ file[s]["pend"] = NoFile \/ Recs(file[s]["pend"]) = hk[h].seen
                                  /\ Increases(hk[h].seen)

TurnInv ==
    /\ \A s \in Sessions \ mixed : Increases(Recs(file[s]["pend"]))
    /\ \A h \in Hooks : TurnOK(h)

(* PromptUsedOnce: a prompt that is still in its file, or in a hook's      *)
(* hands, is in no record yet.                                             *)
OnceEach(q)  == \A i, j \in DOMAIN q : i # j /\ q[i][2] = q[j][2] => q[i][2] = 0
Unused(u, q) == \A i \in DOMAIN q : q[i][2] = u => u = 0
Below(q, n)  == \A i \in DOMAIN q : q[i][2] < n

PromptOK(h) == LET s == hk[h].s IN
    hk[h].at # "free" /\ s \in Inline \ mixed =>
        /\ hk[h].at \in Stashing => Below(Recs(file[s]["pend"]), asked[s]) /\ prompt[s] < asked[s]
        /\ hk[h].at = "taken" => hk[h].user = prompt[s]
        /\ hk[h].at \in Writing \cup {"records"} =>
              /\ hk[h].user = prompt[s] => hk[h].user = 0
              /\ Unused(hk[h].user, Recs(file[s]["pend"]))
        /\ hk[h].at \in Writing => /\ OnceEach(hk[h].seen) /\ Unused(hk[h].user, hk[h].seen)
                                  /\ Unused(prompt[s], hk[h].seen)

PromptInv ==
    /\ \A s \in Inline \ mixed : OnceEach(Recs(file[s]["pend"])) /\ Unused(prompt[s], Recs(file[s]["pend"]))
    /\ \A h \in Hooks : PromptOK(h)

(* BufferBounded: room for every hook that has read the buffer below its   *)
(* cap; a rewritten buffer is not above it.                                *)
Appending(s) == {h \in Hooks : hk[h].at = "append" /\ hk[h].s = s}
Cap == MaxTurns + Cardinality(Hooks) - 1

(* What the bound rests on: an overflow drops more turns than there are    *)
(* other hooks to add one meanwhile.  In the code it drops 100.            *)
RoomToDrop == Cardinality(Hooks) \in 1 .. DropOldest - 1

SizeOK(s) == /\ Len(Recs(file[s]["pend"])) + Cardinality(Appending(s)) <= Cap
             /\ Len(Recs(file[s]["tmp"])) <= MaxTurns

BoundInv == /\ \A s \in Sessions : SizeOK(s)
            /\ \A h \in Hooks : hk[h].at \in Rewriting => Len(hk[h].seen) <= Cap

(* The texts of a whole exchange of shape x, and the newest of them.       *)
AllTexts(x) == TextsOf(x, Len(x))
NewestOf(ps, x) == ps # << >> /\ ps = SubSeq(AllTexts(x), Len(AllTexts(x)) - Len(ps) + 1, Len(AllTexts(x)))

(* What the reply rests on: a text before the final one is followed by     *)
(* something else, so that a reader can tell that the final one is missing.*)
LastTextApart == \A x \in Shapes : Len(x) > 1 => x[Len(x) - 1] # "text"

(* ReplyComplete: what the transcript holds when the hook reads it.        *)
ReplyOK(h) == LET s == hk[h].s  x == script[s].shape IN
    hk[h].at # "free" /\ s \notin Inline \cup mixed =>
        /\ hk[h].at = "transcript" => script[s].landed \in {Len(x) - 1, Len(x)}
        /\ hk[h].at = "records" /\ ~hk[h].late => NewestOf(hk[h].parts, x)

ReplyInv == \A h \in Hooks : ReplyOK(h)

(* GuardSound: a session the guard has passed had no fresh turn then.      *)
GuardInv ==
    /\ push.at \in {"stat", "read", "send"} /\ push.checked =>
          \A s \in Sessions : s \in push.fresh \cup quiet \/ \E i \in DOMAIN push.list : push.list[i] = s
    /\ push.at = "send" /\ push.checked => push.fresh = {} /\ push.list = << >>
    /\ quiet \subseteq Sessions
=============================================================================
