---------------------------- MODULE ClassifyCheck ----------------------------
(***************************************************************************)
(* The decision table of Classify, checked on every combination of sides   *)
(* against the state table of README.md (lines 193-203).  A behaviour is   *)
(* one page: its sides as gathered, then the answer.                       *)
(***************************************************************************)
EXTENDS Classify, Tables

CONSTANTS Shas,     \* non-zero shas
          Hashes    \* hashes of page contents

ASSUME ShasAssumption == Shas \subseteq Nat \ {0}

local  == asked.local
base   == asked.base
remote == asked.remote
side   == asked.side      \* the server sha of the page's sidecar, 0 for none

Locals  == {LocalAbsent, LocalInvalid} \cup {LocalValid(h) : h \in Hashes}
Bases   == {BaseNone} \cup {BaseStale(s) : s \in Shas}
                      \cup {BaseValid(s, h) : s \in Shas, h \in Hashes}
Remotes == {RemoteUnknown, RemoteAbsent} \cup {RemotePresent(s) : s \in Shas}

AskState == \E l \in Locals, b \in Bases, r \in Remotes, s \in Shas \cup {0} :
    asked = [table |-> "state", local |-> l, base |-> b, remote |-> r, side |-> s]

(* state: before the sidecar override; shown: what status lists. *)
Verdict ==
    /\ Asked("state")
    /\ LET st == Classify(local, base, remote)
       IN  Answers([state |-> st, note |-> Note(local, base, remote),
                    shown |-> ApplySidecar(st, base.sha, side)])

-----------------------------------------------------------------------------
(* The README's words. *)
Moved      == remote.kind = "present" /\ base.kind # "none" /\ remote.sha # base.sha
OnServer   == remote.kind # "absent"
Page       == local.kind = "valid"
Snapshot   == base.kind = "valid"
EditedHere == Page /\ Snapshot /\ local.hash # base.hash
SameHere   == Page /\ Snapshot /\ local.hash = base.hash

Means(st) ==
    CASE st = "unchanged"     -> SameHere /\ OnServer /\ ~Moved
      [] st = "modified"      -> EditedHere /\ OnServer /\ ~Moved
      [] st = "new"           -> Page /\ \/ base.kind = "none" /\ remote.kind # "present"
                                         \/ base.kind # "none" /\ ~OnServer
      [] st = "incoming"      -> SameHere /\ Moved
      [] st = "incoming_new"  -> local.kind = "absent" /\ base.kind = "none" /\ remote.kind = "present"
      [] st = "conflict"      -> \/ EditedHere /\ Moved
                                 \/ Page /\ base.kind = "none" /\ remote.kind = "present"
      [] st = "deleted_local" -> local.kind = "absent" /\ base.kind # "none"
      [] st = "invalid"       -> local.kind = "invalid"
      [] st = "unverified"    -> Page /\ base.kind = "stale" /\ OnServer

(* The nine meanings of README 193-203 exclude each other, leave out only  *)
(* a path that exists nowhere, and are what the code decides.              *)
MatchesReadme ==
    Given("state") => {st \in PageStates : Means(st)} = {answer.state} \ {NoEntry}

(* A server version other than the base never goes unmentioned: the state  *)
(* or the note (rows 1 to 5) says so, or the page is unverified.           *)
NoSilentMove ==
    Given("state") /\ Moved =>
        answer.state \in {"incoming", "conflict", "unverified"} \/ answer.note = "remote_changed"

(* Offline, a sidecar that records the server's version gives every page   *)
(* the state a live listing would give it (E9).                            *)
OfflineAgrees ==
    Given("state") /\ side # 0 /\ remote = RemotePresent(side) =>
        Classify(local, base, OfflineRemote(base.sha, side)) = answer.state

(* The sidecar override never hides anything: it only turns an edit that   *)
(* push would send into a conflict, and only for another version.          *)
OverrideIsSafe ==
    Given("state") /\ answer.shown # answer.state =>
        /\ answer.state = "modified" /\ answer.shown = "conflict"
        /\ Classify(local, base, RemotePresent(side)) = "conflict"

(* What the sides of a page are taken for: the state is README's, no       *)
(* change of the server goes unmentioned, the answer given offline agrees  *)
(* with the one online, and a recorded conflict overlays a state only      *)
(* where it still is one (Classify, ApplySidecar, View.gather).            *)
ClassifySound ==
    /\ MatchesReadme
    /\ NoSilentMove
    /\ OfflineAgrees
    /\ OverrideIsSafe
=============================================================================
