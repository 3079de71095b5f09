------------------------------ MODULE Classify ------------------------------
(***************************************************************************)
(* The page-state decision table of Contexo's sync engines                 *)
(* (internal/syncops/contract/classify.go), the side gathering that feeds  *)
(* it (internal/syncstate/view.go) and the sidecar override that follows   *)
(* it (internal/syncops/overlay.go).  status, push, pull and resolve all   *)
(* decide what they may do with a page by these operators.                 *)
(*                                                                         *)
(* A sha is a natural number, 0 standing for the code's empty string; a    *)
(* hash is the content it is the hash of.                                  *)
(***************************************************************************)
EXTENDS Naturals

(***************************************************************************)
(* The three sides of a page.                                              *)
(***************************************************************************)
LocalAbsent     == [kind |-> "absent"]
LocalInvalid    == [kind |-> "invalid"]
LocalValid(h)   == [kind |-> "valid", hash |-> h]

BaseNone        == [kind |-> "none", sha |-> 0]
BaseStale(s)    == [kind |-> "stale", sha |-> s]
BaseValid(s, h) == [kind |-> "valid", sha |-> s, hash |-> h]

RemoteUnknown    == [kind |-> "unknown"]
RemoteAbsent     == [kind |-> "absent"]
RemotePresent(s) == [kind |-> "present", sha |-> s]

PageStates == {"unchanged", "modified", "new", "incoming", "incoming_new",
               "conflict", "deleted_local", "invalid", "unverified"}

NoEntry == ""   \* the state of a path that is not reported at all

(***************************************************************************)
(* contract.Classify: hasBase, remoteMoved and edited are the code's.      *)
(***************************************************************************)
HasBase(base) == base.kind # "none"

RemoteMoved(base, remote) ==
    remote.kind = "present" /\ HasBase(base) /\ remote.sha # base.sha

AbsentState(base, remote) ==
    IF HasBase(base) THEN "deleted_local"
    ELSE IF remote.kind = "present" THEN "incoming_new" ELSE NoEntry

(* Variant: an edit hides that the server moved. *)
EditedWins(local, base, remote) ==
    IF local.hash # base.hash THEN "modified"
    ELSE IF RemoteMoved(base, remote) THEN "incoming" ELSE "unchanged"

VerifiedState(local, base, remote) ==
    LET edited == local.hash # base.hash
        moved  == RemoteMoved(base, remote)
    IN  CASE remote.kind = "absent" -> "new"
          [] remote.kind # "absent" /\ ~moved /\ ~edited -> "unchanged"
          [] remote.kind # "absent" /\ ~moved /\ edited  -> "modified"
          [] remote.kind # "absent" /\ moved  /\ ~edited -> "incoming"
          [] remote.kind # "absent" /\ moved  /\ edited  -> "conflict"

ValidState(local, base, remote) ==
    CASE base.kind = "none"  -> IF remote.kind = "present" THEN "conflict" ELSE "new"
      [] base.kind = "stale" -> IF remote.kind = "absent" THEN "new" ELSE "unverified"
      [] base.kind = "valid" -> VerifiedState(local, base, remote)

Classify(local, base, remote) ==
    CASE local.kind = "invalid" -> "invalid"
      [] local.kind = "absent"  -> AbsentState(base, remote)
      [] local.kind = "valid"   -> ValidState(local, base, remote)

(***************************************************************************)
(* The conflict kind and the note that go with the state.                  *)
(***************************************************************************)
ConflictKind(base) == IF base.kind = "none" THEN "both_added" ELSE "both_modified"

(* Variant: a deleted page is reported without its server version. *)
NoteInvalidOnly(local, base, remote) ==
    IF local.kind = "invalid" /\ RemoteMoved(base, remote) THEN "remote_changed" ELSE ""

Note(local, base, remote) ==
    CASE local.kind = "invalid" ->
             IF RemoteMoved(base, remote) THEN "remote_changed" ELSE ""
      [] local.kind # "invalid" /\ HasBase(base) /\ remote.kind = "absent" ->
             "missing_on_server"
      [] local.kind = "absent" /\ RemoteMoved(base, remote) -> "remote_changed"
      [] OTHER -> ""

(***************************************************************************)
(* syncops.ApplySidecar: a modified page is a conflict when a sidecar      *)
(* records a server version other than the base.  side is the sidecar's    *)
(* server sha, 0 for no sidecar.                                           *)
(***************************************************************************)
(* Variant: any state is overridden, an unedited page's too. *)
SidecarAlways(state, baseSha, side) ==
    IF side # 0 /\ side # baseSha THEN "conflict" ELSE state

ApplySidecar(state, baseSha, side) ==
    IF state = "modified" /\ side # 0 /\ side # baseSha THEN "conflict" ELSE state

(***************************************************************************)
(* View.gather, rule E9: offline, a sidecar whose server version is not    *)
(* the base stands in for the listing; online only the listing counts.     *)
(***************************************************************************)
(* Variant: offline nothing is known of the server. *)
OfflineBlind(pageSha, side) == RemoteUnknown

OfflineRemote(pageSha, side) ==
    IF side # 0 /\ side # pageSha THEN RemotePresent(side) ELSE RemoteUnknown

OnlineRemote(listed) == IF listed = 0 THEN RemoteAbsent ELSE RemotePresent(listed)
=============================================================================
