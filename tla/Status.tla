------------------------------- MODULE Status -------------------------------
(***************************************************************************)
(* ctx status (internal/syncops/status.go): one document made of the       *)
(* server's listing or the reason there is none, the repair of the base,   *)
(* every page's sides, the distill guard, and who the user is.             *)
(*                                                                         *)
(* A version's number is its sha, Text[s] its content.  What a command     *)
(* meets is a record w:                                                    *)
(*   offline, token, url, repo: the flag and what the remote resolved to   *)
(*   listing: "live", or why there is none                                 *)
(*   ensure: what EnsureBase did to the stale records                      *)
(*   page: for each path its file, base record, server version, sidecar    *)
(*   fresh, bypass: a fresh pending session; CONTEXO_DISTILL_DISABLE       *)
(***************************************************************************)
EXTENDS Classify, ErrorCodes

CONSTANTS Paths,      \* paths of pages
          Twins,      \* those that differ only by letter case
          Knowledge,  \* those of concept and analysis pages
          Text        \* the content of each version, by its sha

ASSUME StatusAssumption == DOMAIN Text \subseteq Nat \ {0} /\ Knowledge \subseteq Paths

Unusable(w) ==
    CASE w.token = FALSE -> "not_authenticated"
      [] w.token /\ ~w.url -> "server_unresolved"
      [] w.token /\ w.url /\ ~w.repo -> "repo_not_configured"
      [] OTHER -> NoCode

Online(w) == ~w.offline /\ Unusable(w) = NoCode

(* statusOnline and statusRemoteFailure: a missing repository is a live    *)
(* answer with no pages.  Variant: it is a failure like any other.         *)
OnlyLive(listing) == listing = "live"

IsAnswer(listing) == listing \in {"live", "repo_not_found"}

Live(w) == Online(w) /\ IsAnswer(w.listing)

RemoteError(w) ==
    IF Online(w) /\ ~Live(w) THEN w.listing
    ELSE IF ~w.offline /\ ~Online(w) THEN Unusable(w) ELSE NoCode

Auth(w) ==
    CASE Live(w) -> "authenticated"
      [] Online(w) /\ w.listing = "auth_rejected" -> "rejected"
      [] Online(w) /\ ~Live(w) /\ w.listing # "auth_rejected" -> "unchecked"
      [] ~Online(w) -> IF w.token THEN "unchecked" ELSE "not_authenticated"

(* EnsureBase runs over a listing that came, and turns stale records into  *)
(* valid ones, as far as it gets.                                          *)
Ensured(w) == Online(w) /\ w.listing = "live"

RecordOf(w, p) ==
    LET b == w.page[p].base
    IN  IF b.kind = "stale" /\ Ensured(w) /\ w.ensure = "fixes"
        THEN BaseValid(b.sha, Text[b.sha]) ELSE b

(* Variant: a stale record is completed with the working file's hash.      *)
RecordOfFile(w, p) ==
    LET b == w.page[p].base   f == w.page[p].file
    IN  IF b.kind = "stale" /\ f.kind = "valid" THEN BaseValid(b.sha, f.hash) ELSE RecordOf(w, p)

Base(w, p) == RecordOf(w, p)

(* Variant: a page that is not listed is not judged. *)
UnlistedUnknown(listed) == IF listed = 0 THEN RemoteUnknown ELSE RemotePresent(listed)

Listed(listed) == OnlineRemote(listed)

Remote(w, p) ==
    IF ~Live(w) THEN OfflineRemote(Base(w, p).sha, w.page[p].side)
    ELSE IF w.listing = "live" THEN Listed(w.page[p].listed) ELSE RemoteAbsent

StateOf(w, p) ==
    ApplySidecar(Classify(w.page[p].file, Base(w, p), Remote(w, p)), Base(w, p).sha, w.page[p].side)

Shown(w) == {p \in Paths : StateOf(w, p) # NoEntry}

(* statusCaseCollisions. *)
Colliding(w) == IF Cardinality(Twins \cap Shown(w)) > 1 THEN Twins \cap Shown(w) ELSE {}

In(w, states) == {p \in Paths : StateOf(w, p) \in states}
Count(w)      == [st \in PageStates |-> Cardinality(In(w, {st}))]

(* The guard over the pages a push would send.  Variant: modified only.    *)
BatchModified(w) == In(w, {"modified"})

Batch(w) == In(w, {"modified", "new"})

GuardRequires(w, batch) ==
    /\ w.fresh
    /\ \E p \in batch \cap Knowledge : w.page[p].file.kind = "valid"

BlocksPush(w) == GuardRequires(w, Batch(w)) /\ ~w.bypass

(* The warnings as collected, and merged by code.                          *)
Warning(code, paths) == [code |-> code, paths |-> paths]

Collected(w) ==
    LET stale == In(w, {"unverified"})
    IN  (IF Ensured(w) /\ w.ensure = "skips" THEN <<Warning("base_repair_skipped", {})>> ELSE << >>)
        \o (IF Live(w) /\ (stale # {} \/ (Ensured(w) /\ w.ensure = "fails"))
            THEN <<Warning("base_repair_skipped", stale)>> ELSE << >>)
        \o (IF Colliding(w) # {} THEN <<Warning("case_collision", Colliding(w))>> ELSE << >>)

(* Variant: the first of a code stands for all. *)
FirstOfCode(all, i) == all[CHOOSE j \in DOMAIN all : all[j].code = all[i].code /\ \A k \in 1 .. j - 1 : all[k].code # all[i].code].paths

(* statusMergeWarnings. *)
PathsOf(all, i) == UNION {all[j].paths : j \in {k \in DOMAIN all : all[k].code = all[i].code}}

Warnings(w) ==
    LET all == Collected(w) IN {Warning(all[i].code, PathsOf(all, i)) : i \in DOMAIN all}

(* statusHead: the newest entry of the listing, none when versions tie.    *)
HeadOf(w) ==
    LET shas   == IF Ensured(w) THEN {w.page[p].listed : p \in Paths} \ {0} ELSE {}
        newest == {s \in shas : \A t \in shas : w.time[t] <= w.time[s]}
    IN  IF Cardinality(newest) = 1 THEN CHOOSE s \in newest : TRUE ELSE 0

Document(w) ==
    [state   |-> [p \in Paths |-> StateOf(w, p)],
     count   |-> Count(w),
     ahead   |-> Count(w)["modified"] + Count(w)["new"],
     behind  |-> Count(w)["incoming"] + Count(w)["incoming_new"],
     live    |-> Live(w),
     exists  |-> Live(w) /\ w.listing = "live",
     error   |-> RemoteError(w),
     auth    |-> Auth(w),
     blocks  |-> BlocksPush(w),
     warnings |-> Warnings(w),
     head    |-> HeadOf(w)]
=============================================================================
