---------------------------- MODULE StatusCheck -----------------------------
(***************************************************************************)
(* ctx status in every situation of two pages: what it says of them is     *)
(* true of the files and of the server's versions, and whatever kept it    *)
(* from knowing is named.                                                  *)
(***************************************************************************)
EXTENDS Status, Tables

Versions == DOMAIN Text

(* Valid records are truthful (BaseTruthful of SafeSync).                  *)
Records   == {BaseNone} \cup {BaseStale(s) : s \in {1, 2}} \cup {BaseValid(s, Text[s]) : s \in {1, 2}}
FileSides == {LocalAbsent, LocalInvalid} \cup {LocalValid(Text[s]) : s \in Versions}
PageFacts(file, b, listed, s) == [file |-> file, base |-> b, listed |-> listed, side |-> s]

AllFacts == {PageFacts(f, b, l, s) : f \in FileSides, b \in Records, l \in {0, 1, 2}, s \in {0, 1, 2}}
SomeFacts == {x \in AllFacts : x.base.kind = "stale" /\ x.base.sha = 1 /\ x.side = 0 /\ x.file # LocalInvalid}

Links ==
    {[offline |-> TRUE, token |-> t, url |-> TRUE, repo |-> TRUE, listing |-> "", ensure |-> ""] : t \in BOOLEAN}
    \cup {[offline |-> FALSE, token |-> u[1], url |-> u[2], repo |-> u[3], listing |-> "", ensure |-> ""]
            : u \in {<<FALSE, TRUE, TRUE>>, <<TRUE, FALSE, TRUE>>, <<TRUE, TRUE, FALSE>>}}
    \cup {[offline |-> FALSE, token |-> TRUE, url |-> TRUE, repo |-> TRUE, listing |-> l, ensure |-> ""]
            : l \in {"repo_not_found", "auth_rejected", "server_error", "network"}}
    \cup {[offline |-> FALSE, token |-> TRUE, url |-> TRUE, repo |-> TRUE, listing |-> "live", ensure |-> e]
            : e \in {"fixes", "skips", "fails"}}

Times == {[s \in Versions |-> s], [s \in Versions |-> 1]}
Guards == {<<FALSE, FALSE>>, <<TRUE, FALSE>>, <<TRUE, TRUE>>}

AskStatus ==
    \E a \in AllFacts, b \in SomeFacts, l \in Links, t \in Times, g \in Guards :
        \E one \in Knowledge :
            asked = [table |-> "status", offline |-> l.offline, token |-> l.token, url |-> l.url,
                     repo |-> l.repo, listing |-> l.listing, ensure |-> l.ensure, time |-> t,
                     fresh |-> g[1], bypass |-> g[2],
                     page |-> [p \in Paths |-> IF p = one THEN a ELSE b]]

AnswerStatus == Asked("status") /\ Answers(Document(asked))

-----------------------------------------------------------------------------
On(p)      == asked.page[p]
TextIn(f) == IF f.kind = "valid" THEN {f.hash} ELSE {}
ServerHas(p) == IF On(p).listed = 0 THEN {} ELSE {Text[On(p).listed]}

(* When status has the server's listing and lists every page as unchanged, *)
(* the files are the server's pages: none differs, none is missing on      *)
(* either side.                                                            *)
InSyncMeansEqual ==
    Given("status") /\ answer.exists
    /\ (\A p \in Paths : answer.state[p] \in {"unchanged", NoEntry}) =>
        \A p \in Paths : TextIn(On(p).file) = ServerHas(p)

(* A page that was edited since the version it is based on is never listed *)
(* as unchanged or as one that a pull may replace, whatever is known of    *)
(* the server.                                                             *)
NoEditHidden ==
    Given("status") =>
        \A p \in Paths :
            LET x == On(p)
            IN  x.file.kind = "valid" /\ (x.base.kind # "none" => x.file.hash # Text[x.base.sha])
                => answer.state[p] \notin {"unchanged", "incoming", "incoming_new", "deleted_local", NoEntry}

(* Either status knows what the server has, a missing repository included, *)
(* or it says why not; with --offline it says neither.  A refused token is *)
(* said exactly when the server refused it.                                *)
EveryFailureNamed ==
    Given("status") =>
        LET asks  == ~asked.offline /\ asked.token /\ asked.url /\ asked.repo
            knows == asks /\ asked.listing \in {"live", "repo_not_found"}
        IN  /\ answer.live = knows
            /\ (answer.error # NoCode) = (~asked.offline /\ ~knows)
            /\ (answer.auth = "rejected") = (asks /\ asked.listing = "auth_rejected")
            /\ answer.auth = "authenticated" => knows
            /\ answer.auth = "not_authenticated" => ~asked.token
            /\ asked.listing = "repo_not_found" =>
                 \A p \in Paths : On(p).file.kind = "valid" => answer.state[p] = "new"

(* No warning is given twice, and with a live listing every page that      *)
(* could not be verified is named in one.                                  *)
UnverifiedNamed ==
    Given("status") =>
        /\ \A x, y \in answer.warnings : x.code = y.code => x = y
        /\ answer.live => \A p \in Paths : answer.state[p] = "unverified" =>
              \E x \in answer.warnings : x.code = "base_repair_skipped" /\ p \in x.paths

(* With the listing at hand, status says that a push would be refused for  *)
(* want of a distillation exactly when one of the knowledge pages has work *)
(* that the server would take: edited on the server's version, or not      *)
(* there at all.                                                           *)
BlocksWhatPushSends ==
    Given("status") /\ answer.live =>
        LET sends(p) ==
               LET x == On(p)
                   there == asked.listing = "live" /\ x.listed # 0
               IN  /\ x.file.kind = "valid"
                   /\ IF ~there THEN TRUE
                      ELSE /\ x.base.kind = "valid" \/ (x.base.kind = "stale" /\ asked.ensure = "fixes")
                           /\ x.base.sha = x.listed /\ x.file.hash # Text[x.listed]
                           /\ x.side \in {0, x.listed}
        IN  answer.blocks = (asked.fresh /\ ~asked.bypass /\ \E p \in Knowledge : sends(p))

(* What status says is so, and what it cannot know it names: no edit and   *)
(* no difference is hidden by a missing listing, a skipped repair or an    *)
(* old record, and it announces the refusals of push (Status,              *)
(* statusGuardBlocks).                                                     *)
StatusTruthful ==
    /\ InSyncMeansEqual
    /\ NoEditHidden
    /\ EveryFailureNamed
    /\ UnverifiedNamed
    /\ BlocksWhatPushSends
=============================================================================
