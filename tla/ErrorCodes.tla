----------------------------- MODULE ErrorCodes -----------------------------
(***************************************************************************)
(* How a failure gets its stable code: the server's answer, the client's   *)
(* reading of it (internal/sync/errors.go), the chain of errors it travels *)
(* up in, and the envelope and exit code that a program reads              *)
(* (internal/ui/errors.go, internal/syncops/contract/errors.go).           *)
(***************************************************************************)
EXTENDS Naturals, Sequences, FiniteSets

(* codeTable: exit code and whether the same call may pass when repeated.  *)
Codes == {"internal", "usage", "invalid_path", "not_authenticated", "auth_rejected", "forbidden",
          "not_initialized", "repo_not_configured", "server_unresolved", "conflict", "stale",
          "network", "server_error", "rate_limited", "repo_not_found", "page_not_found",
          "base_unavailable", "sha_not_found", "distill_required", "not_resolvable",
          "server_unsupported", "not_implemented", "quota_exceeded", "busy"}

ExitOf == [c \in Codes |->
    CASE c = "internal" -> 1
      [] c \in {"usage", "invalid_path"} -> 3
      [] c \in {"not_authenticated", "auth_rejected", "forbidden"} -> 4
      [] c \in {"not_initialized", "repo_not_configured", "server_unresolved"} -> 5
      [] c \in {"conflict", "stale"} -> 6
      [] c \in {"network", "server_error", "rate_limited"} -> 7
      [] c \in {"repo_not_found", "page_not_found", "base_unavailable", "sha_not_found"} -> 8
      [] c \in {"distill_required", "not_resolvable"} -> 9
      [] c \in {"server_unsupported", "not_implemented"} -> 10
      [] c = "quota_exceeded" -> 11
      [] c = "busy" -> 12]

NoCode == ""

(* Variant: a code the table lacks is passed on. *)
AnyCode(code) == TRUE

KnownCode(code)   == code \in Codes
ExitCodeFor(code) == IF code \in Codes THEN ExitOf[code] ELSE ExitOf["internal"]
Retryable(code)   == code \in {"network", "server_error", "rate_limited", "busy"}

(* NewDetails: the codes whose envelope carries details.                   *)
Detailed == {"distill_required", "conflict", "stale", "not_resolvable",
             "server_unsupported", "busy", "quota_exceeded"}

NoDetails == "none"

-----------------------------------------------------------------------------
(* What the server answers: the status, and of the body whether it is a    *)
(* JSON object, its "error" and its "code".                                *)
Body(error, code)  == [json |-> TRUE, error |-> error, code |-> code]
NoJSON             == [json |-> FALSE, error |-> "", code |-> NoCode]
HTTPAnswer(status, b)  == [status |-> status, body |-> b]
WithCode(c, error) == IF c THEN Body(error[1], error[2]) ELSE Body(error[1], NoCode)

RepoGone == <<"repo not found", "repo_not_found">>

(* The handlers' answers about a page: at HEAD, at a commit, as a diff or  *)
(* as its evolution.  coded: the server is new enough to send codes; one   *)
(* that lacks the route answers a plain 404, and one that does not know a  *)
(* page's ?at answers for HEAD.                                            *)
ReadPage(fact, coded) ==
    CASE fact = "no_repo"  -> HTTPAnswer(404, WithCode(coded, RepoGone))
      [] fact = "no_page"  -> HTTPAnswer(404, WithCode(coded, <<"page not found", "page_not_found">>))
      [] fact = "bad_path" -> HTTPAnswer(400, WithCode(coded, <<"invalid page path", "invalid_path">>))

ReadPageAt(fact, coded) ==
    CASE ~coded \/ fact \in {"no_repo", "bad_path"} -> ReadPage(fact, coded)
      [] coded /\ fact = "no_sha"  -> HTTPAnswer(404, Body("sha not found", "sha_not_found"))
      [] coded /\ fact = "no_page" -> HTTPAnswer(404, Body("page not found at sha", "sha_not_found"))

Evolution(fact) ==
    CASE fact = "no_repo" -> HTTPAnswer(404, Body("repo not found", NoCode))
      [] fact = "no_page" -> HTTPAnswer(404, Body("path not present in repo", NoCode))

Guarded(fact, answer) ==
    CASE fact = "no_route"   -> HTTPAnswer(404, NoJSON)
      [] fact = "stranger"   -> HTTPAnswer(403, Body("not a member of this repo", NoCode))
      [] fact = "over_quota" -> HTTPAnswer(402, Body("limit", "quota_repos"))
      [] fact = "broken"     -> HTTPAnswer(500, Body("git", NoCode))
      [] fact = "proxy"      -> HTTPAnswer(502, NoJSON)
      [] OTHER               -> answer

-----------------------------------------------------------------------------
(* NewHTTPError and map404: the code and the details of an answer.  at:    *)
(* the request was for a page as of a commit.                              *)
Reading(code, details) == [code |-> code, details |-> details]

(* Variant: the text is looked at before the code and the kind of request. *)
Map404ByKind(body, at) ==
    IF at THEN "sha_not_found"
    ELSE IF body.error = "repo not found" THEN "repo_not_found" ELSE "page_not_found"

Map404(body, at) ==
    IF body.code \in {"page_not_found", "repo_not_found", "sha_not_found"} THEN body.code
    ELSE IF body.error = "repo not found" THEN "repo_not_found"
    ELSE IF at THEN "sha_not_found" ELSE "page_not_found"

(* Variant: an answer without JSON is read like one with. *)
AnyBody(body) == TRUE

IsJSON(body) == body.json

NewHTTPError(a, at) ==
    CASE a.status \in 200 .. 299 -> Reading("server_error", NoDetails)
      [] a.status = 400 -> Reading(IF a.body.code = "invalid_path" THEN "invalid_path" ELSE "usage", NoDetails)
      [] a.status = 401 -> Reading("auth_rejected", NoDetails)
      [] a.status = 402 -> Reading("quota_exceeded", "quota_exceeded")
      [] a.status = 403 -> Reading("forbidden", NoDetails)
      [] a.status = 404 -> IF IsJSON(a.body) THEN Reading(Map404(a.body, at), NoDetails)
                           ELSE Reading("server_unsupported",
                                        IF at THEN "server_unsupported" ELSE NoDetails)
      [] a.status = 429 -> Reading("rate_limited", NoDetails)
      [] a.status \in 500 .. 599 -> Reading("server_error", NoDetails)
      [] OTHER -> Reading("internal", NoDetails)

(* pullPageGone: a pull takes the page for deleted. *)
PullPageGone(code) == code = "page_not_found"

-----------------------------------------------------------------------------
(* A chain of errors, outermost first, a joined one as its parts in order: *)
(* plain text, a CLIError with advice, a contract error, an error with a   *)
(* code hook, or a transport failure.                                      *)
Plain                     == [kind |-> "plain"]
CLIError(advice)          == [kind |-> "cli", advice |-> advice]
Contract(code, d, advice) == [kind |-> "contract", code |-> code, details |-> d, advice |-> advice]
Coded(code, d, advice)    == [kind |-> "coded", code |-> code, details |-> d, advice |-> advice]
Transport                 == [kind |-> "transport"]

Kinds(chain, kind) == {i \in 1 .. Len(chain) : chain[i].kind = kind}
First(is)          == CHOOSE i \in is : \A j \in is : i <= j

(* The contract error nearest the surface, or else the first code hook     *)
(* that has a code.  Variant: only the outermost error is looked at.       *)
Outermost(chain) == Kinds(chain, "contract") \cap {1}

Contracts(chain) == Kinds(chain, "contract")
FirstCoded(chain) == {i \in Kinds(chain, "coded") : chain[i].code # NoCode}

CodeSource(chain) ==
    IF Contracts(chain) # {} THEN {First(Contracts(chain))}
    ELSE IF FirstCoded(chain) # {} THEN {First(FirstCoded(chain))} ELSE {}

(* Variant: duplicates stay. *)
MergedAll(advice) == advice

(* mergeAdvice: the first of each, and no empty one. *)
NoAdvice == ""

Merged(advice) ==
    LET out[n \in 0 .. Len(advice)] ==
          IF n = 0 THEN << >>
          ELSE IF advice[n] = NoAdvice \/ \E i \in 1 .. Len(out[n - 1]) : out[n - 1][i] = advice[n]
               THEN out[n - 1] ELSE Append(out[n - 1], advice[n])
    IN  out[Len(advice)]

(* ToContractError; usage: the outermost text starts like a message of the *)
(* argument parser.                                                        *)
ToContractError(chain, usage) ==
    LET at   == CodeSource(chain)
        src  == chain[First(at)]
        raw  == IF at # {} THEN src.code
                ELSE IF Kinds(chain, "transport") # {} THEN "network"
                ELSE IF usage THEN "usage" ELSE "internal"
        code == IF KnownCode(raw) THEN raw ELSE "internal"
        cli  == Kinds(chain, "cli")
    IN  [code    |-> code,
         details |-> IF at # {} /\ code \in Detailed THEN src.details ELSE NoDetails,
         advice  |-> Merged((IF cli = {} THEN << >> ELSE chain[First(cli)].advice)
                            \o (IF at = {} THEN << >> ELSE src.advice))]

Envelope(e) == [exit |-> ExitCodeFor(e.code), retryable |-> Retryable(e.code),
                code |-> e.code, details |-> e.details, advice |-> e.advice]

(* Suggest adds advice: to the CLIError the chain has, or as a new layer.  *)
Suggest(chain, advice) ==
    LET cli == Kinds(chain, "cli")
    IN  IF cli = {} THEN <<CLIError(advice)>> \o chain
        ELSE [chain EXCEPT ![First(cli)].advice = @ \o advice]

(* showAt wraps the client's error in the code it stands for.              *)
ShowAt(r) ==
    IF r.code \in {"repo_not_found", "server_unsupported", "sha_not_found"}
    THEN <<Contract(r.code, IF r.code = "server_unsupported" THEN r.code ELSE NoDetails, << >>),
           Coded(r.code, r.details, << >>)>>
    ELSE <<Plain, Coded(r.code, r.details, << >>)>>
=============================================================================
