----------------------------- MODULE ErrorCheck -----------------------------
(***************************************************************************)
(* The codes of failures: what an answer of the server is understood as,   *)
(* and what is left of a failure's code, details and advice when it has    *)
(* been wrapped, joined and given advice on its way up.                    *)
(***************************************************************************)
EXTENDS ErrorCodes, Tables

Facts  == {"no_repo", "no_page", "bad_path", "no_sha", "no_route", "stranger",
           "over_quota", "broken", "proxy"}
Routes == {"head", "at", "evolution"}

(* no_sha is a fact of ?at alone, and an evolution takes any path.         *)
Meets(route, fact, coded) ==
    /\ fact = "no_sha" => route = "at" /\ coded
    /\ fact = "bad_path" => route # "evolution"
    /\ route = "evolution" => ~coded

Layers == {Plain, Transport, CLIError(<<"a">>), CLIError(<<"b", "a">>),
           Contract("busy", "busy", <<"a">>), Contract("stale", "stale", << >>),
           Contract("usage", NoDetails, <<"b", "b">>), Coded(NoCode, NoDetails, << >>),
           Coded("forbidden", NoDetails, <<"c">>), Coded("quota_exceeded", "quota_exceeded", << >>),
           Coded("future", "conflict", << >>)}

AskError ==
    \/ \E f \in Facts, r \in Routes, c \in BOOLEAN :
          Meets(r, f, c) /\ asked = [table |-> "fact", fact |-> f, route |-> r, coded |-> c]
    \/ \E n \in 1 .. 4 : \E c \in [1 .. n -> Layers], u \in BOOLEAN :
          asked = [table |-> "chain", chain |-> c, usage |-> u]

(* The answer, as read by the client and as shown by the command: ctx show *)
(* for a page as of a commit.                                              *)
AnswerFact ==
    /\ Asked("fact")
    /\ LET page == CASE asked.fact \in {"no_route", "stranger", "over_quota", "broken", "proxy"} -> NoJSON
                     [] OTHER -> CASE asked.route = "head" -> ReadPage(asked.fact, asked.coded)
                                   [] asked.route = "at"   -> ReadPageAt(asked.fact, asked.coded)
                                   [] asked.route = "evolution" -> Evolution(asked.fact)
           r == NewHTTPError(Guarded(asked.fact, page), asked.route = "at")
           chain == IF asked.route = "at" THEN ShowAt(r) ELSE <<Plain, Coded(r.code, r.details, << >>)>>
       IN  Answers([read |-> r, shown |-> Envelope(ToContractError(chain, FALSE))])

AnswerChain ==
    /\ Asked("chain")
    /\ Answers([shown |-> Envelope(ToContractError(asked.chain, asked.usage))])

-----------------------------------------------------------------------------
(* Each fact about the repository reaches the user under its own code, on  *)
(* every route, from a server that sends codes and from one that does not: *)
(* a missing repository is never shown as a missing page or commit, nor a  *)
(* missing route as either.                                                *)
MeaningOf(fact, route) ==
    CASE fact = "no_repo"    -> {"repo_not_found"}
      [] fact = "no_page"    -> IF route = "at" THEN {"sha_not_found"} ELSE {"page_not_found"}
      [] fact = "no_sha"     -> {"sha_not_found"}
      [] fact = "bad_path"   -> {"invalid_path", "usage"}
      [] fact = "no_route"   -> {"server_unsupported"}
      [] fact = "stranger"   -> {"forbidden"}
      [] fact = "over_quota" -> {"quota_exceeded"}
      [] fact \in {"broken", "proxy"} -> {"server_error"}

AnswerUnderstood ==
    Given("fact") =>
        /\ answer.shown.code \in MeaningOf(asked.fact, asked.route)
        /\ answer.shown.retryable => asked.fact \in {"broken", "proxy"}

(* A pull takes a page for deleted only when the server has the repository *)
(* and not the page (pull.go 428-437).                                     *)
OnlyGoneIsGone ==
    Given("fact") /\ asked.route = "head" =>
        (PullPageGone(answer.read.code) <=> asked.fact = "no_page")

(* Text or advice added on the way up changes neither the code nor the     *)
(* details, and advice that is added is shown.                             *)
WrapKeepsCode ==
    Given("chain") =>
        LET kept(c) == LET e == ToContractError(c, FALSE) IN <<e.code, e.details>>
            chain   == asked.chain
            advised == Suggest(chain, <<"d">>)
        IN  /\ chain[1].kind \in {"plain", "cli"} /\ Len(chain) > 1 => kept(chain) = kept(Tail(chain))
            /\ kept(advised) = kept(chain)
            /\ \E i \in DOMAIN ToContractError(advised, FALSE).advice :
                  ToContractError(advised, FALSE).advice[i] = "d"

(* An envelope has a stable code and the exit code of its kind, details    *)
(* only where the code has them, and no advice twice; the exit code alone  *)
(* tells whether a repetition may help.                                    *)
EnvelopeSound ==
    Given("chain") =>
        LET e == answer.shown
        IN  /\ e.code \in Codes /\ e.exit = ExitOf[e.code]
            /\ e.details \in {NoDetails, e.code}
            /\ \A i, j \in DOMAIN e.advice : e.advice[i] = e.advice[j] => i = j
            /\ \A c \in Codes : ExitOf[c] = e.exit => Retryable(c) = e.retryable

(* From the server's answer to the exit code a failure keeps its meaning:  *)
(* the right code is read from the answer, only a deleted page is taken    *)
(* for deleted, no layer on the way up changes the code, and the envelope  *)
(* is consistent (map404, ToContractError, RenderEnvelope).                *)
CodesSurvive ==
    /\ AnswerUnderstood
    /\ OnlyGoneIsGone
    /\ WrapKeepsCode
    /\ EnvelopeSound
=============================================================================
