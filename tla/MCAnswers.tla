----------------------------- MODULE MCAnswers -----------------------------
(***************************************************************************)
(* What ctx and the server answer, and who is asked: every table of the    *)
(* pure decisions, each case asked once, the reads of the server as        *)
(* sequences of git calls, and the sign-in that decides which server gets  *)
(* which token.  They share no state; a behaviour has one of them.  The    *)
(* reads have two pages, with contents that share a heading.  To keep the  *)
(* states few, a history that an operator's deletion cuts in two is one    *)
(* commit shorter than one that none does.                                 *)
(***************************************************************************)
EXTENDS ClassifyCheck, DiffCheck, ErrorCheck, StatusCheck, ServerReads, SignIn, TLC

CONSTANTS c1, c2, h1, h2, p, q

(* Nothing tells the two pages apart. *)
Swap == Permutations({p, q})

MCBodies == {<< >>, <<"a", "b", "c">>, <<"a", "b", "c", "d">>, <<"e">>, <<Mark>>, <<"", "e", "">>}
MCValues == {Scalar("x"), Scalar("y"), ListOf({}), ListOf({"x"}), ListOf({"x", "y"}), ListOf({"z"})}
MCText == [s \in Shas |-> s]
MCHeadings == (c1 :> {h1}) @@ (c2 :> {h1, h2})

VARIABLE part   \* what this behaviour has

vars == <<asked, answer, readVars, signIn, part>>

AtRestSignIn ==
    /\ config = Absent /\ project = Absent /\ home = Absent /\ linked = FALSE
    /\ cmd = Idle /\ stray = Unset /\ told = {} /\ last = None

Init ==
    /\ answer = Pending
    /\ ReadsInit
    /\ \/ part = "tables" /\ (AskState \/ AskDiff \/ AskError \/ AskStatus) /\ AtRestSignIn
       \/ part = "reads" /\ asked = [table |-> "none"] /\ AtRestSignIn
       \/ part = "sign-in" /\ asked = [table |-> "none"] /\ SignInInit

Next ==
    /\ UNCHANGED part
    /\ \/ /\ part = "tables" /\ UNCHANGED <<readVars, signIn>>
          /\ \/ Verdict
             \/ AnswerPages \/ AnswerLines \/ AnswerMerge
             \/ AnswerFact \/ AnswerChain
             \/ AnswerStatus
       \/ /\ part = "reads" /\ UNCHANGED <<asked, answer, signIn>>
          /\ ReadsNext
          /\ born' # 0 => Len(log') < MaxCommits
       \/ part = "sign-in" /\ SignInNext /\ UNCHANGED <<asked, answer, readVars>>

Spec == Init /\ [][Next]_vars
=============================================================================
