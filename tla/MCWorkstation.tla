---------------------------- MODULE MCWorkstation ----------------------------
(***************************************************************************)
(* The two parts of ctx that serve the agents of this machine: their       *)
(* configuration, and the capture buffers with the distill guard of        *)
(* ctx_push.  They share no file, so a behaviour moves one of them and     *)
(* leaves the other at rest.  To keep the states few, at most one of the   *)
(* agents' files is there before the first command, and a behaviour of the *)
(* buffers, which are those of one session of Claude Code and one of       *)
(* Codex, has either a ctx_push or a Stop hook that fires twice; hooks     *)
(* overlap and are killed in both.                                         *)
(***************************************************************************)
EXTENDS Wiring, CaptureInv, TLC

CONSTANTS claude, codex, h1, h2

HookProcesses == Permutations({h1, h2})

MCShapes == {<<"text">>, <<"text", "tool", "result", "text">>}
MCMaxExchanges == (claude :> 1) @@ (codex :> 7)

(* Codex's buffer has dropped turns 1 to 3 before. *)
MCEarlier == (claude :> NoFile) @@ (codex :> <<Marker, <<4, 4, 4>>, <<5, 5, 5>>, <<6, 6, 6>>>>)

(* The hypotheses of BuffersAreSound and RepliesComplete, met here.        *)
ASSUME RoomToDrop /\ LastTextApart

AtRestWiring ==
    /\ disk = [t \in Targets |-> Missing] /\ present = FALSE
    /\ job = AtRest /\ edits = 0

VARIABLE part   \* the part that moves

all == <<wiring, distillVars, part>>

Init ==
    /\ DistillInit
    /\ \/ /\ part = "wiring" /\ WiringInit
          /\ \A t, u \in Targets : disk[t] # Missing /\ disk[u] # Missing => t = u
       \/ part \in {"push", "twice"} /\ AtRestWiring

Capture ==
    /\ DistillNext
    /\ part = "push" => \A s \in Sessions : stops'[s] \in {0, 1, stops[s]}
    /\ part = "twice" => push'.at = "idle"

Next ==
    /\ UNCHANGED part
    /\ \/ part = "wiring" /\ WiringNext /\ UNCHANGED distillVars
       \/ part \in {"push", "twice"} /\ Capture /\ UNCHANGED wiring

Spec == Init /\ [][Next]_all
=============================================================================
