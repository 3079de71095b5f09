----------------------------- MODULE SharedPages -----------------------------
(***************************************************************************)
(* What Contexo promises a team about its shared pages, without bases,     *)
(* sidecars, requests or crashes: a history of versions per page that only *)
(* grows, and writers who replace the current version of a page only when  *)
(* they know it.  SafeSync implements it (SharedSpec there).               *)
(***************************************************************************)
EXTENDS Naturals, Sequences

CONSTANTS Clones, Peers, Pages, Contents

VARIABLES history,   \* the versions, oldest first
          current,   \* the current version of each page, 0 if there is none
          known      \* the versions of each page each clone's user knows

sharedVars == <<history, current, known>>

Versions(h, p) == {s \in 1 .. Len(h) : h[s].page = p}

(* Users learn of versions that exist, and forget none. *)
Learn == \A c \in Clones, p \in Pages :
            known[c][p] \subseteq known'[c][p] /\ known'[c][p] \subseteq Versions(history', p)

SharedInit == /\ history = << >>
              /\ current = [p \in Pages |-> 0]
              /\ known = [c \in Clones |-> [p \in Pages |-> {}]]

MayReplace(w, p) == w \in Peers \/ current[p] = 0 \/ current[p] \in known[w][p]

Publish(w, p, d) ==
    /\ MayReplace(w, p)
    /\ history' = Append(history, [page |-> p, content |-> d, by |-> w])
    /\ current' = [current EXCEPT ![p] = Len(history')]
    /\ Learn

Read == Learn /\ UNCHANGED <<history, current>>

(* The repository is deleted: no page has a current version. *)
Forget == /\ current' = [p \in Pages |-> 0]
          /\ Learn /\ UNCHANGED history

SharedNext == \/ \E w \in Clones \cup Peers, p \in Pages, d \in Contents : Publish(w, p, d)
              \/ Read
              \/ Forget

SharedSpec == SharedInit /\ [][SharedNext]_sharedVars
=============================================================================
