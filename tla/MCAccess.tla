------------------------------ MODULE MCAccess ------------------------------
(* RepoAccess on a directory with two ids, the second one a spelling that   *)
(* names the same files, and another directory.                             *)
EXTENDS RepoAccess, TLC

CONSTANTS u1, u2, legacy

MCDirName == [i \in {"team", "te.am", "other"} |-> IF i = "te.am" THEN "team" ELSE i]
MCDirOf   == [i \in {"team", "te.am", "other"} |-> IF i = "other" THEN "d2" ELSE "d1"]

Rows(i, f) == [x \in {"team", "te.am", "other"} |-> IF x = i THEN f ELSE [u \in Users |-> "none"]]

(* The owner creates, pushes and manages; the other one joins, reads and   *)
(* also creates; the legacy key pushes.                                    *)
MCTraffic == ({u1} \X {"create", "push", "mint", "keys", "revoke", "remove"})
             \cup ({u2} \X {"create", "push", "init", "read", "pull", "members", "join", "signin"})
             \cup ({legacy} \X {"push"})

(* An owner with a member, or with an invite key under the other spelling; *)
(* two owners; a repository the legacy key made; no repository, no user.    *)
Old(g, us, m, i, f, ks) ==
    [id |-> "team", gen |-> g, users |-> us, maker |-> [user |-> m, id |-> i], role |-> f, keys |-> ks]
NoRows == Rows("team", [u \in Users |-> "none"])

MCOldRows ==
    {Old(1, Users, u1, i, Rows(i, (u1 :> "owner") @@ (u2 :> "member")), {}) : i \in {"team", "te.am"}}
    \cup {Old(1, Users, u1, "te.am", Rows("te.am", (u1 :> "owner") @@ (u2 :> "none")),
              {[id |-> "te.am", gen |-> 1, live |-> TRUE]}),
          Old(1, Users, legacy, "team", Rows("team", (u1 :> "owner") @@ (u2 :> "owner")), {}),
          Old(1, {}, legacy, "team", NoRows, {}), Old(1, Users, legacy, "team", NoRows, {}),
          Old(0, {u2}, legacy, "team", NoRows, {})}

\* The hypothesis of the theorems about creation holds here.
ASSUME MCOrderly == Orderly
=============================================================================
