------------------------------ MODULE PageStore ------------------------------
(***************************************************************************)
(* The server's copy of one repository: internal/server/gitstore over git. *)
(* Pages live in a git history; a sha is the position of its commit in     *)
(* log, 0 is the empty string.  tip[p] is what `git log -n1 -- p` answers. *)
(* An operator may delete the repository directory and a later push then   *)
(* re-creates it: the commits up to born are the history of a repository   *)
(* that no longer exists.  They stay in log because clones still hold      *)
(* their shas, and because a git sha is never used twice.                  *)
(***************************************************************************)
EXTENDS Naturals, Sequences

CONSTANTS Clones,      \* working copies, one per user and machine
          Peers,       \* other writers: older or foreign clients
          Pages,       \* page paths
          Contents,    \* what a valid page may hold
          MaxCommits   \* bound on the length of the history

ASSUME MaxCommitsAssumption == MaxCommits \in Nat
ASSUME PeersAssumption == Clones \cap Peers = {}

VARIABLES log,   \* the commits, oldest first
          tip,   \* the last commit that touched each page, 0 if none
          born   \* the last commit of the repository's previous life

storeVars == <<log, tip, born>>

Sha    == 0 .. MaxCommits
Commit == [page : Pages, content : Contents, by : Clones \cup Peers]

(* One file of a push request. *)
Item == [by : Clones \cup Peers, page : Pages, content : Contents, parent : Sha, absent : BOOLEAN]

StoreTypeOK == /\ log \in Seq(Commit)
               /\ Len(log) \in Sha
               /\ tip \in [Pages -> Sha]
               /\ born \in Sha

StoreInit == log = << >> /\ tip = [p \in Pages |-> 0] /\ born = 0

-----------------------------------------------------------------------------
(* Variant: the create-only guard is missing. *)
RefusedByParent(it) == it.parent # 0 /\ tip[it.page] # 0 /\ it.parent # tip[it.page]

(* WriteWithOptions answers a conflict: the create-only guard, else the    *)
(* parent check, which an empty parent or an absent page skips.            *)
Refused(it) == LET cur == tip[it.page]
               IN  \/ it.absent /\ cur # 0
                   \/ ~it.absent /\ it.parent # 0 /\ cur # 0 /\ it.parent # cur

(* The page already holds these bytes: no commit, its own last commit is   *)
(* the answer.                                                             *)
NoOp(it) == LET cur == tip[it.page] IN cur # 0 /\ log[cur].content = it.content

(* The sha a write that is not refused answers with. *)
WrittenSha(it) == IF NoOp(it) THEN tip[it.page] ELSE Len(log) + 1

(* The write under the repository lock. *)
StoreWrite(it) ==
    /\ IF Refused(it) \/ NoOp(it)
       THEN UNCHANGED <<log, tip>>
       ELSE /\ Len(log) < MaxCommits
            /\ log' = Append(log, [page |-> it.page, content |-> it.content, by |-> it.by])
            /\ tip' = [tip EXCEPT ![it.page] = Len(log) + 1]
    /\ UNCHANGED born

(* A client that sends neither parent_sha nor expect_absent replaces       *)
(* whatever the page holds; so does one that always sends the latest sha.  *)
StorePeerWrite(w, p, d) ==
    StoreWrite([by |-> w, page |-> p, content |-> d, parent |-> 0, absent |-> FALSE])

(* ReadPageAt answers for a commit of the repository's present life only.  *)
Readable(s) == s > born

(* An operator deletes the repository. *)
StoreWipe == /\ born < Len(log)
             /\ born' = Len(log)
             /\ tip' = [p \in Pages |-> 0]
             /\ UNCHANGED log
=============================================================================
