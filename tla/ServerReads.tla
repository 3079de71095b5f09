----------------------------- MODULE ServerReads -----------------------------
(***************************************************************************)
(* The reads of a repository: the read handlers of internal/server/handler *)
(* over the reads of gitstore, and the client calls that make them.  No    *)
(* read takes the repository lock: it is a sequence of git processes, and  *)
(* commits, a deletion and re-creation of the repository and a change of   *)
(* the server's version may fall between any two of them.  Reads change    *)
(* nothing on the server, so one reader at a time shows every race.        *)
(*                                                                         *)
(* The reader is a clone: it keeps the versions it has pulled (have) and   *)
(* last_pull_sha (lastPull).  Each of its operations runs to an answer,    *)
(* which the properties look at, before the next one begins.               *)
(***************************************************************************)
EXTENDS PageStore, FiniteSets
FS == INSTANCE FiniteSetsExt

CONSTANTS Headings,  \* [Contents -> sets of ## headings]
          Ops,       \* what the reader may ask
          Fallback,  \* pullBatchFallback
          Limit,     \* commits of an evolution
          BlameCap,  \* commits annotateBlame walks
          Builds,    \* "new", and "old" when one that ignores ?at may answer
          Wipes      \* may an operator delete the repository?

ASSUME ReadsAssumption == /\ Ops \subseteq {"page", "at", "pull", "diff", "evolution"}
                          /\ Builds \subseteq {"new", "old"}
                          /\ Fallback \in Nat /\ Limit \in Nat \ {0} /\ BlameCap \in Nat \ {0}

VARIABLES have,    \* the version of each page the clone has, 0 for none
          lastPull,\* its last_pull_sha
          rd       \* the operation in progress

readVars == <<storeVars, have, lastPull, rd>>

NoContent == "absent"

ASSUME AbsentContent == NoContent \notin Contents

-----------------------------------------------------------------------------
(* git *)

Newest(S) == IF S = {} THEN 0 ELSE FS!Max(S)

(* git log SHA -- path: the commits of this life that touched a page.      *)
Touching(p, s) == {c \in 1 .. s : c > born /\ log[c].page = p}

(* Variant: the last commit of the repository, whatever page it touched.   *)
LastTouchAnyPage(p, s) == Newest({c \in 1 .. s : c > born})

(* Variant: the commit that introduced the page.                           *)
FirstTouch(p, s) == IF Touching(p, s) = {} THEN 0 ELSE FS!Min(Touching(p, s))

(* lastCommitForPath, HeadSHAForPath: git log -n1.                         *)
LastTouch(p, s) == Newest(Touching(p, s))

(* Variant: the commit before, whatever page it touched.                   *)
ParentAnyPage(p, s) == Newest({c \in 1 .. s : c > born /\ c < LastTouch(p, s)})

(* ResolveParentSHAForPath: the second line of git log -n2.                *)
Parent(p, s) == Newest(Touching(p, s) \ {LastTouch(p, s)})

(* resolveCommit *)
Resolves(s) == s > born /\ s <= Len(log)

(* blobAt: the bytes of a path in the tree of a commit.                    *)
BlobAt(p, s) == LET c == LastTouch(p, s) IN IF c = 0 THEN NoContent ELSE log[c].content

HeadSHA == IF Len(log) > born THEN Len(log) ELSE 0

-----------------------------------------------------------------------------
NoShas == [p \in Pages |-> 0]

(* got collects <<page, sha, content>>; life and low are what the server   *)
(* was when the operation began, for the properties.                       *)
Resting == [at |-> "idle", op |-> "none", page |-> "none", from |-> 0, to |-> 0, sha |-> 0,
            head |-> 0, back |-> "done", need |-> {}, todo |-> {}, list |-> NoShas, got |-> << >>,
            life |-> 0, low |-> 0]

ReadsInit == StoreInit /\ have = NoShas /\ lastPull = 0 /\ rd = Resting

Go(at)  == rd' = [rd EXCEPT !.at = at]
Fail    == rd' = Resting
Deliver(p, s, d) == Append(rd.got, <<p, s, d>>)
Reader  == UNCHANGED <<storeVars, have, lastPull>>

(* A request begins.  A sha in it is one that somebody has seen.           *)
Ask ==
    /\ rd.at = "idle"
    /\ \E op \in Ops : \E p \in IF op = "pull" THEN {"none"} ELSE Pages,
                          f \in IF op = "diff" THEN 0 .. Len(log) ELSE {0},
                          t \in CASE op = "diff" -> 0 .. Len(log) [] op = "at" -> 1 .. Len(log) [] OTHER -> {0} :
        rd' = [Resting EXCEPT !.op = op, !.page = p, !.from = f, !.to = t, !.life = born,
                    !.low = IF op \in {"page", "evolution"} THEN tip[p] ELSE 0,
                    !.at = CASE op = "page" -> "find" [] op = "at" -> "resolve" [] op = "pull" -> "list"
                             [] op = "diff" -> "to" [] op = "evolution" -> "log"]
    /\ Reader

(* The client has read the answer. *)
Answered == rd.at = "done" /\ rd.op # "pull" /\ rd' = Resting /\ Reader

-----------------------------------------------------------------------------
(* Store.Read, behind GET pages, every file of a pull and its missing      *)
(* pages: the page's last commit, then its content at that commit.         *)

(* A page that is gone is a 404, or skipped by a pull.                     *)
PageGone == IF rd.op = "pull" THEN Go(rd.back) ELSE Fail

Find ==
    /\ rd.at = "find"
    /\ LET s == LastTouch(rd.page, Len(log))
       IN  IF s = 0 THEN PageGone ELSE rd' = [rd EXCEPT !.at = "blob", !.sha = s]
    /\ Reader

(* Variant: the content is read at HEAD.                                   *)
BlobRevHead == Len(log)

(* The commit the content is read at: the path's own last commit.          *)
BlobRev == rd.sha

Blob ==
    /\ rd.at = "blob"
    /\ LET d == IF Resolves(rd.sha) THEN BlobAt(rd.page, BlobRev) ELSE NoContent
       IN  IF d = NoContent THEN PageGone
           ELSE rd' = [rd EXCEPT !.at = rd.back, !.got = Deliver(rd.page, rd.sha, d)]
    /\ Reader

(* ReadPage?at: resolveCommit, the blob, git log -n1 SHA.  A server that   *)
(* does not know ?at serves HEAD without the echo.                         *)
Resolve ==
    /\ rd.at = "resolve"
    /\ \/ "old" \in Builds /\ Go("head")
       \/ "new" \in Builds /\ IF Resolves(rd.to) THEN Go("blobAt") ELSE Fail
    /\ Reader

BlobOfCommit ==
    /\ rd.at = "blobAt"
    /\ LET d == IF Resolves(rd.to) THEN BlobAt(rd.page, rd.to) ELSE NoContent
       IN  IF d = NoContent THEN Fail ELSE rd' = [rd EXCEPT !.at = "pathSHA", !.got = <<<<rd.page, 0, d>>>>]
    /\ Reader

PathSHA ==
    /\ rd.at = "pathSHA"
    /\ IF Resolves(rd.to)
       THEN rd' = [rd EXCEPT !.at = "done", !.got[1][2] = LastTouch(rd.page, rd.to)]
       ELSE Fail
    /\ Reader

(* Variant: any 200 is taken for the version that was asked for.           *)
EchoIgnored == "done"

(* What Client.ReadPageAt makes of a 200 without the echo.                 *)
EchoMissing == "refused"

HeadInstead ==
    /\ rd.at = "head"
    /\ LET s == LastTouch(rd.page, Len(log))
       IN  IF s = 0 THEN Fail
           ELSE rd' = [rd EXCEPT !.at = EchoMissing, !.got = <<<<rd.page, s, log[s].content>>>>]
    /\ Reader

Refuse == rd.at = "refused" /\ Fail /\ Reader

-----------------------------------------------------------------------------
(* GET diff: the defaults, then both sides, then the blame.                *)

DiffTo ==
    /\ rd.at = "to"
    /\ LET t == IF rd.to # 0 THEN rd.to ELSE LastTouch(rd.page, Len(log))
       IN  IF t = 0 THEN Fail ELSE rd' = [rd EXCEPT !.at = "from", !.to = t]
    /\ Reader

DiffFrom ==
    /\ rd.at = "from"
    /\ LET f == IF rd.from # 0 THEN rd.from ELSE IF Resolves(rd.to) THEN Parent(rd.page, rd.to) ELSE 0
       IN  IF f = 0 THEN Fail ELSE rd' = [rd EXCEPT !.at = "left", !.sha = f]
    /\ Reader

(* readAtShaTolerant: a path that is absent at a commit is an empty side.  *)
DiffLeft ==
    /\ rd.at = "left"
    /\ IF Resolves(rd.sha)
       THEN rd' = [rd EXCEPT !.at = "right", !.got = Deliver(rd.page, rd.sha, BlobAt(rd.page, rd.sha))]
       ELSE Fail
    /\ Reader

DiffRight ==
    /\ rd.at = "right"
    /\ LET d == BlobAt(rd.page, rd.to)
       IN  IF Resolves(rd.to) /\ (d # NoContent \/ rd.got[1][3] # NoContent)
           THEN rd' = [rd EXCEPT !.at = "blame", !.got = Deliver(rd.page, rd.to, d)]
           ELSE Fail
    /\ Reader

(* The newest n members of a set. *)
NewestOf(S, n) == {c \in S : Cardinality({e \in S : e > c}) < n}

(* Variant: the walk is newest first, so that a later commit wins.         *)
IntroducerNewest(cs, h) == Newest({c \in cs : h \in Headings[log[c].content]})

(* annotateBlame: the first of the walked commits that has the heading.    *)
Introducer(cs, h) ==
    LET with == {c \in cs : h \in Headings[log[c].content]}
    IN  IF with = {} THEN 0 ELSE FS!Min(with)

(* The sections of both sides and who introduced each.                     *)
DiffBlame ==
    /\ rd.at = "blame"
    /\ LET cs == NewestOf(Touching(rd.page, Len(log)), BlameCap)
           hs == UNION {Headings[d] : d \in {rd.got[1][3], rd.got[2][3]} \ {NoContent}}
       IN  rd' = [rd EXCEPT !.at = "done", !.todo = {<<h, Introducer(cs, h)>> : h \in hs}]
    /\ Reader

-----------------------------------------------------------------------------
(* GET evolution: LogPath, then each commit against its parent.  need      *)
(* holds the commits that are left, todo the entries <<parent, commit>>.   *)

LogPath ==
    /\ rd.at = "log"
    /\ LET cs == NewestOf(Touching(rd.page, Len(log)), Limit)
       IN  IF cs = {} THEN Fail ELSE rd' = [rd EXCEPT !.at = "entry", !.need = cs]
    /\ Reader

Entry ==
    /\ rd.at = "entry" /\ rd.need # {}
    /\ LET c == Newest(rd.need)
       IN  IF Resolves(c)
           THEN rd' = [rd EXCEPT !.need = @ \ {c}, !.todo = @ \cup {<<Parent(rd.page, c), c>>}]
           ELSE Fail
    /\ Reader

EntriesDone == rd.at = "entry" /\ rd.need = {} /\ Go("done") /\ Reader

-----------------------------------------------------------------------------
(* Pull: the listing, one batch since last_pull_sha, and what it lacks.    *)

(* The pages that a clone needs are pages that moved; pages with a local   *)
(* edit are skipped, and last_pull_sha passes them all the same.           *)
List ==
    /\ rd.at = "list"
    /\ \E need \in SUBSET {p \in Pages : tip[p] \notin {0, have[p]}} :
        rd' = [rd EXCEPT !.at = "batchHead", !.list = tip, !.need = need, !.from = lastPull]
    /\ Reader

(* ChangedSince, first call: rev-parse HEAD.  The first answer's head is   *)
(* the one the clone keeps.                                                *)
BatchHead ==
    /\ rd.at = "batchHead"
    /\ rd' = [rd EXCEPT !.at = IF HeadSHA = 0 THEN "batch" ELSE "changed", !.sha = HeadSHA,
                        !.head = IF @ = 0 THEN HeadSHA ELSE @]
    /\ Reader

(* git diff --name-only SINCE HEAD: the pages whose bytes differ.          *)
ChangedBetween(s, h) == {p \in Pages : BlobAt(p, s) # BlobAt(p, h)}

(* Second call: ls-tree HEAD, or the diff.  A since that does not resolve  *)
(* is an error, and the client asks once more without it (pullBatch).      *)
Changed ==
    /\ rd.at = "changed"
    /\ rd' = IF rd.from = 0
             THEN IF HeadSHA = 0 THEN Resting ELSE [rd EXCEPT !.at = "batch", !.todo = {p \in rd.need : LastTouch(p, Len(log)) # 0}]
             ELSE IF rd.from = rd.sha THEN [rd EXCEPT !.at = "batch"]
             ELSE IF Resolves(rd.from) /\ Resolves(rd.sha)
                  THEN [rd EXCEPT !.at = "batch", !.todo = ChangedBetween(rd.from, rd.sha) \cap rd.need]
             ELSE [rd EXCEPT !.at = "batchHead", !.from = 0, !.head = 0]
    /\ Reader

(* The next file of the batch, or of the pages the batch lacked; the other *)
(* files of a batch are ignored.                                           *)
ReadNext ==
    /\ rd.at \in {"batch", "missing"} /\ rd.todo # {}
    /\ \E p \in rd.todo : rd' = [rd EXCEPT !.at = "find", !.page = p, !.todo = @ \ {p}, !.back = rd.at]
    /\ Reader

Missing == rd.need \ {rd.got[i][1] : i \in DOMAIN rd.got}

(* Variant: what a batch lacks is taken for gone, whatever it was since.   *)
BatchWasAll == TRUE

(* A batch without since lists every page: what it lacks is gone.          *)
BatchWasFull == rd.from = 0

(* pullTake: the missing pages are fetched in one more batch when there    *)
(* are many, one by one when there are few.                                *)
Take ==
    /\ rd.at = "batch" /\ rd.todo = {}
    /\ rd' = IF Missing = {} \/ BatchWasFull THEN [rd EXCEPT !.at = "done"]
             ELSE IF Cardinality(Missing) > Fallback THEN [rd EXCEPT !.at = "batchHead", !.from = 0, !.need = Missing]
             ELSE [rd EXCEPT !.at = "missing", !.todo = Missing]
    /\ Reader

MissingRead == rd.at = "missing" /\ rd.todo = {} /\ Go("done") /\ Reader

(* pullFinish keeps what was delivered, and the head of the batch.         *)
Pulled ==
    /\ rd.at = "done" /\ rd.op = "pull"
    /\ have' = [p \in Pages |-> LET S == {i \in DOMAIN rd.got : rd.got[i][1] = p}
                                IN  IF S = {} THEN have[p] ELSE rd.got[Newest(S)][2]]
    /\ lastPull' = rd.head
    /\ rd' = Resting
    /\ UNCHANGED storeVars

-----------------------------------------------------------------------------
Writes   == /\ \E w \in Peers, p \in Pages, d \in Contents : StorePeerWrite(w, p, d)
            /\ UNCHANGED <<have, lastPull, rd>>
Recreate == Wipes /\ StoreWipe /\ UNCHANGED <<have, lastPull, rd>>

ReadsNext ==
    \/ Ask \/ Answered
    \/ Find \/ Blob \/ Resolve \/ BlobOfCommit \/ PathSHA \/ HeadInstead \/ Refuse
    \/ DiffTo \/ DiffFrom \/ DiffLeft \/ DiffRight \/ DiffBlame
    \/ LogPath \/ Entry \/ EntriesDone
    \/ List \/ BatchHead \/ Changed \/ ReadNext \/ Take \/ MissingRead \/ Pulled
    \/ Writes \/ Recreate

ReadsSpec == ReadsInit /\ [][ReadsNext]_readVars

-----------------------------------------------------------------------------
(* An answer that no deletion of the repository fell into.                 *)
Done(op) == rd.at = "done" /\ rd.op = op /\ rd.life = born

ReadsTypeOK ==
    /\ StoreTypeOK
    /\ have \in [Pages -> Sha] /\ lastPull \in Sha
    /\ DOMAIN rd = DOMAIN Resting
    /\ rd.got \in Seq(Pages \X Sha \X (Contents \cup {NoContent}))
    /\ rd.at \in {"idle", "find", "blob", "resolve", "blobAt", "pathSHA", "head", "refused", "to", "from", "left",
                   "right", "blame", "log", "entry", "list", "batchHead", "changed",
                   "batch", "missing", "done"}
    /\ rd.at = "blob" => log[rd.sha].page = rd.page

(* Every content that reaches a reader is the content of the commit whose  *)
(* sha comes with it, whatever was committed between the git calls (Read:  *)
(* "Reading both from one commit keeps them paired").                      *)
AnswersPaired ==
    rd.at = "done" /\ rd.op \in {"page", "at", "pull"} =>
        \A i \in DOMAIN rd.got : LET v == rd.got[i]
                                 IN  v[2] # 0 /\ log[v[2]].page = v[1] /\ log[v[2]].content = v[3]

(* A page read answers no version older than the page's when it was asked. *)
AnswersFresh == Done("page") => rd.got[1][2] >= rd.low

(* A read of a page at a commit never answers another commit's content,    *)
(* though the server may be replaced by one that serves HEAD instead.      *)
NeverHeadForHistory == Done("at") => rd.got[1][2] = LastTouch(rd.page, rd.to)

(* A diff without from compares neighbours: from is the version right      *)
(* before the version of the page at to, although the head, its parent and *)
(* both contents are read by separate git processes.                       *)
DiffIsOneStep ==
    Done("diff") =>
        LET cur == LastTouch(rd.page, rd.to)
        IN  /\ rd.got[2] = <<rd.page, rd.to, BlobAt(rd.page, rd.to)>>
            /\ rd.got[1] = <<rd.page, rd.sha, BlobAt(rd.page, rd.sha)>>
            /\ rd.from = 0 => /\ rd.sha \in Touching(rd.page, cur - 1)
                              /\ \A c \in Touching(rd.page, cur - 1) : c <= rd.sha
                              /\ rd.got[1][3] # rd.got[2][3]

(* Blame names a commit that has the heading, and no earlier version of    *)
(* the page had it.                                                        *)
BlameIsFirst ==
    Done("diff") /\ Cardinality(Touching(rd.page, Len(log))) <= BlameCap =>
        \A x \in rd.todo : /\ x[2] # 0 /\ x[1] \in Headings[log[x[2]].content]
                           /\ \A c \in Touching(rd.page, x[2] - 1) : x[1] \notin Headings[log[c].content]

(* The entries of an evolution are a chain of neighbouring versions that   *)
(* ends at one no older than the page's when it was asked.                 *)
EvolutionIsChain ==
    Done("evolution") =>
        /\ \E e \in rd.todo : e[2] >= rd.low
        /\ \A e \in rd.todo : /\ \A c \in Touching(rd.page, e[2] - 1) : c <= e[1]
                               /\ e[2] # Newest({x[2] : x \in rd.todo}) => \E f \in rd.todo : f[1] = e[2]

(* A pull is handed every page it needs, at a version no older than its    *)
(* listing showed, although last_pull_sha has passed pages that an earlier *)
(* pull skipped and although since may belong to a repository that is no   *)
(* more.                                                                   *)
PullGetsAll ==
    Done("pull") => /\ Missing = {}
                    /\ \A i \in DOMAIN rd.got : rd.got[i][2] >= rd.list[rd.got[i][1]]

(* An answer's contents stay with their shas, and none is older than the   *)
(* question.                                                               *)
AnswersSound ==
    /\ ReadsTypeOK
    /\ AnswersPaired
    /\ AnswersFresh

(* What a history says lies next to each other does: the two sides of a    *)
(* diff, the entries of an evolution, and the version that brought a       *)
(* heading in.                                                             *)
NeighboursOnly ==
    /\ DiffIsOneStep
    /\ EvolutionIsChain
    /\ BlameIsFirst
=============================================================================
