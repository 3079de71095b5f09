------------------------------ MODULE ReadsInv ------------------------------
(***************************************************************************)
(* The inductive invariant of ServerReads: what the history of a           *)
(* repository looks like, and how much of an answer an operation has at    *)
(* each of its points.  r.life = born says that no deletion of the         *)
(* repository fell into the operation.                                     *)
(***************************************************************************)
EXTENDS ServerReads

Spots == {"idle", "find", "blob", "resolve", "blobAt", "pathSHA", "head", "refused", "to", "from", "left",
          "right", "blame", "log", "entry", "list", "batchHead", "changed", "batch", "missing", "done"}

Heads   == UNION {Headings[d] : d \in Contents}
Answers == Seq(Pages \X Sha \X (Contents \cup {NoContent}))

Reading == [at : Spots, op : {"none", "page", "at", "pull", "diff", "evolution"}, page : Pages \cup {"none"},
            from : Sha, to : Sha, sha : Sha, head : Sha, back : {"done", "batch", "missing"},
            need : SUBSET (Pages \cup Sha), todo : SUBSET (Pages \cup (Heads \X Sha) \cup (Sha \X Sha)),
            list : [Pages -> Sha], got : Answers, life : Sha, low : Sha]

Fresh(r) == r.life = born

(* A tip is the last commit of the present life that touched the page, and *)
(* two successive commits of a page differ.                                *)
IsLast(p, s, c) == c \in Touching(p, s) /\ \A e \in Touching(p, s) : e <= c

Successive(b, c) == /\ born < b /\ b < c /\ log[b].page = log[c].page
                    /\ \A e \in 1 .. Len(log) : b < e /\ e < c => log[e].page # log[b].page

History ==
    /\ born <= Len(log)
    /\ \A p \in Pages : IF tip[p] = 0 THEN Touching(p, Len(log)) = {} ELSE IsLast(p, Len(log), tip[p])
    /\ \A b, c \in 1 .. Len(log) : Successive(b, c) => log[b].content # log[c].content

(* Which operation is at which point. *)
Course(r) ==
    /\ r.at \in {"resolve", "blobAt", "pathSHA", "head", "refused"} => r.op = "at"
    /\ r.at \in {"to", "from", "left", "right", "blame"} => r.op = "diff"
    /\ r.at \in {"log", "entry"} => r.op = "evolution"
    /\ r.at \in {"list", "batchHead", "changed", "batch", "missing"} => r.op = "pull"
    /\ r.at \in {"find", "blob"} => r.op \in {"page", "pull"}
    /\ r.at = "idle" => r.op = "none"
    /\ r.op = "page" => r.at \in {"idle", "find", "blob", "done"}
    /\ r.op = "at" => r.at \in {"idle", "resolve", "blobAt", "pathSHA", "head", "refused", "done"}
    /\ r.op = "diff" => r.at \in {"idle", "to", "from", "left", "right", "blame", "done"}
    /\ r.op = "evolution" => r.at \in {"idle", "log", "entry", "done"}
    /\ r.op \in {"page", "at", "diff", "evolution"} => r.page \in Pages

Paired(v) == v[2] \in 1 .. Len(log) /\ log[v[2]].page = v[1] /\ log[v[2]].content = v[3]

(* What Store.Read has found, before it reads the content. *)
Found(r) == r.at = "blob" => /\ r.sha \in 1 .. Len(log) /\ log[r.sha].page = r.page
                             /\ Fresh(r) => r.sha > born

PageOK(r) ==
    /\ r.back = "done"
    /\ \A i \in DOMAIN r.got : Paired(r.got[i])
    /\ r.at \in {"find", "blob"} => r.got = << >>
    /\ r.at = "done" => Len(r.got) = 1
    /\ Fresh(r) => /\ r.low <= tip[r.page]
                   /\ r.at = "blob" => r.sha >= r.low
                   /\ r.at = "done" => r.got[1][2] >= r.low

AtOK(r) ==
    /\ r.to \in 1 .. Len(log)
    /\ r.at \in {"pathSHA", "done"} => Len(r.got) = 1
    /\ r.at = "pathSHA" /\ Resolves(r.to) =>
          LastTouch(r.page, r.to) # 0 /\ r.got[1] = <<r.page, 0, BlobAt(r.page, r.to)>>
    /\ r.at = "done" => /\ Paired(r.got[1])
                        /\ Fresh(r) => r.got[1][2] = LastTouch(r.page, r.to)

FirstWith(p, x) == /\ x[2] \in 1 .. Len(log) /\ x[1] \in Headings[log[x[2]].content]
                   /\ \A c \in Touching(p, x[2] - 1) : x[1] \notin Headings[log[c].content]

DiffOK(r) ==
    /\ r.to \in 0 .. Len(log) /\ r.from \in 0 .. Len(log)
    /\ r.at \in {"to", "from", "left"} => r.got = << >>
    /\ r.at # "to" => r.to # 0
    /\ r.at \notin {"to", "from"} =>
          /\ r.sha \in 1 .. Len(log)
          /\ Fresh(r) /\ r.from = 0 => r.sha = Parent(r.page, r.to)
    /\ r.at = "right" => Len(r.got) = 1 /\ (Fresh(r) => r.got[1] = <<r.page, r.sha, BlobAt(r.page, r.sha)>>)
    /\ r.at \in {"blame", "done"} =>
          /\ Len(r.got) = 2
          /\ Fresh(r) => /\ r.got[1] = <<r.page, r.sha, BlobAt(r.page, r.sha)>>
                         /\ r.got[2] = <<r.page, r.to, BlobAt(r.page, r.to)>>
    /\ r.at = "done" /\ Fresh(r) /\ Cardinality(Touching(r.page, Len(log))) <= BlameCap =>
          \A x \in r.todo : FirstWith(r.page, x)

Walked(r) == r.need \cup {x[2] : x \in r.todo}

EvolutionOK(r) ==
    /\ r.at = "log" => r.todo = {}
    /\ r.todo \subseteq Sha \X Sha
    /\ r.at = "entry" => r.need \subseteq 1 .. Len(log)
    /\ r.at = "done" => r.need = {}
    /\ Fresh(r) => r.low <= tip[r.page]
    /\ Fresh(r) /\ r.at \in {"entry", "done"} =>
          /\ Walked(r) \subseteq Touching(r.page, Len(log))
          /\ \E k \in Walked(r) : k >= r.low
          /\ \A k, m \in Walked(r), c \in Touching(r.page, Len(log)) : k <= c /\ c <= m => c \in Walked(r)
          /\ \A x \in r.todo : x[1] = Parent(r.page, x[2])

Taken(r) == {r.got[i][1] : i \in DOMAIN r.got}

PullOK(r) ==
    /\ r.need \subseteq Pages /\ r.todo \subseteq r.need
    /\ \A i \in DOMAIN r.got : Paired(r.got[i])
    /\ r.at \in {"list", "batchHead", "changed"} => r.todo = {}
    /\ r.at = "list" => r.got = << >> /\ r.need = {}
    /\ r.at \in {"find", "blob"} => r.back # "done" /\ r.page \in r.need
    /\ Fresh(r) =>
          /\ \A p \in r.need : tip[p] # 0
          /\ \A p \in Pages : r.list[p] <= tip[p]
          /\ \A i \in DOMAIN r.got : r.got[i][2] >= r.list[r.got[i][1]]
          /\ r.at = "blob" => r.sha >= r.list[r.page]
          /\ r.at = "missing" \/ (r.at = "batch" /\ r.from = 0) => r.need \subseteq Taken(r) \cup r.todo
          /\ r.at \in {"find", "blob"} /\ (r.back = "missing" \/ r.from = 0) =>
                r.need \subseteq Taken(r) \cup r.todo \cup {r.page}
          /\ r.at = "done" => r.need \subseteq Taken(r)

ReadOK(r) ==
    /\ Course(r) /\ Found(r) /\ r.life <= born
    /\ r.op = "page" => PageOK(r)
    /\ r.op = "at" => AtOK(r)
    /\ r.op = "diff" => DiffOK(r)
    /\ r.op = "evolution" => EvolutionOK(r)
    /\ r.op = "pull" => PullOK(r)

ReadsInvariant ==
    /\ StoreTypeOK /\ have \in [Pages -> Sha] /\ lastPull \in Sha
    /\ History
    /\ rd \in Reading /\ ReadOK(rd)
=============================================================================
