---------------------------- MODULE AccessProofs ----------------------------
(***************************************************************************)
(* Theorems about RepoAccess, for every set of users, requests, ids and    *)
(* directories, every traffic and every rows the server starts with.       *)
(***************************************************************************)
EXTENDS RepoAccess, FiniteSetTheorems, TLAPS

Slots == [Reqs -> Request \cup {Idle}]

\* The steps at which a request holds createRepoMu.
Holding == {"purge", "owner"}
Steps   == {"enter", "list", "lock", "purge", "owner", "decide", "write", "record", "look", "recheck",
            "upsert", "adopt", "claim"}

TypeInv ==
    /\ gen \in [Dirs -> Lives] /\ gens \in Lives /\ started \in 0 .. MaxReqs
    /\ users \subseteq Users /\ role \in [Ids -> [Users -> Roles]] /\ keys \subseteq Key
    /\ feed \subseteq Row
    /\ req \in Slots /\ mu \in Reqs \cup {Free}
    /\ settled \subseteq Lives /\ maker \in [1 .. MaxGen -> [user : Callers, id : Ids]]
    /\ granted \subseteq Lives \X Users /\ seen \subseteq Lives \X Users
    /\ wrote \subseteq Stored /\ turnedAway \subseteq Lives \X Users

MutexOK == \A r \in Reqs : req[r].at \in Holding <=> mu = r

\* Lives are numbered in the order of their creation.
LivesOK == settled \subseteq 0 .. gens /\ \A d \in Dirs : gen[d] <= gens

\* A repository whose creation is under way is nobody's yet.
InMaking == \A r \in Reqs : req[r].at \in Holding => Life(req[r].id) = 0

\* Which steps are never the legacy key's, and what a read or a push has found.
Named(q) ==
    /\ q.at \in {"owner", "decide", "upsert", "adopt", "claim"} \/ (q.at = "enter" /\ q.op = "signin")
         => q.user \in Users
    /\ q.at \in {"recheck", "write", "record"} => q.saw \in Lives

AccessInv == TypeInv /\ MutexOK /\ LivesOK /\ InMaking /\ \A r \in Reqs : Named(req[r])

LEMMA TypeFromInv == AccessInv => AccessTypeOK
BY DEF AccessInv, TypeInv, MutexOK, AccessTypeOK, Slots, Holding

-----------------------------------------------------------------------------
(* Requests *)

LEMMA IdleFacts == Idle.at = "idle" /\ "idle" \notin Steps
BY DEF Idle, Steps

LEMMA RequestFields ==
    ASSUME NEW q \in Request
    PROVE  /\ q.at \in Steps /\ q.op \in Ops /\ q.user \in Callers /\ q.id \in Ids /\ q.key \in Key
           /\ q.whom \in Users /\ q.known \in SUBSET Ids /\ q.saw \in Nat /\ q.todo \in SUBSET Ids
BY DEF Request, Steps

LEMMA RequestAt ==
    ASSUME NEW q \in Request, NEW at \in Steps
    PROVE  LET n == [q EXCEPT !.at = at]
           IN  /\ n \in Request /\ n.at = at /\ n.user = q.user /\ n.id = q.id /\ n.op = q.op
               /\ n.known = q.known /\ n.todo = q.todo /\ n.saw = q.saw
BY DEF Request, Steps

LEMMA RequestKnowing ==
    ASSUME NEW q \in Request, NEW known \in SUBSET Ids
    PROVE  LET n == [q EXCEPT !.at = "lock", !.known = known]
           IN  n \in Request /\ n.at = "lock"
BY DEF Request

Seeing(q, at, saw)    == [q EXCEPT !.at = at, !.saw = saw]
Claiming(q, id, todo) == [q EXCEPT !.at = "claim", !.id = id, !.todo = todo]

LEMMA RequestSeeing ==
    ASSUME NEW q \in Request, NEW at \in Steps, NEW saw \in Nat
    PROVE  LET n == Seeing(q, at, saw)
           IN  /\ n \in Request /\ n.at = at /\ n.user = q.user /\ n.saw = saw
               /\ n.op = q.op /\ n.id = q.id /\ n.known = q.known /\ n.todo = q.todo
BY DEF Request, Steps, Seeing

LEMMA RequestTodo ==
    ASSUME NEW q \in Request, NEW todo \in SUBSET Ids
    PROVE  /\ [q EXCEPT !.todo = todo] \in Request /\ [q EXCEPT !.todo = todo].at = q.at
           /\ [q EXCEPT !.todo = todo].user = q.user
           /\ [q EXCEPT !.at = "adopt", !.todo = todo] \in Request
           /\ [q EXCEPT !.at = "adopt", !.todo = todo].at = "adopt"
           /\ [q EXCEPT !.at = "adopt", !.todo = todo].user = q.user
BY DEF Request

LEMMA RequestClaiming ==
    ASSUME NEW q \in Request, NEW id \in Ids, NEW todo \in SUBSET Ids
    PROVE  LET n == Claiming(q, id, todo)
           IN  n \in Request /\ n.at = "claim" /\ n.user = q.user
BY DEF Request, Claiming

LEMMA Busy ==
    ASSUME req \in Slots, NEW r \in Reqs, req[r].at # "idle"
    PROVE  req[r] \in Request
BY IdleFacts DEF Slots

\* A step of one request.
Turn(r, q) == req' = [req EXCEPT ![r] = q]

LEMMA TurnOK ==
    ASSUME req \in Slots, NEW r \in Reqs, NEW q \in Request \cup {Idle}, Turn(r, q)
    PROVE  req' \in Slots /\ req'[r] = q /\ \A s \in Reqs \ {r} : req'[s] = req[s]
BY DEF Slots, Turn

(* A step outside the creation leaves the mutex and the lives alone.       *)
LEMMA Quiet ==
    ASSUME AccessInv, NEW r \in Reqs, req' \in Slots, \A s \in Reqs \ {r} : req'[s] = req[s],
           req[r].at \notin Holding, req'[r].at \notin Holding, Named(req'[r]),
           UNCHANGED <<gen, gens, mu, settled, maker>>, started' \in 0 .. MaxReqs,
           users' \subseteq Users, role' \in [Ids -> [Users -> Roles]], keys' \subseteq Key,
           feed' \subseteq Row,
           granted' \subseteq Lives \X Users, seen' \subseteq Lives \X Users,
           wrote' \subseteq Stored, turnedAway' \subseteq Lives \X Users
    PROVE  AccessInv'
<1>1. TypeInv'
  BY DEF AccessInv, TypeInv
<1>2. MutexOK'
  BY DEF AccessInv, MutexOK
<1>3. LivesOK'
  BY DEF AccessInv, LivesOK
<1>4. InMaking'
  <2> SUFFICES ASSUME NEW s \in Reqs, req'[s].at \in Holding
               PROVE  Life(req[s].id)' = 0
    BY DEF InMaking
  <2>1. s # r /\ req'[s] = req[s]
    OBVIOUS
  <2>. QED BY <2>1 DEF AccessInv, InMaking, Life
<1>5. \A s \in Reqs : Named(req'[s])
  BY DEF AccessInv
<1>. QED BY <1>1, <1>2, <1>3, <1>4, <1>5 DEF AccessInv

\* The same for a step that is over, or goes on at another point.
LEMMA QuietTurn ==
    ASSUME AccessInv, NEW r \in Reqs, NEW q \in Request \cup {Idle}, Turn(r, q),
           req[r].at \notin Holding, q.at \notin Holding, Named(q),
           UNCHANGED <<gen, gens, mu, settled, maker>>, started' \in 0 .. MaxReqs,
           users' \subseteq Users, role' \in [Ids -> [Users -> Roles]], keys' \subseteq Key,
           feed' \subseteq Row,
           granted' \subseteq Lives \X Users, seen' \subseteq Lives \X Users,
           wrote' \subseteq Stored, turnedAway' \subseteq Lives \X Users
    PROVE  AccessInv'
<1>1. req' \in Slots /\ req'[r] = q /\ \A s \in Reqs \ {r} : req'[s] = req[s]
  BY TurnOK DEF AccessInv, TypeInv
<1>. QED BY <1>1, Quiet

-----------------------------------------------------------------------------
(* The steps outside a creation *)

LEMMA Typed ==
    ASSUME AccessInv
    PROVE  /\ req \in Slots /\ mu \in Reqs \cup {Free} /\ started \in 0 .. MaxReqs
           /\ users \subseteq Users /\ role \in [Ids -> [Users -> Roles]] /\ keys \subseteq Key
           /\ feed \subseteq Row
           /\ granted \subseteq Lives \X Users /\ seen \subseteq Lives \X Users
           /\ wrote \subseteq Stored /\ turnedAway \subseteq Lives \X Users
BY DEF AccessInv, TypeInv

LEMMA LifeTyped ==
    ASSUME AccessInv, NEW i \in Ids
    PROVE  gen[DirOf[i]] \in Lives /\ Life(i) \in Lives /\ DirOf[i] \in Dirs
<1>1. DirOf[i] \in Dirs
  BY DEF Dirs
<1>2. 0 \in Lives
  BY AccessBoundsAssumption DEF Lives
<1>. QED BY <1>1, <1>2 DEF AccessInv, TypeInv, Life

LEMMA RoleTyped ==
    ASSUME AccessInv, NEW i \in Ids, NEW u \in Users, NEW what \in Roles
    PROVE  /\ AddMember(i, u, what) \in [Ids -> [Users -> Roles]]
           /\ [role EXCEPT ![i][u] = what] \in [Ids -> [Users -> Roles]]
BY DEF AccessInv, TypeInv, AddMember

\* The same request further on.
Onward(p, q) == /\ q.user = p.user /\ q.op = p.op /\ q.id = p.id /\ q.known = p.known
                /\ q.todo = p.todo /\ q.saw = p.saw

\* What a request that is not over gives and how it goes on.
LEMMA GotoTurn ==
    ASSUME AccessInv, NEW r \in Reqs, req[r].at # "idle", NEW at \in Steps, Goto(r, at)
    PROVE  \E q \in Request : Turn(r, q) /\ q.at = at /\ Onward(req[r], q)
<1> DEFINE n == [req[r] EXCEPT !.at = at]
<1>1. req[r] \in Request
  BY Busy, Typed
<1>2. n \in Request /\ n.at = at /\ Onward(req[r], n)
  BY <1>1, RequestAt DEF Onward
<1>3. Turn(r, n)
  BY Typed DEF Goto, Turn, Slots
<1>. HIDE DEF n
<1>. QED BY <1>2, <1>3

\* The same for one that goes on with the life there is.
LEMMA SeeingTurn ==
    ASSUME AccessInv, NEW r \in Reqs, req[r].at # "idle", NEW at \in Steps, GotoSeeing(r, at)
    PROVE  \E q \in Request : /\ Turn(r, q) /\ q.at = at /\ q.user = req[r].user /\ q.op = req[r].op
                              /\ q.id = req[r].id /\ q.saw = gen[DirOf[req[r].id]] /\ q.saw \in Lives
<1> DEFINE g == gen[DirOf[req[r].id]]
           n == Seeing(req[r], at, g)
<1>1. req[r] \in Request
  BY Busy, Typed
<1>2. g \in Lives /\ g \in Nat
  BY <1>1, RequestFields, LifeTyped DEF Lives
<1>3. Turn(r, n)
  BY Typed DEF GotoSeeing, Turn, Slots, Seeing
<1>. HIDE DEF g
<1>4. n \in Request /\ n.at = at /\ n.user = req[r].user /\ n.op = req[r].op /\ n.id = req[r].id /\ n.saw = g
  BY <1>1, <1>2, RequestSeeing
<1>. HIDE DEF n
<1>. QED BY <1>2, <1>3, <1>4 DEF g

LEMMA AnswerTurn ==
    ASSUME NEW r \in Reqs, Answer(r)
    PROVE  \E q \in Request \cup {Idle} : Turn(r, q) /\ q.at = "idle"
<1>1. Turn(r, Idle) /\ Idle.at = "idle"
  BY IdleFacts DEF Answer, Turn
<1>. QED BY <1>1

\* A step that only moves its request.
LEMMA Moves ==
    ASSUME AccessInv, NEW r \in Reqs, req[r].at \notin Holding, req[r].at # "idle", NEW at \in Steps \ Holding,
           Answer(r) \/ Goto(r, at) \/ GotoSeeing(r, at), at \notin {"enter", "recheck"},
           at \in {"write", "record"} => GotoSeeing(r, at) \/ Answer(r) \/ req[r].saw \in Lives,
           at \in {"decide", "upsert", "adopt", "claim"} => req[r].user \in Users,
           UNCHANGED <<gen, gens, mu, settled, maker, started>>,
           users' \subseteq Users, role' \in [Ids -> [Users -> Roles]], keys' \subseteq Key,
           feed' \subseteq Row,
           granted' \subseteq Lives \X Users, seen' \subseteq Lives \X Users,
           wrote' \subseteq Stored, turnedAway' \subseteq Lives \X Users
    PROVE  AccessInv'
<1>1. PICK q \in Request \cup {Idle} : Turn(r, q) /\ q.at \notin Holding /\ Named(q)
  BY GotoTurn, SeeingTurn, AnswerTurn DEF Holding, Named, Onward
<1>2. started' \in 0 .. MaxReqs
  BY Typed
<1>. QED BY <1>1, <1>2, QuietTurn

LEMMA ArrivesOK ==
    ASSUME AccessInv, NEW r \in Reqs, Arrives(r)
    PROVE  AccessInv'
<1>1. PICK t \in Traffic, i \in Ids : Admitted(r, t[2], t[1]) /\
        \E k \in IF t[2] \in {"join", "revoke"} THEN keys ELSE {NoKey(i)}, v \in IF t[2] = "remove" THEN Users ELSE {NoOne} :
           Turn(r, [at |-> "enter", op |-> t[2], user |-> t[1], id |-> i, key |-> k,
                    whom |-> v, known |-> {}, saw |-> 0, todo |-> {}])
  BY DEF Arrives, Turn
<1>2. t[1] \in Callers /\ t[2] \in Ops /\ (t[2] = "signin" => t[1] \in Users)
  BY <1>1, TrafficAssumption DEF Callers, Ops, Admitted
<1>3. NoKey(i) \in Key /\ NoOne \in Users
  <2>1. 0 \in Lives
    BY AccessBoundsAssumption DEF Lives
  <2>. QED BY <2>1, UsersAssumption DEF NoKey, Key, NoOne
<1>4. PICK k \in Key, v \in Users :
        Turn(r, [at |-> "enter", op |-> t[2], user |-> t[1], id |-> i, key |-> k,
                 whom |-> v, known |-> {}, saw |-> 0, todo |-> {}])
  BY <1>1, <1>3, Typed
<1> DEFINE q == [at |-> "enter", op |-> t[2], user |-> t[1], id |-> i, key |-> k,
                 whom |-> v, known |-> {}, saw |-> 0, todo |-> {}]
<1>5. q \in Request /\ q.at = "enter" /\ Named(q)
  BY <1>2 DEF Request, Named
<1>6. started' \in 0 .. MaxReqs /\ UNCHANGED <<gen, gens, tables, mu, past>> /\ req[r] = Idle
  BY AccessBoundsAssumption, Typed DEF Arrives
<1>. HIDE DEF q
<1>7. req[r].at \notin Holding /\ q.at \notin Holding
  BY <1>5, <1>6, IdleFacts DEF Holding
<1>. QED BY <1>4, <1>5, <1>6, <1>7, QuietTurn, Typed DEF tables, past, q

LEMMA Outside ==
    /\ {"enter", "list", "lock", "decide", "write", "record", "look", "recheck", "upsert", "adopt", "claim"}
         = Steps \ Holding
    /\ "idle" \notin Holding /\ "idle" \notin Steps
BY DEF Steps, Holding

LEMMA EnterOK ==
    ASSUME AccessInv, NEW r \in Reqs, Enter(r)
    PROVE  AccessInv'
<1>1. req[r].at = "enter" /\ UNCHANGED <<gen, gens, users, role, keys, feed, mu, started, past>>
  BY DEF Enter, tables
<1>2. \/ GotoSeeing(r, "write") \/ Answer(r)
      \/ \E at \in {"decide", "list"} : Goto(r, at) /\ (at = "decide" => ~IsLegacy(r))
  BY DEF Enter, LetIn
<1>3. ~IsLegacy(r) => req[r].user \in Users
  BY <1>1, Busy, RequestFields, Typed DEF IsLegacy, Callers
<1>. QED BY <1>1, <1>2, <1>3, Outside, Moves, Typed DEF past

LEMMA ListOK ==
    ASSUME AccessInv, NEW r \in Reqs, List(r)
    PROVE  AccessInv'
<1> DEFINE q == [req[r] EXCEPT !.at = "lock", !.known = KnownRepoIDs]
<1>1. req[r] \in Request /\ req[r].at = "list"
  BY Busy, Typed DEF List
<1>2. KnownRepoIDs \in SUBSET Ids
  BY Typed DEF KnownRepoIDs, Row
<1>3. q \in Request /\ q.at = "lock"
  BY <1>1, <1>2, RequestKnowing
<1>4. Turn(r, q)
  BY Typed DEF List, Turn, Slots
<1>. HIDE DEF q
<1>5. Named(q) /\ q.at \notin Holding /\ req[r].at \notin Holding
  BY <1>1, <1>3 DEF Named, Holding
<1>. QED BY <1>3, <1>4, <1>5, QuietTurn, Typed DEF List, tables, past

LEMMA DecideOK ==
    ASSUME AccessInv, NEW r \in Reqs, Decide(r)
    PROVE  AccessInv'
<1>1. req[r].at = "decide" /\ UNCHANGED <<gen, gens, users, role, keys, feed, mu, started, settled, maker, granted, seen, wrote>>
  BY DEF Decide, tables
<1>2. Answer(r) \/ GotoSeeing(r, "write")
  BY DEF Decide, LetIn
<1>3. turnedAway' \subseteq Lives \X Users
  <2>1. CASE UNCHANGED turnedAway
    BY <2>1, Typed
  <2>2. CASE ~UNCHANGED turnedAway
    <3>1. req[r].op # "push" \/ ~IsMember(req[r].id, req[r].user)
      BY <2>2 DEF Decide
    <3>2. turnedAway' = turnedAway \cup {<<gen[DirOf[req[r].id]], req[r].user>>}
      BY <2>2 DEF Decide
    <3>3. req[r].user \in Users /\ req[r].id \in Ids
      BY <1>1, Busy, Typed, RequestFields DEF AccessInv, Named
    <3>4. gen[DirOf[req[r].id]] \in Lives
      BY <3>3, LifeTyped
    <3>. QED BY <3>2, <3>3, <3>4, Typed
  <2>. QED BY <2>1, <2>2
<1>. QED BY <1>1, <1>2, <1>3, Outside, Moves, Typed

\* What a request at a step of its own has.
LEMMA Given ==
    ASSUME AccessInv, NEW r \in Reqs, req[r].at # "idle"
    PROVE  /\ req[r] \in Request /\ req[r].id \in Ids /\ req[r].user \in Callers /\ req[r].key \in Key
           /\ req[r].whom \in Users /\ req[r].known \in SUBSET Ids /\ req[r].saw \in Nat
           /\ req[r].todo \in SUBSET Ids
           /\ gen[DirOf[req[r].id]] \in Lives /\ Life(req[r].id) \in Lives
           /\ ~IsLegacy(r) => req[r].user \in Users
           /\ req[r].at \in {"owner", "decide", "upsert", "adopt", "claim"} => req[r].user \in Users
           /\ req[r].at = "enter" /\ req[r].op = "signin" => req[r].user \in Users
           /\ req[r].at \in {"recheck", "write", "record"} => req[r].saw \in Lives
<1>1. req[r] \in Request
  BY Busy, Typed
<1>2. req[r].id \in Ids
  BY <1>1, RequestFields
<1>. QED BY <1>1, <1>2, RequestFields, LifeTyped DEF AccessInv, Named, IsLegacy, Callers

LEMMA WriteOK ==
    ASSUME AccessInv, NEW r \in Reqs, Write(r)
    PROVE  AccessInv'
<1>1. /\ req[r].at = "write"
      /\ UNCHANGED <<gen, gens, users, role, keys, feed, mu, started, settled, maker, granted, seen, turnedAway>>
  BY DEF Write, tables
<1>2. Answer(r) \/ GotoSeeing(r, "record")
  BY DEF Write
<1>3. wrote' \subseteq Stored
  <2>1. ~IsLegacy(r) => [decided |-> req[r].saw, life |-> gen[DirOf[req[r].id]], user |-> req[r].user] \in Stored
    BY <1>1, Given DEF Stored
  <2>. QED BY <2>1, Typed DEF Write
<1>. QED BY <1>1, <1>2, <1>3, Outside, Moves, Typed

LEMMA RecordOK ==
    ASSUME AccessInv, NEW r \in Reqs, Record(r)
    PROVE  AccessInv'
<1>1. req[r].at = "record" /\ UNCHANGED <<gen, gens, users, role, keys, mu, started, past>> /\ Answer(r)
  BY DEF Record
<1>2. feed' \subseteq Row
  <2>1. CASE IsLegacy(r)
    BY <2>1, Typed DEF Record
  <2>2. CASE ~IsLegacy(r)
    <3>1. [id |-> req[r].id, user |-> req[r].user, gen |-> req[r].saw, at |-> gen[DirOf[req[r].id]]] \in Row
      BY <1>1, <2>2, Given DEF Row
    <3>. QED BY <2>2, <3>1, Typed DEF Record
  <2>. QED BY <2>1, <2>2
<1>. QED BY <1>1, <1>2, Outside, Moves, Typed DEF past

LEMMA CheckOK ==
    ASSUME AccessInv, NEW r \in Reqs, Check(r)
    PROVE  AccessInv'
BY Outside, Moves, Typed DEF Check, past, tables

LEMMA LookOK ==
    ASSUME AccessInv, NEW r \in Reqs, Look(r)
    PROVE  AccessInv'
<1>1. /\ req[r].at = "look"
      /\ UNCHANGED <<gen, gens, users, role, keys, feed, mu, started, settled, maker, granted, wrote, turnedAway>>
  BY DEF Look, tables
<1>2. CASE req[r].op = "members"
  <2>1. seen' \subseteq Lives \X Users
    BY <1>1, <1>2, Given, Typed DEF Look
  <2>. QED BY <1>1, <1>2, <2>1, Outside, Moves, Typed DEF Look
<1>3. CASE req[r].op # "members"
  <2> DEFINE q == Seeing(req[r], "recheck", Life(req[r].id))
  <2>1. Life(req[r].id) \in Lives /\ Life(req[r].id) \in Nat /\ req[r] \in Request /\ "recheck" \in Steps
    BY <1>1, Given, Outside DEF Lives
  <2>2. q \in Request /\ q.at = "recheck" /\ q.saw = Life(req[r].id)
    BY <2>1, RequestSeeing
  <2>3. Turn(r, q) /\ UNCHANGED seen
    BY <1>3, Typed DEF Look, Turn, Slots, Seeing
  <2>. HIDE DEF q
  <2>4. Named(q) /\ q.at \notin Holding /\ req[r].at \notin Holding
    BY <1>1, <2>1, <2>2 DEF Named, Holding
  <2>. QED BY <1>1, <2>2, <2>3, <2>4, QuietTurn, Typed
<1>. QED BY <1>2, <1>3

LEMMA RecheckOK ==
    ASSUME AccessInv, NEW r \in Reqs, Recheck(r)
    PROVE  AccessInv'
<1>1. /\ req[r].at = "recheck"
      /\ UNCHANGED <<gen, gens, users, role, keys, feed, mu, started, settled, maker, granted, wrote, turnedAway>>
  BY DEF Recheck, tables
<1>2. Answer(r) \/ Goto(r, "record")
  BY DEF Recheck
<1>3. seen' \subseteq Lives \X Users /\ req[r].saw \in Lives
  BY <1>1, Given, Typed DEF Recheck
<1>. QED BY <1>1, <1>2, <1>3, Outside, Moves, Typed

LEMMA MintOK ==
    ASSUME AccessInv, NEW r \in Reqs, Mint(r)
    PROVE  AccessInv'
<1>1. req[r].at = "enter" /\ UNCHANGED <<gen, gens, users, role, feed, mu, started, past>> /\ Answer(r)
  BY DEF Mint, Guarded
<1>2. keys' \subseteq Key
  <2>1. [id |-> req[r].id, gen |-> gen[DirOf[req[r].id]], live |-> TRUE] \in Key
    BY <1>1, Given DEF Key
  <2>. QED BY <2>1, Typed DEF Mint
<1>. QED BY <1>1, <1>2, Outside, Moves, Typed DEF past

LEMMA ListKeysOK ==
    ASSUME AccessInv, NEW r \in Reqs, ListKeys(r)
    PROVE  AccessInv'
<1>1. /\ req[r].at = "enter" /\ Answer(r)
      /\ UNCHANGED <<gen, gens, users, role, keys, feed, mu, started, settled, maker, granted, wrote, turnedAway>>
  BY DEF ListKeys, Guarded, tables
<1>2. seen' \subseteq Lives \X Users
  BY <1>1, Given, Typed DEF ListKeys
<1>. QED BY <1>1, <1>2, Outside, Moves, Typed

LEMMA RevokeOK ==
    ASSUME AccessInv, NEW r \in Reqs, Revoke(r)
    PROVE  AccessInv'
<1>1. req[r].at = "enter" /\ UNCHANGED <<gen, gens, users, role, feed, mu, started, past>> /\ Answer(r)
  BY DEF Revoke, Guarded
<1>2. keys' \subseteq Key
  BY Typed DEF Revoke
<1>. QED BY <1>1, <1>2, Outside, Moves, Typed DEF past

LEMMA JoinOK ==
    ASSUME AccessInv, NEW r \in Reqs, Join(r)
    PROVE  AccessInv'
<1>1. /\ req[r].at = "enter" /\ Answer(r)
      /\ UNCHANGED <<gen, gens, users, keys, feed, mu, started, settled, maker, seen, wrote, turnedAway>>
  BY DEF Join, Guarded
<1>2. req[r].key.id \in Ids /\ req[r].key.gen \in Lives /\ "member" \in Roles
  BY <1>1, Given DEF Key, Roles
<1>3. role' \in [Ids -> [Users -> Roles]]
  <2>1. CASE IsLegacy(r)
    BY <2>1, Typed DEF Join
  <2>2. CASE ~IsLegacy(r)
    <3>1. req[r].user \in Users
      BY <1>1, <2>2, Given
    <3>2. AddMember(req[r].key.id, req[r].user, "member") \in [Ids -> [Users -> Roles]]
      BY <1>2, <3>1, RoleTyped
    <3>. QED BY <3>2, Typed DEF Join, JoinRole
  <2>. QED BY <2>1, <2>2
<1>4. granted' \subseteq Lives \X Users
  BY <1>1, <1>2, Given, Typed DEF Join
<1>. QED BY <1>1, <1>3, <1>4, Outside, Moves, Typed

LEMMA RemoveOK ==
    ASSUME AccessInv, NEW r \in Reqs, Remove(r)
    PROVE  AccessInv'
<1>1. req[r].at = "enter" /\ Answer(r) /\ UNCHANGED <<gen, gens, users, keys, feed, mu, started, past>>
  BY DEF Remove, Guarded
<1>2. role' \in [Ids -> [Users -> Roles]]
  <2>1. req[r].id \in Ids /\ req[r].whom \in Users /\ "none" \in Roles
    BY <1>1, Given DEF Roles
  <2>. QED BY <2>1, RoleTyped, Typed DEF Remove
<1>. QED BY <1>1, <1>2, Outside, Moves, Typed DEF past

LEMMA CountOK ==
    ASSUME AccessInv, NEW r \in Reqs, Count(r)
    PROVE  AccessInv'
<1> DEFINE q == Seeing(req[r], "upsert", Cardinality(users))
<1>1. req[r].at = "enter" /\ req[r] \in Request /\ req[r].user \in Users /\ "upsert" \in Steps
  BY Given, Outside DEF Count
<1>2. Cardinality(users) \in Nat
  <2>1. IsFiniteSet(users)
    BY UsersAssumption, Typed, FS_Subset
  <2>. QED BY <2>1, FS_CardinalityType
<1>3. q \in Request /\ q.at = "upsert" /\ q.user = req[r].user
  BY <1>1, <1>2, RequestSeeing
<1>4. Turn(r, q) /\ UNCHANGED <<gen, gens, users, role, keys, feed, mu, started, past>>
  BY Typed DEF Count, Turn, Slots, tables, Seeing
<1>. HIDE DEF q
<1>5. Named(q) /\ q.at \notin Holding /\ req[r].at \notin Holding
  BY <1>1, <1>3, Given DEF Named, Holding
<1>. QED BY <1>3, <1>4, <1>5, QuietTurn, Typed DEF past

LEMMA UpsertOK ==
    ASSUME AccessInv, NEW r \in Reqs, Upsert(r)
    PROVE  AccessInv'
<1> DEFINE q == [req[r] EXCEPT !.at = "adopt", !.todo = {i \in Canonical : Exists(i)}]
<1>1. /\ req[r].at = "upsert" /\ req[r] \in Request /\ req[r].user \in Users
      /\ UNCHANGED <<gen, gens, role, keys, feed, mu, started, past>>
  BY Given DEF Upsert
<1>2. users' \subseteq Users
  BY <1>1, Typed DEF Upsert
<1>3. q \in Request /\ q.at = "adopt" /\ q.user = req[r].user
  <2>1. {i \in Canonical : Exists(i)} \in SUBSET Ids
    BY DEF Canonical
  <2>. QED BY <1>1, <2>1, RequestTodo
<1>4. Turn(r, q) \/ Answer(r)
  BY Typed DEF Upsert, Turn, Slots
<1>. HIDE DEF q
<1>5. Named(q) /\ q.at \notin Holding /\ req[r].at \notin Holding
  BY <1>1, <1>3, Given DEF Named, Holding
<1>6. CASE Turn(r, q)
  BY <1>1, <1>2, <1>3, <1>5, <1>6, QuietTurn, Typed DEF past
<1>7. CASE Answer(r)
  BY <1>1, <1>2, <1>7, Outside, Moves, Typed DEF past
<1>. QED BY <1>4, <1>6, <1>7

LEMMA AdoptOK ==
    ASSUME AccessInv, NEW r \in Reqs, Adopt(r)
    PROVE  AccessInv'
<1>1. /\ req[r].at = "adopt" /\ req[r] \in Request /\ req[r].user \in Users /\ req[r].todo \in SUBSET Ids
      /\ UNCHANGED <<gen, gens, users, role, keys, feed, mu, started, past>>
  BY Given DEF Adopt, tables
<1>2. CASE Answer(r)
  BY <1>1, <1>2, Outside, Moves, Typed DEF past
<1>3. ASSUME NEW i \in req[r].todo,
             req' = IF ~RepoHasOwner(i)
                    THEN [req EXCEPT ![r].at = "claim", ![r].id = i, ![r].todo = @ \ {i}]
                    ELSE [req EXCEPT ![r].todo = @ \ {i}]
      PROVE  AccessInv'
  <2> DEFINE todo == req[r].todo \ {i}
             q == IF ~RepoHasOwner(i) THEN Claiming(req[r], i, todo)
                  ELSE [req[r] EXCEPT !.todo = todo]
  <2>1. todo \in SUBSET Ids /\ i \in Ids
    BY <1>1
  <2>2. Turn(r, q)
    BY <1>3, Typed DEF Turn, Slots, Claiming
  <2>. HIDE DEF todo
  <2>3. q \in Request /\ q.at \in {"claim", "adopt"} /\ q.user = req[r].user
    <3>1. [req[r] EXCEPT !.todo = todo] \in Request /\ [req[r] EXCEPT !.todo = todo].at = "adopt"
          /\ [req[r] EXCEPT !.todo = todo].user = req[r].user
      BY <1>1, <2>1, RequestTodo
    <3>2. LET n == Claiming(req[r], i, todo)
          IN  n \in Request /\ n.at = "claim" /\ n.user = req[r].user
      BY <1>1, <2>1, RequestClaiming
    <3>. QED BY <3>1, <3>2
  <2>. HIDE DEF q
  <2>4. Named(q) /\ q.at \notin Holding /\ req[r].at \notin Holding
    BY <1>1, <2>3 DEF Named, Holding
  <2>. QED BY <1>1, <2>2, <2>3, <2>4, QuietTurn, Typed DEF past
<1>. QED BY <1>2, <1>3 DEF Adopt

LEMMA ClaimOK ==
    ASSUME AccessInv, NEW r \in Reqs, Claim(r)
    PROVE  AccessInv'
<1>1. /\ req[r].at = "claim" /\ Goto(r, "adopt") /\ req[r].id \in Ids /\ req[r].user \in Users
      /\ gen[DirOf[req[r].id]] \in Lives
      /\ UNCHANGED <<gen, gens, users, keys, feed, mu, started, settled, maker, seen, wrote, turnedAway>>
  BY Given DEF Claim
<1>2. role' \in [Ids -> [Users -> Roles]]
  BY <1>1, RoleTyped DEF Claim, Roles
<1>3. granted' \subseteq Lives \X Users
  BY <1>1, Typed DEF Claim
<1>. QED BY <1>1, <1>2, <1>3, Outside, Moves, Typed

-----------------------------------------------------------------------------
(* The creation, the deletion and the start *)

LEMMA InitOK == AccessInit => AccessInv
<1> SUFFICES ASSUME AccessInit PROVE AccessInv
  OBVIOUS
<1>1. PICK old \in OldRows :
        /\ gen = [x \in Dirs |-> IF x = DirOf[old.id] THEN old.gen ELSE 0]
        /\ gens = old.gen /\ users = old.users /\ role = old.role /\ keys = old.keys /\ feed = {}
        /\ mu = Free /\ req = [r \in Reqs |-> Idle] /\ started = 0
        /\ settled = IF old.gen = 0 THEN {} ELSE {old.gen}
        /\ maker = [g \in 1 .. MaxGen |-> old.maker]
        /\ granted \subseteq {old.gen} \X Users
        /\ seen = {} /\ wrote = {} /\ turnedAway = {}
  BY DEF AccessInit
<1>2. /\ old.gen \in Lives /\ old.users \subseteq Users /\ old.role \in [Ids -> [Users -> Roles]]
      /\ old.keys \subseteq Key /\ old.maker \in [user : Callers, id : Ids]
  BY OldRowsAssumption
<1>3. 0 \in Lives /\ 0 \in 0 .. MaxReqs /\ Lives \subseteq Nat
  BY AccessBoundsAssumption DEF Lives
<1>4. gen \in [Dirs -> Lives] /\ maker \in [1 .. MaxGen -> [user : Callers, id : Ids]]
  BY <1>1, <1>2, <1>3
<1>5. req \in Slots /\ mu \in Reqs \cup {Free} /\ settled \subseteq Lives
  BY <1>1, <1>2 DEF Slots
<1>6. TypeInv
  BY <1>1, <1>2, <1>3, <1>4, <1>5 DEF TypeInv
<1>7. \A r \in Reqs : req[r].at = "idle"
  BY <1>1, IdleFacts
<1>8. MutexOK /\ InMaking /\ \A r \in Reqs : Named(req[r])
  BY <1>1, <1>7, ReqsAssumption DEF MutexOK, InMaking, Named, Holding
<1>9. LivesOK
  <2>1. old.gen \in Nat
    BY <1>2, <1>3
  <2>2. settled \subseteq 0 .. gens
    BY <1>1, <2>1
  <2>3. \A d \in Dirs : gen[d] <= gens
    BY <1>1, <2>1
  <2>. QED BY <2>2, <2>3 DEF LivesOK
<1>. QED BY <1>6, <1>8, <1>9 DEF AccessInv

\* A step of the creation: nobody else holds the mutex before or after it.
LEMMA MakingTurn ==
    ASSUME AccessInv, NEW r \in Reqs, NEW q \in Request \cup {Idle}, Turn(r, q), Named(q),
           mu \in {Free, r}, mu' = IF q.at \in Holding THEN r ELSE Free,
           gen' \in [Dirs -> Lives], gens' \in Lives, LivesOK', settled' \subseteq Lives,
           maker' \in [1 .. MaxGen -> [user : Callers, id : Ids]],
           q.at \in Holding => Life(q.id)' = 0,
           UNCHANGED <<started, users, seen, wrote, turnedAway>>,
           role' \in [Ids -> [Users -> Roles]], keys' \subseteq Key,
           feed' \subseteq Row, granted' \subseteq Lives \X Users
    PROVE  AccessInv'
<1>1. req' \in Slots /\ req'[r] = q /\ \A s \in Reqs \ {r} : req'[s] = req[s]
  BY TurnOK, Typed
<1>2. TypeInv'
  <2>1. mu' \in Reqs \cup {Free}
    OBVIOUS
  <2>. QED BY <1>1, <2>1 DEF AccessInv, TypeInv
<1>3. \A s \in Reqs \ {r} : req'[s].at \notin Holding /\ mu' # s
  BY <1>1, ReqsAssumption DEF AccessInv, MutexOK
<1>4. MutexOK'
  BY <1>1, <1>3, ReqsAssumption DEF MutexOK
<1>5. InMaking'
  <2> SUFFICES ASSUME NEW s \in Reqs, req'[s].at \in Holding
               PROVE  Life(req[s].id)' = 0
    BY DEF InMaking
  <2>1. s = r /\ req'[s] = q
    BY <1>1, <1>3
  <2>. QED BY <2>1 DEF Life
<1>6. \A s \in Reqs : Named(req'[s])
  BY <1>1 DEF AccessInv
<1>. QED BY <1>2, <1>4, <1>5, <1>6 DEF AccessInv

\* What a step of the creation leaves alone.
LEMMA MoreTyped ==
    ASSUME AccessInv
    PROVE  /\ gen \in [Dirs -> Lives] /\ gens \in Lives /\ settled \subseteq Lives
           /\ maker \in [1 .. MaxGen -> [user : Callers, id : Ids]] /\ LivesOK
           /\ Lives \subseteq Nat
BY DEF AccessInv, TypeInv, Lives

LEMMA LockOK ==
    ASSUME AccessInv, NEW r \in Reqs, Lock(r)
    PROVE  AccessInv'
<1> DEFINE d == DirOf[req[r].id]
<1>1. /\ req[r].at = "lock" /\ mu = Free /\ d \in Dirs
      /\ UNCHANGED <<users, role, keys, feed, started, settled, granted, seen, wrote, turnedAway>>
  BY Given DEF Lock, MayCreate, tables, Dirs
<1>2. CASE (Answer(r) \/ GotoSeeing(r, "write") \/ (Goto(r, "decide") /\ ~IsLegacy(r)))
           /\ mu' = Free /\ UNCHANGED <<gen, gens, maker>>
  <2>1. ~IsLegacy(r) => req[r].user \in Users
    BY <1>1, Given
  <2>. QED BY <1>1, <1>2, <2>1, Outside, Moves, Typed
<1>3. CASE /\ ~Exists(req[r].id) /\ gens < MaxGen /\ gens' = gens + 1 /\ gen' = [gen EXCEPT ![d] = gens + 1]
           /\ maker' = [maker EXCEPT ![gens + 1] = [user |-> req[r].user, id |-> req[r].id]]
           /\ mu' = r /\ Goto(r, "purge")
  <2>1. PICK q \in Request : Turn(r, q) /\ q.at = "purge" /\ q.id = req[r].id
    BY <1>1, <1>3, GotoTurn DEF Steps, Onward
  <2>3. gens' \in Lives /\ gens' \in Nat /\ gens + 1 \in 1 .. MaxGen
    BY <1>3, MoreTyped, AccessBoundsAssumption DEF Lives
  <2>4. gen' \in [Dirs -> Lives] /\ maker' \in [1 .. MaxGen -> [user : Callers, id : Ids]]
    <3>1. [user |-> req[r].user, id |-> req[r].id] \in [user : Callers, id : Ids]
      BY <1>1, Given
    <3>. QED BY <1>3, <2>3, <3>1, MoreTyped
  <2>5. gen'[d] = gens + 1 /\ \A x \in Dirs \ {d} : gen'[x] = gen[x]
    BY <1>1, <1>3, MoreTyped
  <2>6. LivesOK'
    <3>1. \A x \in Dirs : gen'[x] <= gens'
      <4> TAKE x \in Dirs
      <4>1. gen[x] <= gens /\ gen[x] \in Nat /\ gens \in Nat
        BY MoreTyped DEF LivesOK
      <4>. QED BY <1>3, <2>5, <4>1
    <3>2. settled' \subseteq 0 .. gens'
      BY <1>1, <1>3, MoreTyped DEF LivesOK
    <3>. QED BY <3>1, <3>2 DEF LivesOK
  <2>7. gens + 1 \notin settled
    BY MoreTyped DEF LivesOK
  <2>8. Life(q.id)' = 0
    BY <1>1, <2>1, <2>5, <2>7 DEF Life
  <2>9. Named(q) /\ q.at \in Holding /\ settled' \subseteq Lives
    BY <1>1, <2>1, MoreTyped DEF Named, Holding
  <2>. QED BY <1>1, <1>3, <2>1, <2>3, <2>4, <2>6, <2>8, <2>9, MakingTurn, Typed
<1>. QED BY <1>1, <1>2, <1>3 DEF Lock, LetIn, UnlockExisting

LEMMA HolderAlone ==
    ASSUME AccessInv, NEW r \in Reqs, req[r].at \in Holding
    PROVE  mu = r /\ req[r].at # "idle" /\ Life(req[r].id) = 0
BY Outside DEF AccessInv, MutexOK, InMaking

LEMMA PurgeOK ==
    ASSUME AccessInv, NEW r \in Reqs, Purge(r)
    PROVE  AccessInv'
<1> DEFINE ids == PurgedIds(r)
<1>1. /\ req[r].at = "purge" /\ mu = r /\ Life(req[r].id) = 0 /\ req[r] \in Request
      /\ gen[DirOf[req[r].id]] \in Lives /\ DirOf[req[r].id] \in Dirs /\ (~IsLegacy(r) => req[r].user \in Users)
      /\ UNCHANGED <<gen, gens, users, started, maker, granted, seen, wrote, turnedAway>>
  BY HolderAlone, Given, LifeTyped DEF Purge, Holding
<1>2. role' \in [Ids -> [Users -> Roles]] /\ keys' \subseteq Key
      /\ feed' \subseteq Row
  <2>1. CASE UNCHANGED <<role, keys, feed>>
    BY <2>1, Typed
  <2>2. CASE PurgeRepo(ids)
    <3>. HIDE DEF ids
    <3>1. role' = [i \in Ids |-> IF i \in ids THEN [u \in Users |-> "none"] ELSE role[i]]
          /\ keys' \subseteq keys /\ feed' \subseteq feed
      BY <2>2 DEF PurgeRepo
    <3>2. [u \in Users |-> "none"] \in [Users -> Roles] /\ role \in [Ids -> [Users -> Roles]]
      BY Typed DEF Roles
    <3>. QED BY <3>1, <3>2, Typed
  <2>. QED BY <2>1, <2>2 DEF Purge
<1>3. settled' \subseteq Lives /\ LivesOK'
  <2>1. settled' \subseteq settled \cup {gen[DirOf[req[r].id]]}
    BY DEF Purge
  <2>2. gen[DirOf[req[r].id]] \in 0 .. gens
    BY <1>1, MoreTyped DEF LivesOK
  <2>. QED BY <1>1, <2>1, <2>2, MoreTyped DEF LivesOK
<1>4. CASE mu' = Free /\ (Answer(r) \/ GotoSeeing(r, "write"))
  <2>1. PICK q \in Request \cup {Idle} : Turn(r, q) /\ q.at \notin Holding /\ Named(q)
    BY <1>1, <1>4, SeeingTurn, AnswerTurn, Outside DEF Holding, Named
  <2>. QED BY <1>1, <1>2, <1>3, <1>4, <2>1, MakingTurn, MoreTyped, Typed
<1>5. CASE ~IsLegacy(r) /\ Goto(r, "owner") /\ UNCHANGED <<mu, settled>>
  <2>1. PICK q \in Request : Turn(r, q) /\ q.at = "owner" /\ q.user = req[r].user /\ q.id = req[r].id
    BY <1>1, <1>5, GotoTurn DEF Steps, Onward
  <2>3. Named(q) /\ q.at \in Holding
    BY <1>1, <1>5, <2>1 DEF Named, Holding
  <2>4. Life(q.id)' = 0
    BY <1>1, <1>5, <2>1 DEF Life
  <2>. QED BY <1>1, <1>2, <1>3, <1>5, <2>1, <2>3, <2>4, MakingTurn, MoreTyped, Typed
<1>. QED BY <1>1, <1>4, <1>5 DEF Purge, LetIn

LEMMA OwnOK ==
    ASSUME AccessInv, NEW r \in Reqs, Own(r)
    PROVE  AccessInv'
<1>1. /\ req[r].at = "owner" /\ mu = r /\ mu' = Free /\ req[r].user \in Users /\ req[r].id \in Ids
      /\ gen[DirOf[req[r].id]] \in Lives /\ DirOf[req[r].id] \in Dirs
      /\ UNCHANGED <<gen, gens, users, keys, feed, started, maker, seen, wrote, turnedAway>>
  BY HolderAlone, Given, LifeTyped DEF Own, Holding
<1>2. role' \in [Ids -> [Users -> Roles]]
  BY <1>1, RoleTyped, Typed DEF Own, Roles
<1>3. granted' \subseteq Lives \X Users
  BY <1>1, Typed DEF Own
<1>4. settled' \subseteq Lives /\ LivesOK'
  <2>1. settled' \subseteq settled \cup {gen[DirOf[req[r].id]]}
    BY DEF Own
  <2>2. gen[DirOf[req[r].id]] \in 0 .. gens
    BY <1>1, MoreTyped DEF LivesOK
  <2>. QED BY <1>1, <2>1, <2>2, MoreTyped DEF LivesOK
<1>5. Answer(r) \/ GotoSeeing(r, "write")
  BY DEF Own, LetIn
<1>6. PICK q \in Request \cup {Idle} : Turn(r, q) /\ q.at \notin Holding /\ Named(q)
  BY <1>1, <1>5, SeeingTurn, AnswerTurn, Outside DEF Holding, Named
<1>. QED BY <1>1, <1>2, <1>3, <1>4, <1>6, MakingTurn, MoreTyped, Typed

LEMMA ExpireOK ==
    ASSUME AccessInv, Expire
    PROVE  AccessInv'
<1>1. UNCHANGED <<gen, gens, users, role, feed, mu, req, started, settled, maker, granted, seen, wrote, turnedAway>>
  BY DEF Expire, past
<1>2. keys' \subseteq Key
  <2>1. PICK k \in keys : keys' = (keys \ {k}) \cup {[k EXCEPT !.live = FALSE]}
    BY DEF Expire
  <2>2. k \in Key
    BY Typed
  <2>3. [k EXCEPT !.live = FALSE] \in Key
    BY <2>2 DEF Key
  <2>. QED BY <2>1, <2>3, Typed
<1>3. TypeInv'
  BY <1>1, <1>2 DEF AccessInv, TypeInv
<1>. QED BY <1>1, <1>3 DEF AccessInv, MutexOK, LivesOK, InMaking, Life

LEMMA WipeOK ==
    ASSUME AccessInv, Wipe
    PROVE  AccessInv'
<1>1. UNCHANGED <<gens, users, role, keys, feed, mu, req, started, settled, maker, granted, seen, wrote, turnedAway>>
  BY DEF Wipe, tables, past
<1>2. PICK d \in Dirs : gen' = [gen EXCEPT ![d] = 0]
  BY DEF Wipe
<1>3. 0 \in Lives /\ gens \in Nat
  BY MoreTyped, AccessBoundsAssumption DEF Lives
<1>4. gen' \in [Dirs -> Lives] /\ \A x \in Dirs : gen'[x] \in {gen[x], 0}
  BY <1>2, <1>3, MoreTyped
<1>5. TypeInv'
  BY <1>1, <1>4 DEF AccessInv, TypeInv
<1>6. LivesOK'
  <2>1. \A x \in Dirs : gen'[x] <= gens
    BY <1>3, <1>4, MoreTyped DEF LivesOK
  <2>. QED BY <1>1, <2>1 DEF AccessInv, LivesOK
<1>7. InMaking'
  <2> SUFFICES ASSUME NEW s \in Reqs, req[s].at \in Holding
               PROVE  Life(req[s].id)' = 0
    BY <1>1 DEF InMaking
  <2>1. DirOf[req[s].id] \in Dirs /\ Life(req[s].id) = 0
    BY HolderAlone, Given, LifeTyped
  <2>2. gen'[DirOf[req[s].id]] \in {gen[DirOf[req[s].id]], 0}
    BY <1>4, <2>1
  <2>. QED BY <1>1, <2>1, <2>2 DEF Life
<1>. QED BY <1>1, <1>5, <1>6, <1>7 DEF AccessInv, MutexOK

LEMMA NextOK ==
    ASSUME AccessInv, [AccessNext]_accessVars
    PROVE  AccessInv'
<1>1. CASE UNCHANGED accessVars
  BY <1>1 DEF accessVars, tables, past, AccessInv, TypeInv, MutexOK, LivesOK, InMaking, Life
<1>2. ASSUME NEW r \in Reqs, Step(r)
      PROVE  AccessInv'
  BY <1>2, EnterOK, ListOK, LockOK, PurgeOK, OwnOK, DecideOK, WriteOK, RecordOK, CheckOK, LookOK, RecheckOK,
     MintOK, ListKeysOK, RevokeOK, JoinOK, RemoveOK, CountOK, UpsertOK, AdoptOK, ClaimOK DEF Step
<1>. QED BY <1>1, <1>2, ArrivesOK, ExpireOK, WipeOK DEF AccessNext

(* Every state has the types of AccessTypeOK, and createRepoMu is held by  *)
(* exactly the request between its git init and its last row               *)
(* (createRepoAsOwner, createLocked).                                      *)
THEOREM AccessTypes == AccessSpec => []AccessTypeOK
<1>1. AccessInit => AccessInv
  BY InitOK
<1>2. AccessInv /\ [AccessNext]_accessVars => AccessInv'
  BY NextOK
<1>3. AccessInv => AccessTypeOK
  BY TypeFromInv
<1>. QED BY <1>1, <1>2, <1>3, PTL DEF AccessSpec

-----------------------------------------------------------------------------
(* Owners *)

OwnerStays(i) == Life(i) # 0 /\ Life(i)' = Life(i) /\ Owners(i) # {} => Owners(i)' # {}

LEMMA SameRowsStay ==
    ASSUME NEW i \in Ids, UNCHANGED role
    PROVE  OwnerStays(i)
BY DEF OwnerStays, Owners, IsOwner

\* A row that is added takes nobody's ownership.
LEMMA AddingKeeps ==
    ASSUME AccessInv, NEW i \in Ids, NEW j \in Ids, NEW u \in Users, NEW what \in Roles,
           role' = AddMember(j, u, what)
    PROVE  OwnerStays(i)
<1>1. role \in [Ids -> [Users -> Roles]]
  BY Typed
<1>2. ASSUME NEW v \in Users, role[i][v] = "owner"
      PROVE  role'[i][v] = "owner"
  <2>1. CASE IsMember(j, u)
    BY <1>2, <2>1 DEF AddMember
  <2>2. CASE ~IsMember(j, u)
    <3>1. role' = [role EXCEPT ![j][u] = what] /\ role[j][u] = "none"
      BY <2>2 DEF AddMember, IsMember
    <3>2. i # j \/ v # u
      BY <1>2, <3>1
    <3>. QED BY <1>1, <1>2, <3>1, <3>2
  <2>. QED BY <2>1, <2>2
<1>. QED BY <1>2 DEF OwnerStays, Owners, IsOwner

\* The last owner is not removed.
LEMMA RemovingKeeps ==
    ASSUME AccessInv, NEW i \in Ids, NEW j \in Ids, NEW u \in Users, Removable(j, u),
           role' = [role EXCEPT ![j][u] = "none"]
    PROVE  OwnerStays(i)
<1>1. role \in [Ids -> [Users -> Roles]]
  BY Typed
<1>2. \A v \in Users : i # j \/ v # u => role'[i][v] = role[i][v]
  BY <1>1
<1>3. CASE i # j \/ ~IsOwner(j, u)
  BY <1>2, <1>3 DEF OwnerStays, Owners, IsOwner
<1>4. CASE i = j /\ IsOwner(j, u)
  <2>1. Cardinality(Owners(i)) > 1
    BY <1>4 DEF Removable
  <2>2. Owners(i) \subseteq Users /\ IsFiniteSet({u}) /\ Cardinality({u}) = 1
    BY FS_Singleton DEF Owners
  <2>3. ~(Owners(i) \subseteq {u})
    <3>1. SUFFICES ASSUME Owners(i) \subseteq {u} PROVE FALSE
      OBVIOUS
    <3>2. Cardinality(Owners(i)) <= 1
      BY <2>2, <3>1, FS_Subset
    <3>3. Cardinality(Owners(i)) \in Nat
      BY <2>2, <3>1, FS_Subset, FS_CardinalityType
    <3>. QED BY <2>1, <3>2, <3>3
  <2>4. PICK v \in Owners(i) : v # u
    BY <2>3
  <2>5. v \in Users /\ role'[i][v] = "owner"
    BY <1>2, <2>4 DEF Owners, IsOwner
  <2>. QED BY <2>5 DEF OwnerStays, Owners, IsOwner
<1>. QED BY <1>3, <1>4

\* A purge meets no life whose creation has succeeded.
LEMMA PurgeKeeps ==
    ASSUME AccessInv, NEW i \in Ids, NEW r \in Reqs, Purge(r)
    PROVE  OwnerStays(i)
<1>1. req[r].id \in Ids /\ Life(req[r].id) = 0
  BY HolderAlone, Given DEF Purge, Holding
<1>2. \A j \in PurgedIds(r) : DirOf[j] = DirOf[req[r].id]
  BY <1>1, IdsAssumption DEF PurgedIds
<1>3. CASE i \in PurgedIds(r)
  BY <1>1, <1>2, <1>3 DEF OwnerStays, Life
<1>4. CASE i \notin PurgedIds(r)
  <2>1. role'[i] = role[i]
    BY <1>4 DEF Purge, PurgeRepo
  <2>. QED BY <2>1 DEF OwnerStays, Owners, IsOwner
<1>. QED BY <1>3, <1>4

LEMMA StepKeeps ==
    ASSUME AccessInv, NEW i \in Ids, NEW r \in Reqs, Step(r)
    PROVE  OwnerStays(i)
<1>1. CASE Purge(r)
  BY <1>1, PurgeKeeps
<1>2. CASE Own(r)
  <2>1. req[r].id \in Ids /\ req[r].user \in Users /\ "owner" \in Roles
    BY <1>2, Given DEF Own, Roles
  <2>. QED BY <1>2, <2>1, AddingKeeps, SameRowsStay DEF Own
<1>3. CASE Claim(r)
  <2>1. req[r].id \in Ids /\ req[r].user \in Users /\ "owner" \in Roles
    BY <1>3, Given DEF Claim, Roles
  <2>. QED BY <1>3, <2>1, AddingKeeps DEF Claim
<1>4. CASE Join(r)
  <2>1. req[r].key.id \in Ids /\ (~IsLegacy(r) => req[r].user \in Users) /\ "member" \in Roles
    BY <1>4, Given DEF Join, Guarded, Roles, Key
  <2>. QED BY <1>4, <2>1, AddingKeeps, SameRowsStay DEF Join, JoinRole
<1>5. CASE Remove(r)
  <2>1. req[r].id \in Ids /\ req[r].whom \in Users
    BY <1>5, Given DEF Remove, Guarded
  <2>. QED BY <1>5, <2>1, RemovingKeeps, SameRowsStay DEF Remove
<1>6. CASE Enter(r) \/ List(r) \/ Lock(r) \/ Decide(r) \/ Write(r) \/ Record(r) \/ Check(r) \/ Look(r)
           \/ Recheck(r) \/ Mint(r) \/ ListKeys(r) \/ Revoke(r) \/ Count(r) \/ Upsert(r) \/ Adopt(r)
  BY <1>6, SameRowsStay DEF Enter, List, Lock, Decide, Write, Record, Check, Look, Recheck, Mint, ListKeys,
     Revoke, Count, Upsert, Adopt, tables
<1>. QED BY <1>1, <1>2, <1>3, <1>4, <1>5, <1>6 DEF Step

(* An owned repository keeps an owner as long as its directory lives: the  *)
(* purge of a creation, a join, an adoption and RemoveMember never take    *)
(* the last one, whichever requests run beside it.                         *)
THEOREM OwnedStay == AccessSpec => OwnedStaysOwned
<1>1. AccessInit => AccessInv
  BY InitOK
<1>2. AccessInv /\ [AccessNext]_accessVars => AccessInv'
  BY NextOK
<1>3. AccessInv /\ [AccessNext]_accessVars
        => [\A i \in Ids : Life(i) # 0 /\ Life(i)' = Life(i) /\ Owners(i) # {} => Owners(i)' # {}]_accessVars
  <2> SUFFICES ASSUME AccessInv, AccessNext, NEW i \in Ids
               PROVE  OwnerStays(i)
    BY DEF OwnerStays
  <2>1. CASE Expire \/ Wipe \/ \E r \in Reqs : Arrives(r)
    BY <2>1, SameRowsStay DEF Expire, Wipe, Arrives, tables
  <2>. QED BY <2>1, StepKeeps DEF AccessNext
<1>. QED BY <1>1, <1>2, <1>3, PTL DEF AccessSpec, OwnedStaysOwned

-----------------------------------------------------------------------------
(* Creation.  What an orderly deployment keeps beside AccessInv. *)

\* Who is at which point with what.
Course(q) ==
    /\ q.at \in {"upsert", "adopt", "claim"} => q.op = "signin"
    /\ q.at # "idle" /\ q.op = "signin" => q.user # Legacy /\ q.at \in {"enter", "upsert", "adopt", "claim"}
    /\ q.at \in {"list", "lock", "purge", "owner"} /\ q.user # Legacy => q.id \in Canonical
    /\ q.at \in {"adopt", "claim"} => q.todo \subseteq Canonical
    /\ q.at = "claim" => q.id \in Canonical

SignsIn(q)  == q.at # "idle" /\ q.op = "signin"
Enrolled(q) == q.at # "idle" /\ q.user # Legacy /\ q.op # "signin" => q.user \in users

SlotsOK ==
    /\ \A r \in Reqs : Course(req[r]) /\ Enrolled(req[r])
    /\ \A r, s \in Reqs : r # s /\ SignsIn(req[r]) /\ req[s].at # "idle" => req[s].user = Legacy

\* Before the first user there is only what the legacy key made.
LegacyOnly == \A d \in Dirs : gen[d] # 0 => maker[gen[d]].user = Legacy

FirstOK ==
    /\ users = {} \/ (\E r \in Reqs : req[r].at \in {"adopt", "claim"}) => LegacyOnly
    /\ \A r \in Reqs : req[r].at = "upsert" /\ req[r].saw = 0 => users = {}

\* A life is one directory's.
LivesApart == \A d, e \in Dirs : gen[d] = gen[e] /\ gen[d] # 0 => d = e

Let(x)     == x[1] = 0 \/ maker[x[1]].user = Legacy
Exempt(u)  == \E x \in granted : x[2] = u /\ Let(x)
HasRows(i) == Members(i) # {} \/ \E k \in keys : k.id = i

\* What a creation is about to purge, has purged and will make.
MakingOK(q) ==
    /\ q.at \in {"lock", "purge"} =>
          \A i \in Ids : DirOf[i] = DirOf[q.id] /\ HasRows(i) => i \in {q.id, DirName[q.id]} \cup q.known
    /\ q.at = "owner" => \A i \in Ids : DirOf[i] = DirOf[q.id] => ~HasRows(i)
    /\ q.at \in Holding /\ gen[DirOf[q.id]] # 0 => maker[gen[DirOf[q.id]]] = [user |-> q.user, id |-> q.id]
    /\ q.at \in Holding /\ q.user # Legacy => Cardinality(Owned(q.user)) < RepoCap \/ Exempt(q.user)

\* The rows of a repository whose creation has succeeded.
RowsOK(i) ==
    Life(i) # 0 =>
        /\ \A u \in Members(i) : <<Life(i), u>> \in granted
        /\ \A k \in keys : k.id = i => k.gen = Life(i)
        /\ maker[Life(i)].user # Legacy =>
              /\ Owners(i) \subseteq {maker[Life(i)].user}
              /\ maker[Life(i)].id = i => IsOwner(i, maker[Life(i)].user)

\* A life whose creation has failed.
Dead(g) == g \notin settled /\ \A r \in Reqs : req[r].at \in Holding => gen[DirOf[req[r].id]] # g

RefusedOK == \A x \in turnedAway : x[1] \in 1 .. gens /\ (x[2] = maker[x[1]].user => Dead(x[1]))
GrantedOK == \A x \in granted : x[1] <= gens
CapOK     == \A u \in Users : Cardinality(Owned(u)) <= RepoCap \/ Exempt(u)

MakingInv ==
    /\ SlotsOK /\ FirstOK /\ LivesApart
    /\ \A r \in Reqs : MakingOK(req[r])
    /\ \A i \in Ids : RowsOK(i)
    /\ RefusedOK /\ GrantedOK /\ CapOK

\* Who goes on to write was let into the life in which that was decided.
LetInto(g, u) == g \in 0 .. gens /\ (g # 0 => <<g, u>> \in granted \/ Dead(g))

Writer(q) == q.at = "write" /\ q.user # Legacy => LetInto(q.saw, q.user)

WritesInv ==
    /\ 0 \notin settled
    /\ \A r \in Reqs : Writer(req[r])
    /\ \A x \in wrote : LetInto(x.decided, x.user)

-----------------------------------------------------------------------------
(* What the parts of the invariant rest on *)

\* Nothing is known of the idle slot.
LEMMA IdleParts ==
    ASSUME NEW q, q.at = "idle"
    PROVE  Course(q) /\ MakingOK(q) /\ MakingOK(q)' /\ Enrolled(q)' /\ ~SignsIn(q)
BY DEF Course, MakingOK, Enrolled, SignsIn, Holding

LEMMA SlotsKept ==
    ASSUME AccessInv, SlotsOK, NEW r \in Reqs, NEW q \in Request \cup {Idle}, Turn(r, q), Course(q),
           q.at = "idle" \/ (req[r].at # "idle" /\ q.user = req[r].user /\ q.op = req[r].op),
           users \subseteq users'
    PROVE  SlotsOK'
<1>1. req'[r] = q /\ \A s \in Reqs \ {r} : req'[s] = req[s]
  BY TurnOK, Typed
<1>2. \A s \in Reqs : Course(req'[s]) /\ Enrolled(req[s])'
  BY <1>1 DEF SlotsOK, Enrolled
<1>3. ASSUME NEW s \in Reqs, NEW x \in Reqs, s # x, SignsIn(req'[s]), req'[x].at # "idle"
      PROVE  req'[x].user = Legacy
  BY <1>1, <1>3 DEF SlotsOK, SignsIn
<1>. QED BY <1>2, <1>3 DEF SlotsOK

LEMMA FirstKept ==
    ASSUME AccessInv, FirstOK, NEW r \in Reqs, NEW q \in Request \cup {Idle}, Turn(r, q),
           UNCHANGED <<gen, maker, users>>, q.at \in {"adopt", "claim"} => req[r].at \in {"adopt", "claim"},
           q.at = "upsert" /\ q.saw = 0 => users = {}
    PROVE  FirstOK'
<1>1. req'[r] = q /\ \A s \in Reqs \ {r} : req'[s] = req[s]
  BY TurnOK, Typed
<1>2. LegacyOnly => LegacyOnly'
  BY DEF LegacyOnly
<1>. QED BY <1>1, <1>2 DEF FirstOK

\* Who is exempt stays so as long as no grant is taken back.
LEMMA ExemptStays ==
    ASSUME AccessInv, GrantedOK, NEW u, granted \subseteq granted', \A g \in 1 .. gens : maker'[g] = maker[g], Exempt(u)
    PROVE  Exempt(u)'
<1>1. PICK x \in granted : x[2] = u /\ Let(x)
  BY DEF Exempt
<1>2. x[1] = 0 \/ x[1] \in 1 .. gens
  BY Typed, MoreTyped DEF GrantedOK, Lives
<1>3. x[1] = 0 \/ maker'[x[1]].user = Legacy
  BY <1>1, <1>2 DEF Let
<1>. QED BY <1>1, <1>3 DEF Exempt, Let

LEMMA OwnedFinite ==
    ASSUME NEW u
    PROVE  /\ Owned(u) \subseteq Ids /\ IsFiniteSet(Owned(u)) /\ Cardinality(Owned(u)) \in Nat
           /\ Owned(u)' \subseteq Ids /\ IsFiniteSet(Owned(u)') /\ Cardinality(Owned(u)') \in Nat
<1>1. Owned(u) \subseteq Ids /\ Owned(u)' \subseteq Ids /\ IsFiniteSet(Ids)
  BY IdsAssumption DEF Owned
<1>2. IsFiniteSet(Owned(u)) /\ IsFiniteSet(Owned(u)')
  BY <1>1, FS_Subset
<1>. QED BY <1>1, <1>2, FS_CardinalityType

LEMMA FewerOwned ==
    ASSUME NEW u, Owned(u)' \subseteq Owned(u)
    PROVE  Cardinality(Owned(u)') <= Cardinality(Owned(u))
BY OwnedFinite, FS_Subset

NoNewRows   == \A i \in Ids : HasRows(i)' => HasRows(i)
NoNewOwners == \A u \in Users : Owned(u)' \subseteq Owned(u)

LEMMA MakingStays ==
    ASSUME AccessInv, GrantedOK, NEW p, MakingOK(p), p.at \in Holding \cup {"lock"} => p.user \in Callers,
           UNCHANGED gen, \A g \in 1 .. gens : maker'[g] = maker[g], granted \subseteq granted',
           p.at \in Holding => DirOf[p.id] \in Dirs,
           NoNewRows, NoNewOwners
    PROVE  MakingOK(p)'
<1>1. p.at \in {"lock", "purge"} =>
          \A i \in Ids : DirOf[i] = DirOf[p.id] /\ HasRows(i)' => i \in {p.id, DirName[p.id]} \cup p.known
  BY DEF MakingOK, NoNewRows
<1>2. p.at = "owner" => \A i \in Ids : DirOf[i] = DirOf[p.id] => ~HasRows(i)'
  BY DEF MakingOK, NoNewRows
<1>3. p.at \in Holding /\ gen'[DirOf[p.id]] # 0 => maker'[gen'[DirOf[p.id]]] = [user |-> p.user, id |-> p.id]
  <2> SUFFICES ASSUME p.at \in Holding, gen[DirOf[p.id]] # 0
               PROVE  maker'[gen[DirOf[p.id]]] = [user |-> p.user, id |-> p.id]
    OBVIOUS
  <2>1. gen[DirOf[p.id]] \in 1 .. gens
    BY MoreTyped DEF LivesOK
  <2>. QED BY <2>1 DEF MakingOK
<1>4. p.at \in Holding /\ p.user # Legacy => Cardinality(Owned(p.user)') < RepoCap \/ Exempt(p.user)'
  <2> SUFFICES ASSUME p.at \in Holding, p.user # Legacy
               PROVE  Cardinality(Owned(p.user)') < RepoCap \/ Exempt(p.user)'
    OBVIOUS
  <2>1. Owned(p.user)' \subseteq Owned(p.user)
    BY DEF NoNewOwners, Callers
  <2>2. Cardinality(Owned(p.user)') <= Cardinality(Owned(p.user))
    BY <2>1, FewerOwned
  <2>3. Cardinality(Owned(p.user)) < RepoCap \/ Exempt(p.user)
    BY DEF MakingOK
  <2>4. Exempt(p.user) => Exempt(p.user)'
    BY ExemptStays
  <2>. QED BY <2>2, <2>3, <2>4, OwnedFinite, AccessBoundsAssumption
<1>. QED BY <1>1, <1>2, <1>3, <1>4 DEF MakingOK

LEMMA CapStays ==
    ASSUME AccessInv, GrantedOK, CapOK, \A g \in 1 .. gens : maker'[g] = maker[g], granted \subseteq granted', NoNewOwners
    PROVE  CapOK'
<1> SUFFICES ASSUME NEW u \in Users
             PROVE  Cardinality(Owned(u)') <= RepoCap \/ Exempt(u)'
  BY DEF CapOK
<1>1. Cardinality(Owned(u)') <= Cardinality(Owned(u))
  BY FewerOwned DEF NoNewOwners
<1>2. Exempt(u) => Exempt(u)'
  BY ExemptStays
<1>. QED BY <1>1, <1>2, OwnedFinite, AccessBoundsAssumption DEF CapOK

\* A life whose creation has failed is never settled: later ones are others.
LEMMA DeadStays ==
    ASSUME AccessInv, NEW g, Dead(g),
           settled' \subseteq settled \cup {gen[DirOf[req[s].id]] : s \in {x \in Reqs : req[x].at \in Holding}},
           \A s \in Reqs : req'[s].at \in Holding =>
               gen'[DirOf[req'[s].id]] # g \/ (req[s].at \in Holding /\ gen'[DirOf[req'[s].id]] = gen[DirOf[req[s].id]])
    PROVE  Dead(g)'
BY DEF Dead

Making == \A s \in Reqs : MakingOK(req[s])

LEMMA MakingNext ==
    ASSUME \A s \in Reqs : \E p : p = req'[s] /\ MakingOK(p)'
    PROVE  Making'
<1> SUFFICES ASSUME NEW s \in Reqs PROVE MakingOK(req[s])'
  BY DEF Making
<1>1. PICK p : p = req'[s] /\ MakingOK(p)'
  OBVIOUS
<1>. QED BY <1>1 DEF MakingOK, Members, IsMember, HasRows, Owned, Exempt, Let

LEMMA HolderFields ==
    ASSUME AccessInv, NEW s \in Reqs, req[s].at \in Holding \cup {"lock"}
    PROVE  req[s].user \in Callers /\ DirOf[req[s].id] \in Dirs /\ req[s] \in Request /\ req[s].id \in Ids
BY Given, LifeTyped, Outside DEF Holding

LEMMA MakingKept ==
    ASSUME AccessInv, GrantedOK, Making, NEW r \in Reqs, NEW q \in Request \cup {Idle}, Turn(r, q), MakingOK(q)',
           UNCHANGED gen, \A g \in 1 .. gens : maker'[g] = maker[g], granted \subseteq granted',
           NoNewRows, NoNewOwners
    PROVE  Making'
<1>1. req'[r] = q /\ \A s \in Reqs \ {r} : req'[s] = req[s]
  BY TurnOK, Typed
<1>2. ASSUME NEW s \in Reqs \ {r}
      PROVE  \E p : p = req'[s] /\ MakingOK(p)'
  <2>1. PICK p : p = req[s]
    OBVIOUS
  <2>2. MakingOK(p)'
    BY <2>1, MakingStays, HolderFields DEF Making
  <2>. QED BY <1>1, <2>1, <2>2
<1>. QED BY <1>1, <1>2, MakingNext

\* The rows of a repository that no step of them touches.
LEMMA RowsKept ==
    ASSUME AccessInv, NEW i \in Ids, RowsOK(i), Life(i)' \in {Life(i), 0}, Life(i) \in 1 .. gens => maker'[Life(i)] = maker[Life(i)],
           role'[i] = role[i], {k \in keys' : k.id = i} \subseteq keys, granted \subseteq granted'
    PROVE  RowsOK(i)'
<1> SUFFICES ASSUME Life(i)' # 0 PROVE RowsOK(i)'
  BY DEF RowsOK
<1>1. Life(i)' = Life(i) /\ Life(i) # 0 /\ Life(i) \in 1 .. gens
  BY LifeTyped, MoreTyped DEF LivesOK, Life
<1>2. Members(i)' = Members(i) /\ Owners(i)' = Owners(i) /\ \A u : IsOwner(i, u)' = IsOwner(i, u)
  BY DEF Members, Owners, IsMember, IsOwner
<1>. QED BY <1>1, <1>2 DEF RowsOK

LEMMA SameRows ==
    ASSUME UNCHANGED <<role, keys>>
    PROVE  NoNewRows /\ NoNewOwners
BY DEF NoNewRows, NoNewOwners, HasRows, Members, IsMember, Owned

LEMMA RefusedKept ==
    ASSUME AccessInv, RefusedOK, gens <= gens', gens' \in Nat,
           \A x \in turnedAway' \ turnedAway : x[1] \in 1 .. gens /\ (x[2] = maker[x[1]].user => Dead(x[1])),
           \A g \in 1 .. gens : maker'[g] = maker[g],
           \A g \in 1 .. gens : Dead(g) => Dead(g)'
    PROVE  RefusedOK'
<1> SUFFICES ASSUME NEW x \in turnedAway'
             PROVE  x[1] \in 1 .. gens' /\ (x[2] = maker'[x[1]].user => Dead(x[1])')
  BY DEF RefusedOK
<1>1. x[1] \in 1 .. gens /\ gens \in Nat
  BY MoreTyped DEF RefusedOK
<1>2. x[2] = maker'[x[1]].user => Dead(x[1])
  BY <1>1 DEF RefusedOK
<1>. QED BY <1>1, <1>2

LEMMA GrantedKept ==
    ASSUME AccessInv, GrantedOK, gens' = gens, \A x \in granted' \ granted : x[1] <= gens
    PROVE  GrantedOK'
BY DEF GrantedOK

\* What a step must leave alone to be calm, but for who has a row of users.
Still == UNCHANGED <<gen, gens, settled, maker, role, keys, granted, turnedAway>>

\* A step that moves a request and touches no rows of a repository.
LEMMA StillOK ==
    ASSUME AccessInv, MakingInv, NEW r \in Reqs, NEW q \in Request \cup {Idle}, Turn(r, q), MakingOK(q)',
           q.at \notin Holding, Still, SlotsOK', FirstOK'
    PROVE  MakingInv'
<1>1. LivesApart'
  BY DEF MakingInv, LivesApart, Still
<1>2. Making'
  BY MakingKept, SameRows DEF MakingInv, Making, Still
<1>3. \A i \in Ids : RowsOK(i)'
  <2> TAKE i \in Ids
  <2>1. Life(i)' = Life(i)
    BY DEF Life, Still
  <2>. QED BY <2>1, RowsKept DEF MakingInv, Still
<1>4. RefusedOK'
  <2>1. req'[r] = q /\ \A s \in Reqs \ {r} : req'[s] = req[s]
    BY TurnOK, Typed
  <2>2. \A g \in 1 .. gens : Dead(g) => Dead(g)'
    BY <2>1, DeadStays DEF Still
  <2>. QED BY <2>2, RefusedKept, MoreTyped DEF MakingInv, Still
<1>5. GrantedOK' /\ CapOK'
  BY GrantedKept, CapStays, SameRows DEF MakingInv, Still
<1>. QED BY <1>1, <1>2, <1>3, <1>4, <1>5 DEF MakingInv, Making

\* The same where no user is added.
LEMMA CalmOK ==
    ASSUME AccessInv, MakingInv, NEW r \in Reqs, NEW q \in Request \cup {Idle}, Turn(r, q), Course(q), MakingOK(q)',
           q.at = "idle" \/ (req[r].at # "idle" /\ q.user = req[r].user /\ q.op = req[r].op),
           q.at \notin Holding, q.at \in {"adopt", "claim"} => req[r].at \in {"adopt", "claim"},
           q.at = "upsert" /\ q.saw = 0 => users = {},
           UNCHANGED <<gen, gens, settled, maker, role, keys, granted, turnedAway, users>>
    PROVE  MakingInv'
<1>1. SlotsOK'
  BY SlotsKept DEF MakingInv
<1>2. FirstOK'
  BY FirstKept DEF MakingInv
<1>. QED BY <1>1, <1>2, StillOK DEF Still

Calm == UNCHANGED <<gen, gens, settled, maker, role, keys, granted, turnedAway, users>>

LEMMA CalmMoves ==
    ASSUME AccessInv, MakingInv, NEW r \in Reqs, req[r].at # "idle", Calm,
           NEW at \in {"decide", "write", "record", "look"},
           Answer(r) \/ ((Goto(r, at) \/ GotoSeeing(r, at)) /\ req[r].op # "signin")
    PROVE  MakingInv'
<1>1. CASE Answer(r)
  <2>1. PICK q \in Request \cup {Idle} : Turn(r, q) /\ q.at = "idle"
    BY <1>1, AnswerTurn
  <2>. QED BY <2>1, IdleParts, CalmOK, Outside DEF Calm
<1>2. CASE Goto(r, at) /\ req[r].op # "signin"
  <2>1. PICK q \in Request : Turn(r, q) /\ q.at = at /\ Onward(req[r], q)
    BY <1>2, GotoTurn, Outside
  <2>2. Course(q) /\ MakingOK(q)' /\ q.at \notin Holding
    BY <1>2, <2>1 DEF Course, MakingOK, Holding, Onward
  <2>. QED BY <2>1, <2>2, CalmOK DEF Calm, Onward
<1>3. CASE GotoSeeing(r, at) /\ req[r].op # "signin"
  <2>1. PICK q \in Request : Turn(r, q) /\ q.at = at /\ q.user = req[r].user /\ q.op = req[r].op
    BY <1>3, SeeingTurn, Outside
  <2>2. Course(q) /\ MakingOK(q)' /\ q.at \notin Holding
    BY <1>3, <2>1 DEF Course, MakingOK, Holding
  <2>. QED BY <2>1, <2>2, CalmOK DEF Calm
<1>. QED BY <1>1, <1>2, <1>3

\* Only a sign-in is at the steps of one, and it is at no others.
LEMMA NotSigning ==
    ASSUME AccessInv, MakingInv, NEW r \in Reqs, req[r].at # "idle"
    PROVE  /\ Course(req[r]) /\ Enrolled(req[r]) /\ MakingOK(req[r])
           /\ req[r].at \notin {"enter", "upsert", "adopt", "claim"} => req[r].op # "signin"
           /\ req[r].at \in {"upsert", "adopt", "claim"} => req[r].op = "signin" /\ req[r].user # Legacy
           /\ \A s \in Reqs : s # r /\ SignsIn(req[r]) /\ req[s].at # "idle" => req[s].user = Legacy
BY DEF MakingInv, SlotsOK, Course, Enrolled

LEMMA CalmSteps ==
    ASSUME AccessInv, MakingInv, NEW r \in Reqs,
           Write(r) \/ Record(r) \/ Check(r) \/ Look(r) \/ Recheck(r) \/ ListKeys(r)
    PROVE  MakingInv'
<1>1. CASE Write(r)
  BY <1>1, CalmMoves, NotSigning DEF Write, Calm, tables
<1>2. CASE Record(r)
  BY <1>2, CalmMoves DEF Record, Calm, past
<1>3. CASE Check(r)
  BY <1>3, CalmMoves DEF Check, Calm, tables, past, Reads
<1>4. CASE Look(r)
  <2>1. CASE req[r].op = "members"
    BY <1>4, <2>1, CalmMoves DEF Look, Calm, tables
  <2>2. CASE req[r].op # "members"
    <3> DEFINE n == Seeing(req[r], "recheck", Life(req[r].id))
    <3>1. Life(req[r].id) \in Nat /\ req[r] \in Request /\ "recheck" \in Steps /\ req[r].op # "signin"
      BY <1>4, Given, Outside, NotSigning DEF Lives, Look
    <3>2. PICK q : q = n
      OBVIOUS
    <3>3. q \in Request /\ q.at = "recheck" /\ q.user = req[r].user /\ q.op = req[r].op
      <4>1. n.op = req[r].op
        BY <3>1 DEF Seeing, Request
      <4>. QED BY <3>1, <3>2, <4>1, RequestSeeing
    <3>4. Turn(r, q)
      BY <1>4, <2>2, <3>2, Typed DEF Look, Turn, Slots, Seeing
    <3>5. Course(q) /\ MakingOK(q)' /\ q.at \notin Holding
      BY <3>1, <3>3 DEF Course, MakingOK, Holding
    <3>6. req[r].at # "idle" /\ Calm
      BY <1>4 DEF Look, Calm, tables
    <3>. QED BY <3>3, <3>4, <3>5, <3>6, CalmOK DEF Calm
  <2>. QED BY <2>1, <2>2
<1>5. CASE Recheck(r)
  BY <1>5, CalmMoves, NotSigning DEF Recheck, Calm, tables
<1>6. CASE ListKeys(r)
  BY <1>6, CalmMoves DEF ListKeys, Guarded, Calm, tables
<1>. QED BY <1>1, <1>2, <1>3, <1>4, <1>5, <1>6

LEMMA EnterCalm ==
    ASSUME AccessInv, MakingInv, NEW r \in Reqs, Enter(r)
    PROVE  MakingInv'
<1>1. req[r].at = "enter" /\ req[r].op # "signin" /\ Calm
  BY DEF Enter, Creates, Calm, tables, past
<1>2. CASE Answer(r) \/ GotoSeeing(r, "write") \/ Goto(r, "decide")
  BY <1>1, <1>2, CalmMoves
<1>3. CASE Goto(r, "list") /\ (~IsLegacy(r) => req[r].id \in Canonical)
  <2>1. PICK q \in Request : Turn(r, q) /\ q.at = "list" /\ Onward(req[r], q)
    BY <1>1, <1>3, GotoTurn, Outside
  <2>2. Course(q) /\ MakingOK(q)' /\ q.at \notin Holding
    BY <1>1, <1>3, <2>1 DEF Course, MakingOK, Holding, Onward, IsLegacy
  <2>. QED BY <1>1, <2>1, <2>2, CalmOK DEF Calm, Onward
<1>. QED BY <1>1, <1>2, <1>3 DEF Enter, LetIn

LEMMA ListCalm ==
    ASSUME AccessInv, MakingInv, NEW r \in Reqs, List(r)
    PROVE  MakingInv'
<1> DEFINE n == [req[r] EXCEPT !.at = "lock", !.known = KnownRepoIDs]
<1>1. req[r] \in Request /\ req[r].at = "list" /\ Calm /\ KnownRepoIDs \in SUBSET Ids
  <2>1. KnownRepoIDs \in SUBSET Ids
    BY Typed DEF KnownRepoIDs, Row
  <2>. QED BY <2>1, Busy, Typed DEF List, Calm, tables, past
<1>2. PICK q : q = n
  OBVIOUS
<1>3. /\ q \in Request /\ q.at = "lock" /\ q.user = req[r].user /\ q.op = req[r].op /\ q.id = req[r].id
      /\ q.known = KnownRepoIDs
  <2>1. n.user = req[r].user /\ n.op = req[r].op /\ n.id = req[r].id /\ n.known = KnownRepoIDs
    BY <1>1 DEF Request
  <2>. QED BY <1>1, <1>2, <2>1, RequestKnowing
<1>4. Turn(r, q)
  BY <1>2, Typed DEF List, Turn, Slots
<1>5. Course(q) /\ q.at \notin Holding
  BY <1>1, <1>3, NotSigning DEF Course, Holding
<1>6. MakingOK(q)'
  <2>1. \A i \in Ids : HasRows(i)' => i \in KnownRepoIDs
    BY <1>1 DEF Calm, HasRows, KnownRepoIDs, Members, IsMember
  <2>. QED BY <1>3, <2>1 DEF MakingOK, Holding
<1>. QED BY <1>1, <1>3, <1>4, <1>5, <1>6, CalmOK DEF Calm

LEMMA CountCalm ==
    ASSUME AccessInv, MakingInv, NEW r \in Reqs, Count(r)
    PROVE  MakingInv'
<1> DEFINE n == Seeing(req[r], "upsert", Cardinality(users))
<1>1. req[r].at = "enter" /\ req[r].op = "signin" /\ req[r] \in Request /\ Calm /\ "upsert" \in Steps
  BY Given, Outside DEF Count, Calm, tables, past
<1>2. IsFiniteSet(users) /\ Cardinality(users) \in Nat
  BY UsersAssumption, Typed, FS_Subset, FS_CardinalityType
<1>3. PICK q : q = n
  OBVIOUS
<1>4. q \in Request /\ q.at = "upsert" /\ q.user = req[r].user /\ q.op = req[r].op /\ q.saw = Cardinality(users)
  <2>1. n.op = req[r].op
    BY <1>1 DEF Seeing, Request
  <2>. QED BY <1>1, <1>2, <1>3, <2>1, RequestSeeing
<1>5. Turn(r, q)
  BY <1>3, Typed DEF Count, Turn, Slots, Seeing
<1>6. Course(q) /\ q.at \notin Holding /\ MakingOK(q)'
  BY <1>1, <1>4, NotSigning DEF Course, Holding, MakingOK
<1>7. q.saw = 0 => users = {}
  BY <1>2, <1>4, FS_EmptySet
<1>. QED BY <1>1, <1>4, <1>5, <1>6, <1>7, CalmOK DEF Calm

LEMMA AdoptCalm ==
    ASSUME AccessInv, MakingInv, NEW r \in Reqs, Adopt(r)
    PROVE  MakingInv'
<1>1. req[r].at = "adopt" /\ req[r] \in Request /\ req[r].todo \in SUBSET Ids /\ req[r].todo \subseteq Canonical /\ Calm
      /\ req[r].op = "signin" /\ req[r].user # Legacy
  BY Given, NotSigning DEF Adopt, Calm, tables, past, Course
<1>2. CASE Answer(r)
  BY <1>1, <1>2, CalmMoves
<1>3. ASSUME NEW i \in req[r].todo,
             req' = IF ~RepoHasOwner(i)
                    THEN [req EXCEPT ![r].at = "claim", ![r].id = i, ![r].todo = @ \ {i}]
                    ELSE [req EXCEPT ![r].todo = @ \ {i}]
      PROVE  MakingInv'
  <2> DEFINE n == IF ~RepoHasOwner(i) THEN Claiming(req[r], i, req[r].todo \ {i})
                  ELSE [req[r] EXCEPT !.todo = req[r].todo \ {i}]
  <2>1. PICK q : q = n
    OBVIOUS
  <2>2. Turn(r, q)
    BY <1>3, <2>1, Typed DEF Turn, Slots, Claiming
  <2>3. PICK todo : todo = req[r].todo \ {i}
    OBVIOUS
  <2>4. todo \in SUBSET Ids /\ todo \subseteq Canonical /\ i \in Ids /\ i \in Canonical
    BY <1>1, <2>3
  <2>5. /\ q \in Request /\ q.at \in {"claim", "adopt"} /\ q.user = req[r].user /\ q.op = req[r].op
        /\ q.todo = todo /\ (q.at = "claim" => q.id = i)
    <3>1. CASE ~RepoHasOwner(i)
      <4>1. q = Claiming(req[r], i, todo)
        BY <2>1, <2>3, <3>1
      <4>2. q.op = req[r].op /\ q.todo = todo /\ q.id = i
        BY <1>1, <4>1 DEF Claiming, Request
      <4>. QED BY <1>1, <2>4, <4>1, <4>2, RequestClaiming
    <3>2. CASE RepoHasOwner(i)
      <4>1. q = [req[r] EXCEPT !.todo = todo]
        BY <2>1, <2>3, <3>2
      <4>2. q.op = req[r].op /\ q.todo = todo
        BY <1>1, <4>1 DEF Request
      <4>. QED BY <1>1, <2>4, <4>1, <4>2, RequestTodo
    <3>. QED BY <3>1, <3>2
  <2>6. Course(q) /\ q.at \notin Holding /\ MakingOK(q)'
    BY <1>1, <2>4, <2>5 DEF Course, Holding, MakingOK
  <2>. QED BY <1>1, <2>2, <2>5, <2>6, CalmOK DEF Calm
<1>. QED BY <1>2, <1>3 DEF Adopt

LEMMA ArrivesCalm ==
    ASSUME AccessInv, MakingInv, Sessions = "first", NEW r \in Reqs, Arrives(r)
    PROVE  MakingInv'
<1>1. PICK t \in Traffic, i \in Ids : Admitted(r, t[2], t[1]) /\
        \E k \in IF t[2] \in {"join", "revoke"} THEN keys ELSE {NoKey(i)}, v \in IF t[2] = "remove" THEN Users ELSE {NoOne} :
           Turn(r, [at |-> "enter", op |-> t[2], user |-> t[1], id |-> i, key |-> k,
                    whom |-> v, known |-> {}, saw |-> 0, todo |-> {}])
  BY DEF Arrives, Turn
<1>2. PICK q : /\ Turn(r, q) /\ q.at = "enter" /\ q.op = t[2] /\ q.user = t[1]
  <2>1. PICK k, v : Turn(r, [at |-> "enter", op |-> t[2], user |-> t[1], id |-> i, key |-> k,
                             whom |-> v, known |-> {}, saw |-> 0, todo |-> {}])
    BY <1>1
  <2>. QED BY <2>1
<1>3. req'[r] = q /\ \A s \in Reqs \ {r} : req'[s] = req[s]
  BY <1>2, Typed DEF Turn, Slots
<1>4. Calm /\ req[r].at = "idle"
  BY IdleFacts DEF Arrives, Calm, tables, past
<1>5. SlotsOK'
  <2>1. Course(q) /\ Enrolled(q)'
    BY <1>1, <1>2, <1>4 DEF Course, Enrolled, Admitted, Calm
  <2>2. \A s \in Reqs : Course(req'[s]) /\ Enrolled(req[s])'
    BY <1>3, <1>4, <2>1 DEF MakingInv, SlotsOK, Enrolled, Calm
  <2>3. ASSUME NEW s \in Reqs, NEW x \in Reqs, s # x, SignsIn(req'[s]), req'[x].at # "idle"
        PROVE  req'[x].user = Legacy
    <3>1. CASE s # r /\ x # r
      BY <1>3, <2>3, <3>1 DEF MakingInv, SlotsOK
    <3>2. CASE s = r
      <4>1. req[x] # Idle /\ x \in Reqs \ {r} /\ Alone(r)
        BY <1>1, <1>2, <1>3, <2>3, <3>2, IdleFacts DEF Admitted, SignsIn
      <4>. QED BY <1>3, <4>1 DEF Alone, IsLegacy
    <3>3. CASE x = r
      <4>1. SignsIn(req[s]) /\ Signing
        BY <1>3, <2>3, <3>3, IdleFacts DEF Signing, SignsIn
      <4>2. t[2] # "signin"
        <5>1. SUFFICES ASSUME t[2] = "signin" PROVE FALSE
          OBVIOUS
        <5>2. Alone(r) /\ s \in Reqs \ {r} /\ req[s] # Idle
          BY <1>1, <1>3, <2>3, <3>3, <4>1, <5>1, IdleFacts DEF Admitted, SignsIn
        <5>3. req[s].user = Legacy /\ req[s].user # Legacy
          BY <4>1, <5>2 DEF Alone, IsLegacy, MakingInv, SlotsOK, Course, SignsIn
        <5>. QED BY <5>3
      <4>. QED BY <1>1, <1>2, <1>3, <3>3, <4>1, <4>2 DEF Admitted
    <3>. QED BY <3>1, <3>2, <3>3
  <2>. QED BY <2>2, <2>3 DEF SlotsOK
<1>6. FirstOK'
  <2>1. LegacyOnly => LegacyOnly'
    BY <1>4 DEF LegacyOnly, Calm
  <2>. QED BY <1>2, <1>3, <1>4, <2>1 DEF MakingInv, FirstOK, Calm
<1>7. q \in Request \cup {Idle} /\ MakingOK(q)' /\ q.at \notin Holding
  <2>1. req' \in Slots
    BY ArrivesOK DEF AccessInv, TypeInv
  <2>. QED BY <1>2, <1>3, <2>1 DEF Slots, MakingOK, Holding
<1>. QED BY <1>2, <1>4, <1>5, <1>6, <1>7, StillOK DEF Calm, Still

LEMMA UpsertStill ==
    ASSUME AccessInv, MakingInv, NEW r \in Reqs, Upsert(r)
    PROVE  MakingInv'
<1>1. /\ req[r].at = "upsert" /\ req[r] \in Request /\ Still /\ users' = users \cup {req[r].user}
      /\ req[r].op = "signin" /\ req[r].user # Legacy
  BY Given, NotSigning DEF Upsert, Still, past
<1>2. PICK q \in Request \cup {Idle} :
         /\ Turn(r, q)
         /\ q.at = "idle" \/ (/\ q.at = "adopt" /\ q.todo \subseteq Canonical /\ q.user = req[r].user
                              /\ q.op = req[r].op /\ req[r].saw = 0)
  <2>1. CASE req[r].user \notin users /\ req[r].saw = 0
    <3>1. PICK todo : todo = {i \in Canonical : Exists(i)}
      OBVIOUS
    <3>2. todo \in SUBSET Ids /\ todo \subseteq Canonical
      BY <3>1 DEF Canonical
    <3> DEFINE m == [req[r] EXCEPT !.at = "adopt", !.todo = todo]
    <3>3. m \in Request /\ m.at = "adopt" /\ m.user = req[r].user /\ m.todo = todo /\ m.op = req[r].op
      <4>1. m.todo = todo /\ m.op = req[r].op
        BY <1>1 DEF Request
      <4>2. m \in Request /\ m.at = "adopt" /\ m.user = req[r].user
        BY <1>1, <3>2, RequestTodo
      <4>. QED BY <4>1, <4>2
    <3>4. Turn(r, m)
      BY <2>1, <3>1, Typed DEF Upsert, Turn, Slots
    <3>. HIDE DEF m
    <3>. QED BY <2>1, <3>2, <3>3, <3>4
  <2>2. CASE ~(req[r].user \notin users /\ req[r].saw = 0)
    BY <2>2, AnswerTurn DEF Upsert
  <2>. QED BY <2>1, <2>2
<1>3. req'[r] = q /\ \A s \in Reqs \ {r} : req'[s] = req[s]
  BY <1>2, TurnOK, Typed
<1>4. Course(q) /\ MakingOK(q)' /\ q.at \notin Holding
  BY <1>1, <1>2 DEF Course, MakingOK, Holding
<1>5. SlotsOK'
  <2>1. users \subseteq users'
    BY <1>1
  <2>. QED BY <1>1, <1>2, <1>4, <2>1, SlotsKept DEF MakingInv
<1>6. FirstOK'
  <2>1. \A s \in Reqs \ {r} : req[s].at \notin {"upsert", "adopt", "claim"}
    <3>1. SignsIn(req[r])
      BY <1>1 DEF SignsIn
    <3>. QED BY <3>1 DEF MakingInv, SlotsOK, Course
  <2>2. LegacyOnly => LegacyOnly'
    BY <1>1 DEF LegacyOnly, Still
  <2>3. q.at = "adopt" => LegacyOnly
    BY <1>1, <1>2 DEF MakingInv, FirstOK
  <2>4. users' # {} /\ \A s \in Reqs : req'[s].at # "upsert"
    BY <1>1, <1>2, <1>3, <2>1
  <2>. QED BY <1>2, <1>3, <2>1, <2>2, <2>3, <2>4 DEF FirstOK
<1>. QED BY <1>1, <1>2, <1>4, <1>5, <1>6, StillOK

\* Who made a life is the legacy key or a user.
LEMMA LifeUser ==
    ASSUME AccessInv, NEW i \in Ids, Life(i) # 0
    PROVE  /\ Life(i) \in 1 .. gens /\ Life(i) \in 1 .. MaxGen /\ maker[Life(i)].user \in Callers
           /\ maker[Life(i)].id \in Ids
           /\ maker[Life(i)].user # Legacy => maker[Life(i)].user \in Users
<1>1. Life(i) \in 1 .. gens
  BY LifeTyped, MoreTyped DEF LivesOK, Life
<1>2. Life(i) \in 1 .. MaxGen
  <2>1. gens \in 0 .. MaxGen
    BY DEF AccessInv, TypeInv, Lives
  <2>. QED BY <1>1, <2>1, AccessBoundsAssumption
<1>3. maker[Life(i)] \in [user : Callers, id : Ids]
  BY <1>2, MoreTyped
<1>. QED BY <1>1, <1>2, <1>3 DEF Callers

-----------------------------------------------------------------------------
(* Keys and members *)

\* A step that changes rows and is answered.
LEMMA RowsStepOK ==
    ASSUME AccessInv, MakingInv, NEW r \in Reqs, Answer(r),
           UNCHANGED <<gen, gens, settled, maker, users>>,
           \A x \in turnedAway' \ turnedAway : x[1] \in 1 .. gens /\ (x[2] = maker[x[1]].user => Dead(x[1])),
           granted \subseteq granted', \A x \in granted' \ granted : x[1] <= gens,
           NoNewRows, NoNewOwners, \A i \in Ids : RowsOK(i)'
    PROVE  MakingInv'
<1>1. PICK q \in Request \cup {Idle} : Turn(r, q) /\ q.at = "idle"
  BY AnswerTurn
<1>2. SlotsOK' /\ FirstOK'
  BY <1>1, SlotsKept, FirstKept, IdleParts DEF MakingInv
<1>3. LivesApart'
  BY DEF MakingInv, LivesApart
<1>4. Making'
  BY <1>1, MakingKept, IdleParts DEF MakingInv, Making
<1>5. RefusedOK'
  <2>1. req'[r] = q /\ \A s \in Reqs \ {r} : req'[s] = req[s]
    BY <1>1, TurnOK, Typed
  <2>2. \A g \in 1 .. gens : Dead(g) => Dead(g)'
    BY <1>1, <2>1, DeadStays, Outside
  <2>. QED BY <2>2, RefusedKept, MoreTyped DEF MakingInv
<1>6. GrantedOK' /\ CapOK'
  BY GrantedKept, CapStays DEF MakingInv
<1>. QED BY <1>2, <1>3, <1>4, <1>5, <1>6 DEF MakingInv, Making

\* The life of a repository does not change under such a step.
LEMMA SameLife ==
    ASSUME UNCHANGED <<gen, settled>>, NEW i
    PROVE  Life(i)' = Life(i)
BY DEF Life

LEMMA SameMembers ==
    ASSUME UNCHANGED role
    PROVE  /\ NoNewOwners
           /\ \A i \in Ids : Members(i)' = Members(i) /\ Owners(i)' = Owners(i)
           /\ \A i \in Ids : \A u : IsOwner(i, u)' = IsOwner(i, u)
BY DEF NoNewOwners, Owned, Members, Owners, IsMember, IsOwner

\* What RowsOK of an id says when neither its life nor its owners change.
LEMMA RowsStay ==
    ASSUME AccessInv, NEW i \in Ids, RowsOK(i), Life(i)' = Life(i), UNCHANGED maker, granted \subseteq granted',
           Owners(i)' = Owners(i), \A u \in Users : IsOwner(i, u)' = IsOwner(i, u),
           Life(i) # 0 => \A u \in Members(i)' : u \in Members(i) \/ <<Life(i), u>> \in granted',
           Life(i) # 0 => \A k \in keys' \ keys : k.id = i => k.gen = Life(i)
    PROVE  RowsOK(i)'
<1> SUFFICES ASSUME Life(i) # 0 PROVE RowsOK(i)'
  BY DEF RowsOK
<1>1. PICK g : g = Life(i) /\ Life(i)' = g
  OBVIOUS
<1>2. PICK u : u = maker[g].user
  OBVIOUS
<1>3. u # Legacy => u \in Users
  BY <1>1, <1>2, LifeUser
<1>4. maker[g].user # Legacy /\ maker[g].id = i => IsOwner(i, u)'
  BY <1>1, <1>2, <1>3 DEF RowsOK
<1>5. maker[g].user # Legacy => Owners(i)' \subseteq {u}
  BY <1>1, <1>2 DEF RowsOK
<1>6. \A v \in Members(i)' : <<g, v>> \in granted'
  BY <1>1 DEF RowsOK
<1>7. \A k \in keys' : k.id = i => k.gen = g
  BY <1>1 DEF RowsOK
<1>. QED BY <1>1, <1>2, <1>4, <1>5, <1>6, <1>7 DEF RowsOK, IsOwner

LEMMA MintRows ==
    ASSUME AccessInv, MakingInv, NEW r \in Reqs, Mint(r)
    PROVE  MakingInv'
<1>1. /\ req[r].at = "enter" /\ Answer(r) /\ req[r].id \in Ids /\ UNCHANGED <<gen, gens, users, role, settled, maker, granted, turnedAway>>
  BY Given DEF Mint, Guarded, past
<1>2. \/ keys' = keys
      \/ /\ IsOwner(req[r].id, req[r].user) /\ req[r].user \in Users
         /\ keys' = keys \cup {[id |-> req[r].id, gen |-> gen[DirOf[req[r].id]], live |-> TRUE]}
  BY <1>1, Given DEF Mint
<1>3. \A k \in keys' \ keys : k.id = req[r].id /\ k.gen = gen[DirOf[k.id]]
  BY <1>2
<1>4. keys' # keys => Members(req[r].id) # {}
  BY <1>2 DEF Members, IsMember, IsOwner
<1>5. NoNewRows /\ NoNewOwners
  BY <1>1, <1>3, <1>4, SameMembers DEF NoNewRows, HasRows
<1>6. \A i \in Ids : RowsOK(i)'
  <2> TAKE i \in Ids
  <2>1. Life(i) # 0 => Life(i) = gen[DirOf[i]]
    BY DEF Life
  <2>. QED BY <1>1, <1>3, <2>1, SameLife, SameMembers, RowsStay DEF MakingInv
<1>. QED BY <1>1, <1>5, <1>6, RowsStepOK

LEMMA RevokeRows ==
    ASSUME AccessInv, MakingInv, NEW r \in Reqs, Revoke(r)
    PROVE  MakingInv'
<1>1. Answer(r) /\ UNCHANGED <<gen, gens, users, role, settled, maker, granted, turnedAway>> /\ keys' \subseteq keys
  BY DEF Revoke, Guarded, past
<1>2. NoNewRows /\ NoNewOwners
  BY <1>1, SameMembers DEF NoNewRows, HasRows
<1>3. \A i \in Ids : RowsOK(i)'
  BY <1>1, SameLife, SameMembers, RowsStay DEF MakingInv
<1>. QED BY <1>1, <1>2, <1>3, RowsStepOK

LEMMA ExpireRows ==
    ASSUME AccessInv, MakingInv, Expire
    PROVE  MakingInv'
<1>1. UNCHANGED <<gen, gens, users, role, req, settled, maker, granted, turnedAway>>
  BY DEF Expire, past
<1>2. PICK k \in keys : keys' = (keys \ {k}) \cup {[k EXCEPT !.live = FALSE]}
  BY DEF Expire
<1>3. PICK n : n = [k EXCEPT !.live = FALSE]
  OBVIOUS
<1>4. n.id = k.id /\ n.gen = k.gen /\ keys' = (keys \ {k}) \cup {n}
  <2>1. k \in Key
    BY Typed
  <2>. QED BY <1>2, <1>3, <2>1 DEF Key
<1>5. NoNewRows /\ NoNewOwners
  BY <1>1, <1>4, SameMembers DEF NoNewRows, HasRows
<1>6. \A i \in Ids : RowsOK(i)'
  <2> TAKE i \in Ids
  <2>1. Life(i) # 0 => \A x \in keys' \ keys : x.id = i => x.gen = Life(i)
    BY <1>4 DEF MakingInv, RowsOK
  <2>. QED BY <1>1, <2>1, SameLife, SameMembers, RowsStay DEF MakingInv
<1>7. SlotsOK' /\ FirstOK' /\ LivesApart'
  BY <1>1 DEF MakingInv, SlotsOK, Enrolled, FirstOK, LegacyOnly, LivesApart
<1>8. Making'
  <2>1. ASSUME NEW s \in Reqs
        PROVE  \E p : p = req'[s] /\ MakingOK(p)'
    <3>1. PICK p : p = req[s]
      OBVIOUS
    <3>2. MakingOK(p)'
      BY <1>1, <1>5, <3>1, MakingStays, HolderFields DEF MakingInv
    <3>. QED BY <1>1, <3>1, <3>2
  <2>. QED BY <2>1, MakingNext
<1>9. RefusedOK'
  <2>1. \A g \in 1 .. gens : Dead(g) => Dead(g)'
    BY <1>1 DEF Dead
  <2>. QED BY <1>1, <2>1, RefusedKept, MoreTyped DEF MakingInv
<1>10. GrantedOK' /\ CapOK'
  BY <1>1, <1>5, GrantedKept, CapStays DEF MakingInv
<1>. QED BY <1>6, <1>7, <1>8, <1>9, <1>10 DEF MakingInv, Making

LEMMA JoinRows ==
    ASSUME AccessInv, MakingInv, NEW r \in Reqs, Join(r)
    PROVE  MakingInv'
<1>1. PICK k \in Key, u \in Callers : k = req[r].key /\ u = req[r].user /\ (u # Legacy => u \in Users)
  BY Given DEF Join, Guarded, IsLegacy
<1>2. /\ Answer(r) /\ k.id \in Ids
      /\ UNCHANGED <<gen, gens, users, keys, settled, maker, turnedAway>>
  BY <1>1 DEF Join, Key
<1>3. CASE UNCHANGED <<role, granted>>
  <2>1. NoNewRows /\ NoNewOwners
    BY <1>2, <1>3, SameRows
  <2>2. \A i \in Ids : RowsOK(i)'
    <3> TAKE i \in Ids
    <3>. QED BY <1>2, <1>3, SameLife, SameMembers, RowsStay DEF MakingInv
  <2>. QED BY <1>2, <1>3, <2>1, <2>2, RowsStepOK
<1>4. CASE /\ u \in Users /\ k \in keys /\ ~IsMember(k.id, u) /\ role' = [role EXCEPT ![k.id][u] = "member"]
           /\ granted' = IF k.gen = gen[DirOf[k.id]] THEN granted \cup {<<k.gen, u>>} ELSE granted
  <2>1. role \in [Ids -> [Users -> Roles]]
    BY Typed
  <2>2. \A i \in Ids, v \in Users : IF i = k.id /\ v = u THEN role'[i][v] = "member" ELSE role'[i][v] = role[i][v]
    BY <1>2, <1>4, <2>1
  <2>3. role[k.id][u] # "owner"
    BY <1>4 DEF IsMember
  <2>4. \A i \in Ids : Owners(i)' = Owners(i) /\ \A v \in Users : IsOwner(i, v)' = IsOwner(i, v)
    BY <2>2, <2>3 DEF Owners, IsOwner
  <2>5. NoNewOwners
    BY <2>2, <2>3 DEF NoNewOwners, Owned
  <2>6. \A i \in Ids : Members(i)' \subseteq IF i = k.id THEN Members(i) \cup {u} ELSE Members(i)
    BY <2>2 DEF Members, IsMember
  <2>7. NoNewRows
    BY <1>2, <1>4, <2>6 DEF NoNewRows, HasRows
  <2>8. \A i \in Ids : RowsOK(i)'
    <3> TAKE i \in Ids
    <3>1. i = k.id /\ Life(i) # 0 => k.gen = Life(i) /\ Life(i) = gen[DirOf[i]]
      BY <1>4 DEF MakingInv, RowsOK, Life
    <3>2. i = k.id /\ Life(i) # 0 => <<Life(i), u>> \in granted'
      BY <1>4, <3>1
    <3>3. Life(i) # 0 => \A v \in Members(i)' : v \in Members(i) \/ <<Life(i), v>> \in granted'
      BY <2>6, <3>2
    <3>4. Life(i)' = Life(i) /\ granted \subseteq granted'
      BY <1>2, <1>4, SameLife
    <3>. QED BY <1>2, <2>4, <3>3, <3>4, RowsStay DEF MakingInv
  <2>9. \A x \in granted' \ granted : x[1] <= gens
    BY <1>2, <1>4, LifeTyped, MoreTyped DEF LivesOK
  <2>. QED BY <1>2, <1>4, <2>5, <2>7, <2>8, <2>9, RowsStepOK
<1>. QED BY <1>1, <1>3, <1>4 DEF Join, JoinRole, AddMember, Redeems, IsLegacy

LEMMA RemoveRows ==
    ASSUME AccessInv, MakingInv, NEW r \in Reqs, Remove(r)
    PROVE  MakingInv'
<1>1. PICK j \in Ids, w \in Users : j = req[r].id /\ w = req[r].whom
  BY Given DEF Remove, Guarded
<1>2. Answer(r) /\ UNCHANGED <<gen, gens, users, keys, settled, maker, turnedAway, granted>>
  BY DEF Remove, Guarded, past
<1>3. CASE UNCHANGED role
  <2>1. NoNewRows /\ NoNewOwners
    BY <1>2, <1>3, SameRows
  <2>2. \A i \in Ids : RowsOK(i)'
    <3> TAKE i \in Ids
    <3>. QED BY <1>2, <1>3, SameLife, SameMembers, RowsStay DEF MakingInv
  <2>. QED BY <1>2, <2>1, <2>2, RowsStepOK
<1>4. CASE Removable(j, w) /\ role' = [role EXCEPT ![j][w] = "none"]
  <2>1. role \in [Ids -> [Users -> Roles]]
    BY Typed
  <2>2. \A i \in Ids, v \in Users : IF i = j /\ v = w THEN role'[i][v] = "none" ELSE role'[i][v] = role[i][v]
    BY <1>4, <2>1
  <2>3. \A i \in Ids : Owners(i)' \subseteq Owners(i) /\ Members(i)' \subseteq Members(i)
    BY <2>2 DEF Owners, IsOwner, Members, IsMember
  <2>4. NoNewOwners
    BY <2>2 DEF NoNewOwners, Owned
  <2>5. NoNewRows
    BY <1>2, <2>3 DEF NoNewRows, HasRows
  <2>6. \A i \in Ids, v \in Users : Owners(i) \subseteq {v} /\ IsOwner(i, v) => IsOwner(i, v)'
    <3> TAKE i \in Ids, v \in Users
    <3> HAVE Owners(i) \subseteq {v} /\ IsOwner(i, v)
    <3>1. CASE i = j /\ v = w
      <4>1. Cardinality(Owners(i)) > 1
        BY <1>4, <3>1 DEF Removable
      <4>2. Owners(i) = {v}
        BY DEF Owners, IsOwner
      <4>3. Cardinality({v}) = 1
        BY FS_Singleton
      <4>. QED BY <4>1, <4>2, <4>3
    <3>2. CASE i # j \/ v # w
      BY <2>2, <3>2 DEF IsOwner
    <3>. QED BY <3>1, <3>2
  <2>7. \A i \in Ids : RowsOK(i)'
    <3> SUFFICES ASSUME NEW i \in Ids, Life(i) # 0
                 PROVE  RowsOK(i)'
      BY <1>2, SameLife DEF RowsOK
    <3>1. PICK g : g = Life(i) /\ Life(i)' = g
      BY <1>2, SameLife
    <3>2. PICK u : u = maker[g].user /\ (u # Legacy => u \in Users)
      BY <3>1, LifeUser
    <3>3. RowsOK(i)
      BY DEF MakingInv
    <3>4. u # Legacy => Owners(i)' \subseteq {u} /\ (maker[g].id = i => IsOwner(i, u)')
      BY <2>3, <2>6, <3>1, <3>2, <3>3 DEF RowsOK
    <3>5. (\A v \in Members(i)' : <<g, v>> \in granted') /\ \A k \in keys' : k.id = i => k.gen = g
      BY <1>2, <2>3, <3>1, <3>3 DEF RowsOK
    <3>. QED BY <1>2, <3>1, <3>2, <3>4, <3>5 DEF RowsOK, IsOwner
  <2>. QED BY <1>2, <2>4, <2>5, <2>7, RowsStepOK
<1>. QED BY <1>1, <1>3, <1>4 DEF Remove

(* The membership of a push. *)
LEMMA DecideRows ==
    ASSUME AccessInv, MakingInv, NEW r \in Reqs, Decide(r)
    PROVE  MakingInv'
<1>1. /\ req[r].at = "decide" /\ mu = Free /\ req[r].op # "signin"
      /\ UNCHANGED <<gen, gens, users, role, keys, feed, settled, maker, granted>>
  BY NotSigning DEF Decide, MayDecide, tables
<1>2. CASE LetIn(r) /\ UNCHANGED turnedAway
  BY <1>1, <1>2, CalmMoves DEF LetIn, Calm
<1>3. PICK i \in Ids, u \in Users, g \in Lives : i = req[r].id /\ u = req[r].user /\ g = gen[DirOf[i]]
  BY <1>1, Given
<1>4. CASE /\ ~IsMember(i, u) /\ Answer(r)
           /\ turnedAway' = IF g # 0 /\ maker[g].id = i THEN turnedAway \cup {<<g, u>>} ELSE turnedAway
  <2>1. g # 0 /\ maker[g].id = i => g \in 1 .. gens /\ (u = maker[g].user => Dead(g))
    <3> HAVE g # 0 /\ maker[g].id = i
    <3>1. g \in 1 .. gens
      BY <1>3, LifeTyped, MoreTyped DEF LivesOK
    <3>2. \A s \in Reqs : req[s].at \notin Holding
      BY <1>1, ReqsAssumption DEF AccessInv, MutexOK
    <3>3. u = maker[g].user => g \notin settled
      <4> SUFFICES ASSUME u = maker[g].user, g \in settled PROVE FALSE
        OBVIOUS
      <4>1. Life(i) = g /\ u # Legacy
        BY <1>3, UsersAssumption DEF Life
      <4>2. IsOwner(i, u)
        BY <4>1 DEF MakingInv, RowsOK
      <4>. QED BY <1>4, <4>2 DEF IsOwner, IsMember
    <3>. QED BY <3>1, <3>2, <3>3 DEF Dead
  <2>2. \A x \in turnedAway' \ turnedAway : x[1] \in 1 .. gens /\ (x[2] = maker[x[1]].user => Dead(x[1]))
    BY <1>4, <2>1
  <2>3. NoNewRows /\ NoNewOwners
    BY <1>1, SameRows
  <2>4. \A j \in Ids : RowsOK(j)'
    <3> TAKE j \in Ids
    <3>. QED BY <1>1, SameLife, SameMembers, RowsStay DEF MakingInv
  <2>. QED BY <1>1, <1>4, <2>2, <2>3, <2>4, RowsStepOK
<1>. QED BY <1>2, <1>3, <1>4 DEF Decide

-----------------------------------------------------------------------------
(* The creation, the adoption and the deletion *)

\* The request that was at a point of a creation or an adoption is further on.
LEMMA FurtherOK ==
    ASSUME AccessInv, MakingInv, NEW r \in Reqs, NEW q \in Request \cup {Idle}, Turn(r, q), Course(q),
           q.at = "idle" \/ (req[r].at # "idle" /\ q.user = req[r].user /\ q.op = req[r].op),
           q.at # "upsert", q.at \in {"adopt", "claim"} => req[r].at \in {"adopt", "claim"},
           q.at \in Holding => req[r].at \in Holding /\ q.id = req[r].id,
           UNCHANGED <<gen, gens, maker, users, turnedAway>>,
           settled' \subseteq settled \/ (req[r].at \in Holding /\ settled' \subseteq settled \cup {gen[DirOf[req[r].id]]}),
           granted \subseteq granted', \A x \in granted' \ granted : x[1] <= gens,
           Making', \A i \in Ids : RowsOK(i)', CapOK'
    PROVE  MakingInv'
<1>1. SlotsOK' /\ FirstOK'
  BY SlotsKept, FirstKept DEF MakingInv
<1>2. LivesApart'
  BY DEF MakingInv, LivesApart
<1>3. RefusedOK'
  <2>1. req'[r] = q /\ \A s \in Reqs \ {r} : req'[s] = req[s]
    BY TurnOK, Typed
  <2>2. settled' \subseteq settled \cup {gen[DirOf[req[s].id]] : s \in {x \in Reqs : req[x].at \in Holding}}
    OBVIOUS
  <2>3. \A s \in Reqs : req'[s].at \in Holding =>
           req[s].at \in Holding /\ gen'[DirOf[req'[s].id]] = gen[DirOf[req[s].id]]
    BY <2>1
  <2>4. \A g \in 1 .. gens : Dead(g) => Dead(g)'
    BY <2>2, <2>3, DeadStays
  <2>. QED BY <2>4, RefusedKept, MoreTyped DEF MakingInv
<1>4. GrantedOK'
  BY GrantedKept DEF MakingInv
<1>. QED BY <1>1, <1>2, <1>3, <1>4 DEF MakingInv, Making

\* A purge leaves no row under any id of the directory, and no other alone.
LEMMA PurgeRows ==
    ASSUME AccessInv, MakingInv, NEW r \in Reqs, req[r].at = "purge", PurgeRepo(PurgedIds(r))
    PROVE  /\ NoNewRows /\ NoNewOwners
           /\ \A i \in Ids : IF DirOf[i] = DirOf[req[r].id] THEN ~HasRows(i)'
                             ELSE role'[i] = role[i] /\ {k \in keys' : k.id = i} \subseteq keys
<1>1. PICK ids : ids = PurgedIds(r)
  OBVIOUS
<1>2. /\ role' = [i \in Ids |-> IF i \in ids THEN [u \in Users |-> "none"] ELSE role[i]]
      /\ keys' = {k \in keys : k.id \notin ids}
  BY <1>1 DEF PurgeRepo
<1>3. req[r].id \in Ids /\ req[r] \in Request
  BY HolderFields DEF Holding
<1>4. \A i \in ids : DirOf[i] = DirOf[req[r].id]
  BY <1>1, <1>3, IdsAssumption DEF PurgedIds
<1>5. \A i \in Ids : IF i \in ids THEN ~HasRows(i)' ELSE role'[i] = role[i] /\ (HasRows(i)' => HasRows(i))
  BY <1>2 DEF HasRows, Members, IsMember
<1>6. ASSUME NEW i \in Ids, DirOf[i] = DirOf[req[r].id]
      PROVE  ~HasRows(i)'
  <2>1. HasRows(i) => i \in {req[r].id, DirName[req[r].id]} \cup req[r].known
    BY <1>6 DEF MakingInv, MakingOK
  <2>2. HasRows(i) => i \in ids
    BY <1>1, <1>6, <2>1 DEF PurgedIds
  <2>. QED BY <1>5, <2>2
<1>7. NoNewRows
  BY <1>5 DEF NoNewRows
<1>8. NoNewOwners
  <2>1. \A i \in Ids, u \in Users : role'[i][u] = "owner" => role[i][u] = "owner"
    BY <1>2
  <2>. QED BY <2>1 DEF NoNewOwners, Owned
<1>9. ASSUME NEW i \in Ids, DirOf[i] # DirOf[req[r].id]
      PROVE  role'[i] = role[i] /\ {k \in keys' : k.id = i} \subseteq keys
  BY <1>2, <1>4, <1>5, <1>9
<1>. QED BY <1>6, <1>7, <1>8, <1>9

\* A life that is settled is its directory's alone.
LEMMA OtherLives ==
    ASSUME AccessInv, LivesApart, NEW d \in Dirs, NEW i \in Ids, DirOf[i] # d, UNCHANGED gen,
           settled \subseteq settled', settled' \subseteq settled \cup {gen[d]}
    PROVE  Life(i)' = Life(i)
<1>1. DirOf[i] \in Dirs
  BY DEF Dirs
<1>. QED BY <1>1 DEF Life, LivesApart

\* The same of the rows of every id, where those of the directory are seen to.
LEMMA RowsApart ==
    ASSUME AccessInv, MakingInv, NEW d \in Dirs, UNCHANGED <<gen, maker>>,
           settled \subseteq settled', settled' \subseteq settled \cup {gen[d]}, granted \subseteq granted',
           \A i \in Ids : DirOf[i] # d => role'[i] = role[i] /\ {k \in keys' : k.id = i} \subseteq keys,
           \A i \in Ids : DirOf[i] = d => RowsOK(i)'
    PROVE  \A i \in Ids : RowsOK(i)'
<1> SUFFICES ASSUME NEW i \in Ids, DirOf[i] # d PROVE RowsOK(i)'
  OBVIOUS
<1>1. Life(i)' = Life(i)
  BY OtherLives DEF MakingInv
<1>. QED BY <1>1, RowsKept DEF MakingInv

LEMMA PurgeMaking ==
    ASSUME AccessInv, MakingInv, NEW r \in Reqs, Purge(r)
    PROVE  MakingInv'
<1>1. /\ req[r].at = "purge" /\ req[r].at # "idle" /\ req[r].op # "signin" /\ req[r].at \in Holding
      /\ UNCHANGED <<gen, gens, users, maker, granted, turnedAway>>
  BY NotSigning DEF Purge, Holding
<1>2. CASE Answer(r) /\ UNCHANGED <<role, keys, feed, settled>>
  BY <1>1, <1>2, CalmMoves DEF Calm
<1>3. PICK d \in Dirs, p \in Request : p = req[r] /\ d = DirOf[p.id] /\ p.user \in Callers /\ p.id \in Ids
  BY <1>1, HolderFields
<1>4. MakingOK(p) /\ Course(p) /\ p.at = "purge" /\ p.op # "signin"
  BY <1>1, <1>3, NotSigning
<1>5. CASE /\ PurgeRepo(PurgedIds(r)) /\ IsLegacy(r) /\ settled' = settled \cup ({gen[d]} \ {0})
           /\ Answer(r) \/ GotoSeeing(r, "write")
  <2>1. PICK q \in Request \cup {Idle} : /\ Turn(r, q) /\ q.at \in {"idle", "write"}
                                         /\ q.at = "idle" \/ (q.user = req[r].user /\ q.op = req[r].op)
    BY <1>1, <1>5, SeeingTurn, AnswerTurn, Outside
  <2>2. Course(q) /\ MakingOK(q)' /\ q.at \notin Holding
    BY <1>1, <2>1 DEF Course, MakingOK, Holding
  <2>3. Making' /\ CapOK'
    BY <1>1, <1>5, <2>1, <2>2, PurgeRows, MakingKept, CapStays DEF MakingInv, Making
  <2>4. \A i \in Ids : DirOf[i] = d => RowsOK(i)'
    <3> SUFFICES ASSUME NEW i \in Ids, DirOf[i] = d, Life(i)' # 0
                 PROVE  RowsOK(i)'
      BY DEF RowsOK
    <3>1. PICK g : g = gen[d] /\ g # 0 /\ Life(i)' = g
      BY <1>1 DEF Life
    <3>2. maker[g].user = Legacy
      BY <1>1, <1>3, <1>4, <1>5, <3>1 DEF MakingOK, IsLegacy
    <3>3. Members(i)' = {} /\ \A k \in keys' : k.id # i
      BY <1>1, <1>3, <1>5, PurgeRows DEF HasRows
    <3>. QED BY <1>1, <3>1, <3>2, <3>3 DEF RowsOK
  <2>5. \A i \in Ids : RowsOK(i)'
    BY <1>1, <1>3, <1>5, <2>4, PurgeRows, RowsApart
  <2>. QED BY <1>1, <1>3, <1>5, <2>1, <2>2, <2>3, <2>5, FurtherOK
<1>6. CASE PurgeRepo(PurgedIds(r)) /\ Goto(r, "owner") /\ UNCHANGED settled
  <2>1. PICK q \in Request : Turn(r, q) /\ q.at = "owner" /\ Onward(req[r], q)
    BY <1>1, <1>6, GotoTurn DEF Steps
  <2>2. Course(q)
    BY <1>3, <1>4, <2>1 DEF Course, Onward
  <2>3. MakingOK(p)'
    BY <1>1, <1>3, <1>4, <1>6, PurgeRows, MakingStays DEF MakingInv
  <2>4. MakingOK(q)'
    <3>1. \A i \in Ids : DirOf[i] = DirOf[q.id] => ~HasRows(i)'
      BY <1>1, <1>6, <2>1, PurgeRows DEF Onward
    <3>2. q.user = p.user /\ q.id = p.id /\ p.at \in Holding
      BY <1>3, <1>4, <2>1 DEF Onward, Holding
    <3>. QED BY <2>1, <2>3, <3>1, <3>2 DEF MakingOK
  <2>5. Making' /\ CapOK'
    BY <1>1, <1>6, <2>1, <2>4, PurgeRows, MakingKept, CapStays DEF MakingInv, Making
  <2>6. \A i \in Ids : DirOf[i] = d => RowsOK(i)'
    <3>1. Life(req[r].id) = 0
      BY <1>1, HolderAlone
    <3>. QED BY <1>1, <1>3, <1>6, <3>1 DEF RowsOK, Life
  <2>7. \A i \in Ids : RowsOK(i)'
    BY <1>1, <1>3, <1>6, <2>6, PurgeRows, RowsApart
  <2>. QED BY <1>1, <1>6, <2>1, <2>2, <2>5, <2>7, FurtherOK DEF Onward
<1>. QED BY <1>1, <1>2, <1>3, <1>5, <1>6 DEF Purge, LetIn

\* An owner row under a canonical id is among the rows a creation will purge.
LEMMA CanonicalRow ==
    ASSUME OneName, NEW i \in Canonical, NEW j \in Ids, DirOf[i] = DirOf[j]
    PROVE  i = DirName[j]
<1>1. DirName[j] \in Canonical /\ DirOf[DirName[j]] = DirOf[i]
  BY IdsAssumption DEF Canonical
<1>. QED BY <1>1 DEF OneName

\* What an owner row that is added changes.
LEMMA OwnerRow ==
    ASSUME AccessInv, NEW i \in Ids, NEW u \in Users, role' = AddMember(i, u, "owner"), UNCHANGED keys
    PROVE  /\ \A j \in Ids : j # i => role'[j] = role[j] /\ (HasRows(j)' => HasRows(j))
           /\ Members(i)' \subseteq Members(i) \cup {u} /\ Owners(i)' \subseteq Owners(i) \cup {u}
           /\ ~IsMember(i, u) => IsOwner(i, u)'
           /\ \A v \in Users : v # u => Owned(v)' \subseteq Owned(v)
           /\ Owned(u)' \subseteq Owned(u) \cup {i}
<1>1. role \in [Ids -> [Users -> Roles]]
  BY Typed
<1>2. CASE IsMember(i, u)
  <2>1. UNCHANGED role
    BY <1>2 DEF AddMember
  <2>. QED BY <1>2, <2>1 DEF HasRows, Members, IsMember, Owners, IsOwner, Owned
<1>3. CASE ~IsMember(i, u)
  <2>1. role' = [role EXCEPT ![i][u] = "owner"]
    BY <1>3 DEF AddMember
  <2>2. /\ \A j \in Ids : j # i => role'[j] = role[j]
        /\ role'[i][u] = "owner" /\ \A v \in Users : v # u => role'[i][v] = role[i][v]
    BY <1>1, <2>1
  <2>3. \A j \in Ids : j # i => (HasRows(j)' => HasRows(j))
    BY <2>2 DEF HasRows, Members, IsMember
  <2>4. \A v \in Users : v # u => Owned(v)' \subseteq Owned(v)
    <3>1. \A v \in Users, j \in Ids : v # u => role'[j][v] = role[j][v]
      BY <2>2
    <3>. QED BY <3>1 DEF Owned
  <2>5. Owned(u)' \subseteq Owned(u) \cup {i}
    BY <2>2 DEF Owned
  <2>. QED BY <2>2, <2>3, <2>4, <2>5 DEF Members, IsMember, Owners, IsOwner
<1>. QED BY <1>2, <1>3

\* One more owned repository.
LEMMA OneMoreOwned ==
    ASSUME NEW u, NEW i \in Ids, Owned(u)' \subseteq Owned(u) \cup {i}
    PROVE  Cardinality(Owned(u)') <= Cardinality(Owned(u)) + 1
<1>1. PICK A, B : A = Owned(u) /\ B = Owned(u)'
  OBVIOUS
<1>2. IsFiniteSet(A) /\ IsFiniteSet(B) /\ Cardinality(A) \in Nat /\ Cardinality(B) \in Nat
  BY <1>1, OwnedFinite
<1>3. IsFiniteSet(A \cup {i}) /\ Cardinality(A \cup {i}) \in Nat /\ Cardinality(A \cup {i}) <= Cardinality(A) + 1
  BY <1>2, FS_AddElement
<1>4. Cardinality(B) <= Cardinality(A \cup {i})
  BY <1>1, <1>3, FS_Subset
<1>. QED BY <1>1, <1>2, <1>3, <1>4

\* A creation that waits or runs beside the new row will purge it too.
LEMMA BesideOwner ==
    ASSUME AccessInv, OneName, GrantedOK, NEW p, MakingOK(p), p.at \in Holding \cup {"lock"} => p.id \in Ids,
           p.at \in Holding => p.user = Legacy, p.at # "owner", NEW i \in Canonical, NEW u \in Users, role' = AddMember(i, u, "owner"),
           UNCHANGED <<gen, maker, keys>>
    PROVE  MakingOK(p)'
<1>1. ASSUME p.at \in {"lock", "purge"}, NEW j \in Ids, DirOf[j] = DirOf[p.id], HasRows(j)'
      PROVE  j \in {p.id, DirName[p.id]} \cup p.known
  <2>1. CASE j = i
    BY <1>1, <2>1, CanonicalRow DEF Holding
  <2>2. CASE j # i
    BY <1>1, <2>2, OwnerRow DEF Canonical, MakingOK
  <2>. QED BY <2>1, <2>2
<1>. QED BY <1>1 DEF MakingOK, Holding

LEMMA OwnMaking ==
    ASSUME AccessInv, MakingInv, OneName, NEW r \in Reqs, Own(r)
    PROVE  MakingInv'
<1>1. /\ req[r].at = "owner" /\ req[r].at # "idle" /\ req[r].op # "signin" /\ req[r].at \in Holding /\ mu = r
      /\ UNCHANGED <<gen, gens, users, keys, feed, maker, turnedAway>>
  BY NotSigning, HolderAlone DEF Own, Holding
<1>2. CASE Answer(r) /\ UNCHANGED <<role, settled, granted>>
  BY <1>1, <1>2, CalmMoves DEF Calm
<1>3. PICK p \in Request, i \in Ids, u \in Users, d \in Dirs, g \in Lives :
        p = req[r] /\ i = p.id /\ u = p.user /\ d = DirOf[i] /\ g = gen[d] /\ u # Legacy
  BY <1>1, Given, HolderFields, UsersAssumption
<1>4. MakingOK(p) /\ i \in Canonical /\ p.at = "owner" /\ (g # 0 => g \in 1 .. gens)
  <2>1. g # 0 => g \in 1 .. gens
    BY <1>3, MoreTyped DEF LivesOK
  <2>. QED BY <1>1, <1>3, <2>1, NotSigning DEF Course
<1>5. CASE /\ ~IsMember(i, u) /\ role' = AddMember(i, u, "owner")
           /\ settled' = IF g = 0 THEN settled ELSE settled \cup {g}
           /\ granted' = IF g = 0 THEN granted ELSE granted \cup {<<g, u>>}
           /\ Answer(r) \/ GotoSeeing(r, "write")
  <2>1. PICK q \in Request \cup {Idle} : /\ Turn(r, q) /\ q.at \in {"idle", "write"}
                                         /\ q.at = "idle" \/ (q.user = req[r].user /\ q.op = req[r].op)
    BY <1>1, <1>5, SeeingTurn, AnswerTurn, Outside
  <2>2. Course(q) /\ MakingOK(q)' /\ q.at \notin Holding
    BY <1>1, <2>1 DEF Course, MakingOK, Holding
  <2>3. req'[r] = q /\ \A s \in Reqs \ {r} : req'[s] = req[s]
    BY <2>1, TurnOK, Typed
  <2>4. Making'
    <3>1. ASSUME NEW s \in Reqs \ {r}
          PROVE  \E x : x = req'[s] /\ MakingOK(x)'
      <4>1. PICK x : x = req[s]
        OBVIOUS
      <4>2. x.at \notin Holding /\ MakingOK(x) /\ (x.at \in Holding \cup {"lock"} => x.id \in Ids)
        BY <1>1, <4>1, HolderFields DEF AccessInv, MutexOK, MakingInv
      <4>3. x.at # "owner"
        BY <4>2 DEF Holding
      <4>4. MakingOK(x)'
        BY <1>1, <1>3, <1>4, <1>5, <4>2, <4>3, BesideOwner DEF MakingInv
      <4>. QED BY <2>3, <4>1, <4>4
    <3>. QED BY <2>2, <2>3, <3>1, MakingNext
  <2>5. CapOK'
    <3> SUFFICES ASSUME NEW v \in Users
                 PROVE  Cardinality(Owned(v)') <= RepoCap \/ Exempt(v)'
      BY DEF CapOK
    <3>1. Exempt(v) => Exempt(v)'
      BY <1>1, <1>5, ExemptStays DEF MakingInv
    <3>2. CASE v # u
      <4>1. Cardinality(Owned(v)') <= Cardinality(Owned(v))
        BY <1>1, <1>3, <1>5, <3>2, OwnerRow, FewerOwned
      <4>. QED BY <3>1, <4>1, OwnedFinite, AccessBoundsAssumption DEF MakingInv, CapOK
    <3>3. CASE v = u
      <4>1. Cardinality(Owned(u)') <= Cardinality(Owned(u)) + 1
        BY <1>1, <1>3, <1>5, OwnerRow, OneMoreOwned
      <4>2. Cardinality(Owned(u)) < RepoCap \/ Exempt(u)
        BY <1>3, <1>4 DEF MakingOK, Holding
      <4>. QED BY <3>1, <3>3, <4>1, <4>2, OwnedFinite, AccessBoundsAssumption
    <3>. QED BY <3>2, <3>3
  <2>6. \A j \in Ids : DirOf[j] = d => RowsOK(j)'
    <3> SUFFICES ASSUME NEW j \in Ids, DirOf[j] = d, Life(j)' # 0
                 PROVE  RowsOK(j)'
      BY DEF RowsOK
    <3>1. g # 0 /\ Life(j)' = g /\ maker[g].user = u /\ maker[g].id = i
      <4>1. g # 0 /\ Life(j)' = g
        BY <1>1, <1>3 DEF Life
      <4>2. maker[g] = [user |-> u, id |-> i]
        BY <1>3, <1>4, <4>1 DEF MakingOK, Holding
      <4>. QED BY <4>1, <4>2
    <3>2. ~HasRows(j) /\ ~HasRows(i)
      BY <1>3, <1>4 DEF MakingOK
    <3>3. \A k \in keys' : k.id # j
      BY <1>1, <3>2 DEF HasRows
    <3>4. CASE j = i
      <4>1. Members(i)' \subseteq {u}
        BY <1>1, <1>3, <1>5, <3>2, OwnerRow DEF HasRows
      <4>2. Owners(i) = {}
        BY <3>2 DEF HasRows, Members, Owners, IsMember, IsOwner
      <4>3. Owners(i)' \subseteq {u} /\ IsOwner(i, u)'
        BY <1>1, <1>3, <1>5, <4>2, OwnerRow
      <4>4. <<g, u>> \in granted'
        BY <1>5, <3>1
      <4>. QED BY <1>1, <3>1, <3>3, <3>4, <4>1, <4>3, <4>4 DEF RowsOK, IsOwner
    <3>5. CASE j # i
      <4>1. ~HasRows(j)'
        BY <1>1, <1>3, <1>5, <3>2, <3>5, OwnerRow
      <4>2. Members(j)' = {} /\ Owners(j)' = {}
        BY <4>1 DEF HasRows, Members, Owners, IsMember, IsOwner
      <4>. QED BY <1>1, <3>1, <3>3, <3>5, <4>2 DEF RowsOK
    <3>. QED BY <3>4, <3>5
  <2>7. \A j \in Ids : RowsOK(j)'
    <3>1. \A j \in Ids : DirOf[j] # d => role'[j] = role[j] /\ {k \in keys' : k.id = j} \subseteq keys
      BY <1>1, <1>3, <1>5, OwnerRow
    <3>. QED BY <1>1, <1>3, <1>5, <2>6, <3>1, RowsApart
  <2>8. \A x \in granted' \ granted : x[1] <= gens
    BY <1>4, <1>5, MoreTyped
  <2>. QED BY <1>1, <1>3, <1>5, <2>1, <2>2, <2>4, <2>5, <2>7, <2>8, FurtherOK
<1>. QED BY <1>1, <1>2, <1>3, <1>5 DEF Own, LetIn

LEMMA ClaimMaking ==
    ASSUME AccessInv, MakingInv, OneName, NEW r \in Reqs, Claim(r)
    PROVE  MakingInv'
<1>1. /\ req[r].at = "claim" /\ req[r].at # "idle" /\ req[r].op = "signin" /\ Goto(r, "adopt")
      /\ UNCHANGED <<gen, gens, users, keys, feed, settled, maker, turnedAway>>
  BY NotSigning DEF Claim
<1>2. PICK p \in Request, i \in Ids, u \in Users, d \in Dirs, g \in Lives :
        p = req[r] /\ i = p.id /\ u = p.user /\ d = DirOf[i] /\ g = gen[d] /\ i \in Canonical
  BY <1>1, Given, LifeTyped, NotSigning DEF Course
<1>3. LegacyOnly /\ (g = 0 \/ maker[g].user = Legacy) /\ g <= gens
  <2>1. LegacyOnly
    BY <1>1 DEF MakingInv, FirstOK
  <2>. QED BY <1>2, <2>1, MoreTyped DEF LegacyOnly, LivesOK
<1>4. role' = AddMember(i, u, "owner") /\ granted' = granted \cup {<<g, u>>}
  BY <1>2, <1>3 DEF Claim
<1>5. PICK q \in Request : Turn(r, q) /\ q.at = "adopt" /\ Onward(req[r], q)
  BY <1>1, GotoTurn, Outside
<1>6. Course(q) /\ MakingOK(q)' /\ q.at \notin Holding
  BY <1>1, <1>5, NotSigning DEF Course, MakingOK, Holding, Onward
<1>7. req'[r] = q /\ \A s \in Reqs \ {r} : req'[s] = req[s]
  BY <1>5, TurnOK, Typed
<1>8. Making'
  <2>1. ASSUME NEW s \in Reqs \ {r}
        PROVE  \E x : x = req'[s] /\ MakingOK(x)'
    <3>1. PICK x : x = req[s]
      OBVIOUS
    <3>2. MakingOK(x) /\ (x.at \in Holding \cup {"lock"} => x.id \in Ids)
      BY <3>1, HolderFields DEF MakingInv
    <3>3. x.at # "idle" => x.user = Legacy
      BY <1>1, <3>1, NotSigning DEF SignsIn
    <3>4. x.at # "owner"
      BY <3>1, <3>3, Given, UsersAssumption
    <3>5. x.at \in Holding => x.user = Legacy
      BY <3>3 DEF Holding
    <3>6. MakingOK(x)'
      BY <1>1, <1>2, <1>4, <3>2, <3>4, <3>5, BesideOwner DEF MakingInv
    <3>. QED BY <1>7, <3>1, <3>6
  <2>. QED BY <1>6, <1>7, <2>1, MakingNext
<1>9. CapOK'
  <2> SUFFICES ASSUME NEW v \in Users
               PROVE  Cardinality(Owned(v)') <= RepoCap \/ Exempt(v)'
    BY DEF CapOK
  <2>1. CASE v = u
    <3>1. <<g, u>> \in granted' /\ (g = 0 \/ maker'[g].user = Legacy)
      BY <1>1, <1>3, <1>4
    <3>. QED BY <2>1, <3>1 DEF Exempt, Let
  <2>2. CASE v # u
    <3>1. Exempt(v) => Exempt(v)'
      BY <1>1, <1>4, ExemptStays DEF MakingInv
    <3>2. Cardinality(Owned(v)') <= Cardinality(Owned(v))
      BY <1>1, <1>2, <1>4, <2>2, OwnerRow, FewerOwned
    <3>. QED BY <3>1, <3>2, OwnedFinite, AccessBoundsAssumption DEF MakingInv, CapOK
  <2>. QED BY <2>1, <2>2
<1>10. \A j \in Ids : RowsOK(j)'
  <2> SUFFICES ASSUME NEW j \in Ids, Life(j) # 0
               PROVE  RowsOK(j)'
    BY <1>1, SameLife DEF RowsOK
  <2>1. Life(j)' = Life(j) /\ RowsOK(j)
    BY <1>1, SameLife DEF MakingInv
  <2>2. CASE j # i
    BY <1>1, <1>2, <1>4, <2>1, <2>2, OwnerRow, RowsKept
  <2>3. CASE j = i
    <3>1. Life(j) = g /\ g # 0 /\ maker[g].user = Legacy
      BY <1>2, <1>3, <2>3 DEF Life
    <3>2. \A v \in Members(j)' : <<g, v>> \in granted'
      BY <1>1, <1>2, <1>4, <2>1, <2>3, <3>1, OwnerRow DEF RowsOK
    <3>3. \A k \in keys' : k.id = j => k.gen = g
      BY <1>1, <2>1, <3>1 DEF RowsOK
    <3>. QED BY <1>1, <2>1, <3>1, <3>2, <3>3 DEF RowsOK
  <2>. QED BY <2>2, <2>3
<1>11. \A x \in granted' \ granted : x[1] <= gens
  BY <1>3, <1>4
<1>. QED BY <1>1, <1>4, <1>5, <1>6, <1>8, <1>9, <1>10, <1>11, FurtherOK DEF Onward

LEMMA LockMaking ==
    ASSUME AccessInv, MakingInv, NEW r \in Reqs, Lock(r)
    PROVE  MakingInv'
<1>1. /\ req[r].at = "lock" /\ req[r].at # "idle" /\ req[r].op # "signin" /\ mu = Free
      /\ UNCHANGED <<users, role, keys, feed, settled, granted, turnedAway>>
  BY NotSigning DEF Lock, MayCreate, tables
<1>2. CASE (Answer(r) \/ GotoSeeing(r, "write") \/ Goto(r, "decide")) /\ UNCHANGED <<gen, gens, maker>>
  BY <1>1, <1>2, CalmMoves DEF Calm
<1>3. PICK p \in Request, i \in Ids, u \in Callers, d \in Dirs, g \in Nat :
        p = req[r] /\ i = p.id /\ u = p.user /\ d = DirOf[i] /\ g = gens + 1
  <2>1. gens + 1 \in Nat
    BY MoreTyped DEF LivesOK
  <2>. QED BY <1>1, <2>1, HolderFields
<1>4. CASE /\ AllowRepoCreate(u) /\ gens < MaxGen /\ gens' = g /\ gen' = [gen EXCEPT ![d] = g]
           /\ maker' = [maker EXCEPT ![g] = [user |-> u, id |-> i]] /\ Goto(r, "purge")
  <2>1. PICK q \in Request : Turn(r, q) /\ q.at = "purge" /\ Onward(req[r], q)
    BY <1>1, <1>4, GotoTurn DEF Steps
  <2>2. req'[r] = q /\ \A s \in Reqs \ {r} : req'[s] = req[s]
    BY <2>1, TurnOK, Typed
  <2>3. gens \in Nat /\ g \in 1 .. MaxGen /\ g # 0 /\ g \notin 1 .. gens /\ g \notin settled
    <3>1. gens \in Nat /\ settled \subseteq 0 .. gens
      BY MoreTyped DEF LivesOK
    <3>. QED BY <1>3, <1>4, <3>1, AccessBoundsAssumption
  <2>4. /\ gen'[d] = g /\ \A e \in Dirs \ {d} : gen'[e] = gen[e]
        /\ maker'[g] = [user |-> u, id |-> i] /\ \A h \in 1 .. gens : maker'[h] = maker[h]
    <3>1. \A h \in 1 .. gens : h \in 1 .. MaxGen
      BY <1>4, <2>3, AccessBoundsAssumption
    <3>. QED BY <1>4, <2>3, <3>1, MoreTyped
  <2>5. \A e \in Dirs : gen[e] = 0 \/ gen[e] \in 1 .. gens
    BY MoreTyped DEF LivesOK
  <2>6. \A s \in Reqs : req[s].at \notin Holding
    BY <1>1, ReqsAssumption DEF AccessInv, MutexOK
  <2>7. q.user = u /\ q.id = i /\ q.op = p.op /\ q.known = p.known /\ p.at = "lock"
    BY <1>1, <1>3, <2>1 DEF Onward
  <2>8. SlotsOK'
    <3>1. Course(p)
      BY <1>1, <1>3, NotSigning
    <3>2. Course(q)
      BY <1>1, <1>3, <2>1, <2>7, <3>1 DEF Course
    <3>. QED BY <1>1, <1>3, <2>1, <2>7, <3>2, SlotsKept DEF MakingInv
  <2>9. FirstOK'
    <3>1. users = {} \/ (\E s \in Reqs : req[s].at \in {"adopt", "claim"}) => u = Legacy
      <4>1. users = {} => u = Legacy
        BY <1>1, <1>3, NotSigning DEF Enrolled
      <4>2. ASSUME NEW s \in Reqs, req[s].at \in {"adopt", "claim"}
            PROVE  u = Legacy
        <5>1. SignsIn(req[s]) /\ s # r
          BY <1>1, <4>2, NotSigning DEF SignsIn
        <5>. QED BY <1>1, <1>3, <5>1 DEF MakingInv, SlotsOK
      <4>. QED BY <4>1, <4>2
    <3>2. LegacyOnly /\ u = Legacy => LegacyOnly'
      BY <1>3, <2>4, <2>5 DEF LegacyOnly
    <3>3. \A s \in Reqs : req'[s].at \in {"adopt", "claim", "upsert"} => req'[s] = req[s]
      BY <2>1, <2>2
    <3>. QED BY <1>1, <3>1, <3>2, <3>3 DEF MakingInv, FirstOK
  <2>10. LivesApart'
    BY <2>3, <2>4, <2>5 DEF MakingInv, LivesApart
  <2>11. NoNewRows /\ NoNewOwners
    BY <1>1, SameRows
  <2>12. MakingOK(q)'
    <3>1. \A j \in Ids : DirOf[j] = DirOf[q.id] /\ HasRows(j)' => j \in {q.id, DirName[q.id]} \cup q.known
      <4>1. MakingOK(p)
        BY <1>3 DEF MakingInv
      <4>2. \A j \in Ids : DirOf[j] = DirOf[p.id] /\ HasRows(j) => j \in {p.id, DirName[p.id]} \cup p.known
        BY <2>7, <4>1 DEF MakingOK
      <4>. QED BY <1>3, <2>7, <2>11, <4>2 DEF NoNewRows
    <3>2. maker'[gen'[DirOf[q.id]]] = [user |-> q.user, id |-> q.id]
      BY <1>3, <2>4, <2>7
    <3>3. u # Legacy => Cardinality(Owned(u)') < RepoCap
      <4> HAVE u # Legacy
      <4>1. Cardinality(Owned(u)) < RepoCap
        BY <1>4 DEF AllowRepoCreate
      <4>2. Owned(u)' = Owned(u)
        BY <1>1 DEF Owned
      <4>. QED BY <4>1, <4>2
    <3>. QED BY <2>1, <2>7, <3>1, <3>2, <3>3 DEF MakingOK
  <2>13. Making'
    <3>1. ASSUME NEW s \in Reqs \ {r}
          PROVE  \E x : x = req'[s] /\ MakingOK(x)'
      <4>1. PICK x : x = req[s]
        OBVIOUS
      <4>2. MakingOK(x) /\ x.at \notin Holding
        BY <2>6, <4>1 DEF MakingInv
      <4>3. MakingOK(x)'
        BY <2>11, <4>2 DEF MakingOK, NoNewRows, Holding
      <4>. QED BY <2>2, <4>1, <4>3
    <3>. QED BY <2>2, <2>12, <3>1, MakingNext
  <2>14. \A j \in Ids : RowsOK(j)'
    <3> TAKE j \in Ids
    <3>1. DirOf[j] \in Dirs
      BY DEF Dirs
    <3>2. Life(j)' \in {Life(j), 0}
      BY <1>1, <2>3, <2>4, <3>1 DEF Life
    <3>. QED BY <1>1, <2>4, <3>2, RowsKept DEF MakingInv
  <2>15. RefusedOK'
    <3>1. \A h \in 1 .. gens : Dead(h) => Dead(h)'
      <4> TAKE h \in 1 .. gens
      <4>1. h # g
        BY <2>3
      <4>. QED BY <1>1, <1>3, <2>2, <2>4, <2>6, <2>7, <4>1 DEF Dead
    <3>2. gens <= gens' /\ gens' \in Nat
      BY <1>3, <1>4, <2>3
    <3>. QED BY <1>1, <2>4, <3>1, <3>2, RefusedKept DEF MakingInv
  <2>16. GrantedOK'
    <3>1. \A x \in granted : x[1] \in Nat /\ x[1] <= gens
      BY Typed, MoreTyped DEF MakingInv, GrantedOK
    <3>. QED BY <1>1, <1>3, <1>4, <2>3, <3>1 DEF GrantedOK
  <2>17. CapOK'
    BY <1>1, <2>4, <2>11, CapStays DEF MakingInv
  <2>. QED BY <2>8, <2>9, <2>10, <2>13, <2>14, <2>15, <2>16, <2>17 DEF MakingInv, Making
<1>. QED BY <1>1, <1>2, <1>3, <1>4 DEF Lock, LetIn

LEMMA WipeMaking ==
    ASSUME AccessInv, MakingInv, Wipe
    PROVE  MakingInv'
<1>1. UNCHANGED <<gens, users, role, keys, feed, mu, req, settled, maker, granted, turnedAway>>
  BY DEF Wipe, tables, past
<1>2. PICK d \in Dirs : gen' = [gen EXCEPT ![d] = 0]
  BY DEF Wipe
<1>3. gen'[d] = 0 /\ \A e \in Dirs \ {d} : gen'[e] = gen[e]
  BY <1>2, MoreTyped
<1>4. SlotsOK' /\ FirstOK' /\ LivesApart'
  BY <1>1, <1>3 DEF MakingInv, SlotsOK, Enrolled, FirstOK, LegacyOnly, LivesApart
<1>5. NoNewRows /\ NoNewOwners
  BY <1>1, SameRows
<1>6. Making'
  <2>1. ASSUME NEW s \in Reqs
        PROVE  \E x : x = req'[s] /\ MakingOK(x)'
    <3>1. PICK x : x = req[s]
      OBVIOUS
    <3>2. MakingOK(x) /\ (x.at \in Holding => DirOf[x.id] \in Dirs)
      BY <3>1, HolderFields DEF MakingInv
    <3>3. UNCHANGED <<role, keys, granted, maker>>
      BY <1>1
    <3>4. MakingOK(x)'
      BY <1>3, <3>2, <3>3 DEF MakingOK, HasRows, Members, IsMember, Owned, Exempt, Let, Holding
    <3>. QED BY <1>1, <3>1, <3>4
  <2>. QED BY <2>1, MakingNext
<1>7. \A i \in Ids : RowsOK(i)'
  <2> TAKE i \in Ids
  <2>1. DirOf[i] \in Dirs
    BY DEF Dirs
  <2>2. Life(i)' \in {Life(i), 0}
    BY <1>1, <1>3, <2>1 DEF Life
  <2>. QED BY <1>1, <2>2, RowsKept DEF MakingInv
<1>8. RefusedOK'
  <2>1. \A g \in 1 .. gens : Dead(g) => Dead(g)'
    <3> SUFFICES ASSUME NEW g \in 1 .. gens, Dead(g), NEW s \in Reqs, req[s].at \in Holding
                 PROVE  gen'[DirOf[req[s].id]] # g
      BY <1>1 DEF Dead
    <3>1. DirOf[req[s].id] \in Dirs /\ gen[DirOf[req[s].id]] # g /\ g # 0
      BY HolderFields, MoreTyped DEF Dead
    <3>. QED BY <1>3, <3>1
  <2>. QED BY <1>1, <2>1, RefusedKept, MoreTyped DEF MakingInv
<1>9. GrantedOK' /\ CapOK'
  BY <1>1, <1>5, GrantedKept, CapStays DEF MakingInv
<1>. QED BY <1>4, <1>6, <1>7, <1>8, <1>9 DEF MakingInv, Making

LEMMA MakingInit ==
    ASSUME OldSound, AccessInit
    PROVE  MakingInv
<1>1. PICK old \in OldRows, d \in Dirs, g \in Lives, insiders \in SUBSET Users :
        /\ d = DirOf[old.id] /\ g = old.gen
        /\ insiders = {v \in Users : \E i \in Ids : DirOf[i] = d /\ old.role[i][v] # "none"}
        /\ gen = [x \in Dirs |-> IF x = d THEN g ELSE 0]
        /\ gens = g /\ users = old.users /\ role = old.role /\ keys = old.keys
        /\ req = [r \in Reqs |-> Idle]
        /\ settled = IF g = 0 THEN {} ELSE {g}
        /\ maker = [h \in 1 .. MaxGen |-> old.maker]
        /\ granted = IF g = 0 THEN {} ELSE {g} \X insiders
        /\ turnedAway = {}
  <2>1. PICK old \in OldRows :
          /\ gen = [x \in Dirs |-> IF x = DirOf[old.id] THEN old.gen ELSE 0]
          /\ gens = old.gen /\ users = old.users /\ role = old.role /\ keys = old.keys
          /\ req = [r \in Reqs |-> Idle]
          /\ settled = IF old.gen = 0 THEN {} ELSE {old.gen}
          /\ maker = [h \in 1 .. MaxGen |-> old.maker]
          /\ granted = IF old.gen = 0 THEN {} ELSE {old.gen} \X
                {v \in Users : \E i \in Ids : DirOf[i] = DirOf[old.id] /\ old.role[i][v] # "none"}
          /\ turnedAway = {}
    BY DEF AccessInit
  <2>2. DirOf[old.id] \in Dirs /\ old.gen \in Lives
    BY OldRowsAssumption DEF Dirs
  <2>. QED BY <2>1, <2>2
<1>2. /\ \A r \in Reqs : req[r].at = "idle"
      /\ g # 0 => g \in 1 .. MaxGen /\ maker[g] = old.maker
      /\ old.role \in [Ids -> [Users -> Roles]]
  <2>1. g # 0 => g \in 1 .. MaxGen
    BY AccessBoundsAssumption DEF Lives
  <2>. QED BY <1>1, <2>1, IdleFacts, OldRowsAssumption
<1>3. SlotsOK /\ Making /\ RefusedOK
  BY <1>1, <1>2 DEF SlotsOK, Course, Enrolled, SignsIn, Making, MakingOK, RefusedOK, Holding
<1>4. FirstOK
  <2>1. users = {} => LegacyOnly
    BY <1>1, <1>2 DEF OldSound, LegacyOnly
  <2>. QED BY <1>2, <2>1 DEF FirstOK
<1>5. LivesApart
  BY <1>1 DEF LivesApart
<1>6. GrantedOK
  <2>1. g \in Nat
    BY DEF Lives
  <2>. QED BY <1>1, <2>1 DEF GrantedOK
<1>7. CapOK
  <2> SUFFICES ASSUME NEW u \in Users
               PROVE  Cardinality(Owned(u)) <= RepoCap
    BY DEF CapOK
  <2>1. Owned(u) = {i \in Ids : old.role[i][u] = "owner"}
    BY <1>1 DEF Owned
  <2>. QED BY <2>1 DEF OldSound
<1>8. \A i \in Ids : RowsOK(i)
  <2> SUFFICES ASSUME NEW i \in Ids, Life(i) # 0
               PROVE  RowsOK(i)
    BY DEF RowsOK
  <2>1. DirOf[i] \in Dirs
    BY DEF Dirs
  <2>2. DirOf[i] = d /\ Life(i) = g /\ g # 0
    BY <1>1, <2>1 DEF Life
  <2>3. \A u \in Members(i) : <<g, u>> \in granted
    BY <1>1, <2>2 DEF Members, IsMember
  <2>4. \A k \in keys : k.id = i => k.gen = g
    BY <1>1, <2>2 DEF OldSound
  <2>5. old.maker.user # Legacy =>
          /\ \A u \in Users : old.role[i][u] = "owner" => u = old.maker.user
          /\ old.maker.id = i => old.role[i][old.maker.user] = "owner"
    BY <1>1, <2>2 DEF OldSound
  <2>6. maker[g] = old.maker /\ role = old.role
    BY <1>1, <1>2, <2>2
  <2>7. maker[g].user # Legacy => Owners(i) \subseteq {maker[g].user} /\ (maker[g].id = i => IsOwner(i, maker[g].user))
    BY <2>5, <2>6 DEF Owners, IsOwner
  <2>. QED BY <2>2, <2>3, <2>4, <2>7 DEF RowsOK
<1>. QED BY <1>3, <1>4, <1>5, <1>6, <1>7, <1>8 DEF MakingInv, Making

LEMMA MakingNextOK ==
    ASSUME AccessInv, MakingInv, Sessions = "first", OneName, [AccessNext]_accessVars
    PROVE  MakingInv'
<1>1. CASE UNCHANGED accessVars
  <2>1. UNCHANGED <<gen, gens, users, role, keys, req, settled, maker, granted, turnedAway>>
    BY <1>1 DEF accessVars, tables, past
  <2>2. SlotsOK' /\ FirstOK' /\ LivesApart'
    BY <2>1 DEF MakingInv, SlotsOK, Enrolled, FirstOK, LegacyOnly, LivesApart
  <2>3. Making'
    <3>1. ASSUME NEW s \in Reqs
          PROVE  \E p : p = req'[s] /\ MakingOK(p)'
      <4>1. PICK p : p = req[s]
        OBVIOUS
      <4>2. MakingOK(p)'
        BY <2>1, <4>1, SameRows, MakingStays, HolderFields DEF MakingInv
      <4>. QED BY <2>1, <4>1, <4>2
    <3>. QED BY <3>1, MakingNext
  <2>4. \A i \in Ids : RowsOK(i)'
    BY <2>1, SameLife, SameMembers, RowsStay DEF MakingInv
  <2>5. RefusedOK' /\ GrantedOK' /\ CapOK'
    BY <2>1 DEF MakingInv, RefusedOK, Dead, GrantedOK, CapOK, Owned, Exempt, Let
  <2>. QED BY <2>2, <2>3, <2>4, <2>5 DEF MakingInv, Making
<1>2. ASSUME NEW r \in Reqs, Step(r)
      PROVE  MakingInv'
  BY <1>2, EnterCalm, ListCalm, LockMaking, PurgeMaking, OwnMaking, DecideRows, CalmSteps, MintRows, RevokeRows,
     JoinRows, RemoveRows, CountCalm, UpsertStill, AdoptCalm, ClaimMaking DEF Step
<1>. QED BY <1>1, <1>2, ArrivesCalm, ExpireRows, WipeMaking DEF AccessNext

LEMMA SoundFromInv == AccessInv /\ MakingInv => CreationSound /\ MembersAndKeysFresh
<1> SUFFICES ASSUME AccessInv, MakingInv PROVE CreationSound /\ MembersAndKeysFresh
  OBVIOUS
<1>1. OnlyMakerOwns /\ MembersAndKeysFresh
  BY DEF MakingInv, RowsOK, OnlyMakerOwns, MembersAndKeysFresh
<1>2. MakerLetIn
  BY DEF MakingInv, RefusedOK, Dead, MakerLetIn
<1>3. RepoCapHolds
  <2> SUFFICES ASSUME NEW u \in Users, Cardinality(Owned(u)) > RepoCap
               PROVE  Exempt(u)
    BY DEF RepoCapHolds, Exempt, Let
  <2>. QED BY OwnedFinite, AccessBoundsAssumption DEF MakingInv, CapOK
<1>. QED BY <1>1, <1>2, <1>3, TypeFromInv DEF CreationSound

(* However creations of one directory race with each other, with pushes,   *)
(* with joins and with a deletion: createRepoMu is free or its holder's,   *)
(* one request makes the repository and its user alone owns it, that       *)
(* user's own parallel push is let in, and nobody passes the cap           *)
(* (createRepoAsOwner, isMemberAfterCreate, enforceRepoQuota).             *)
THEOREM CreationIsSound ==
    ASSUME Orderly
    PROVE  AccessSpec => []CreationSound
<1>1. AccessInit => AccessInv /\ MakingInv
  BY InitOK, MakingInit DEF Orderly
<1>2. AccessInv /\ MakingInv /\ [AccessNext]_accessVars => (AccessInv /\ MakingInv)'
  BY NextOK, MakingNextOK DEF Orderly
<1>3. AccessInv /\ MakingInv => CreationSound
  BY SoundFromInv
<1>. QED BY <1>1, <1>2, <1>3, PTL DEF AccessSpec

(* Once a creation has succeeded, no membership and no invite key of an    *)
(* earlier life of the directory is left under any of its ids (PurgeRepo   *)
(* over the known ids, createRepoAsOwner).                                 *)
THEOREM RowsAreFresh ==
    ASSUME Orderly
    PROVE  AccessSpec => []MembersAndKeysFresh
<1>1. AccessInit => AccessInv /\ MakingInv
  BY InitOK, MakingInit DEF Orderly
<1>2. AccessInv /\ MakingInv /\ [AccessNext]_accessVars => (AccessInv /\ MakingInv)'
  BY NextOK, MakingNextOK DEF Orderly
<1>3. AccessInv /\ MakingInv => MembersAndKeysFresh
  BY SoundFromInv
<1>. QED BY <1>1, <1>2, <1>3, PTL DEF AccessSpec

-----------------------------------------------------------------------------
(* Pushes, from the decision to the write. *)

\* A request that ends up at no point of a push.
LEMMA AtOther ==
    ASSUME AccessInv, NEW r \in Reqs, Answer(r) \/ \E at \in Steps \ {"write"} : Goto(r, at), req[r].at # "idle"
    PROVE  \E q : Turn(r, q) /\ q \in Request \cup {Idle} /\ q.at # "write"
<1>1. CASE Answer(r)
  BY <1>1, AnswerTurn
<1>2. ASSUME NEW at \in Steps \ {"write"}, Goto(r, at)
      PROVE  \E q : Turn(r, q) /\ q \in Request \cup {Idle} /\ q.at # "write"
  BY <1>2, GotoTurn
<1>. QED BY <1>1, <1>2

QuietStep(r) == \/ List(r) \/ Record(r) \/ Check(r) \/ Look(r) \/ Recheck(r)
                \/ Mint(r) \/ ListKeys(r) \/ Revoke(r) \/ Join(r) \/ Remove(r)
                \/ Count(r) \/ Upsert(r) \/ Adopt(r) \/ Claim(r)

LEMMA QuietSteps ==
    ASSUME AccessInv, NEW r \in Reqs, QuietStep(r)
    PROVE  /\ UNCHANGED <<gen, gens, mu, settled, wrote>> /\ granted \subseteq granted' /\ req[r].at \notin Holding
           /\ \E q : Turn(r, q) /\ q \in Request \cup {Idle} /\ q.at # "write"
<1>1. CASE Record(r) \/ Mint(r) \/ ListKeys(r) \/ Revoke(r) \/ Join(r) \/ Remove(r)
  <2>1. Answer(r) /\ req[r].at \in {"record", "enter"}
    BY <1>1 DEF Record, Mint, ListKeys, Revoke, Join, Remove, Guarded
  <2>2. UNCHANGED <<gen, gens, mu, settled, wrote>> /\ granted \subseteq granted'
    BY <1>1 DEF Record, Mint, ListKeys, Revoke, Join, Remove, past, tables
  <2>. QED BY <2>1, <2>2, AtOther DEF Holding
<1>2. CASE Check(r) \/ Recheck(r) \/ Claim(r)
  <2>1. req[r].at \in {"enter", "recheck", "claim"} /\ (Answer(r) \/ \E at \in {"look", "record", "adopt"} : Goto(r, at))
    BY <1>2 DEF Check, Recheck, Claim
  <2>2. UNCHANGED <<gen, gens, mu, settled, wrote>> /\ granted \subseteq granted'
    BY <1>2 DEF Check, Recheck, Claim, past, tables
  <2>. QED BY <2>1, <2>2, AtOther DEF Holding, Steps
<1>3. CASE List(r)
  <2>1. PICK n : n = [req[r] EXCEPT !.at = "lock", !.known = KnownRepoIDs]
    OBVIOUS
  <2>2. req[r] \in Request /\ req[r].at = "list" /\ KnownRepoIDs \in SUBSET Ids
    <3>1. KnownRepoIDs \in SUBSET Ids
      BY Typed DEF KnownRepoIDs, Row
    <3>. QED BY <1>3, <3>1, Busy, Typed DEF List
  <2>3. n \in Request /\ n.at = "lock"
    BY <2>1, <2>2, RequestKnowing
  <2>4. Turn(r, n)
    BY <1>3, <2>1, Typed DEF List, Turn, Slots
  <2>. QED BY <1>3, <2>2, <2>3, <2>4 DEF List, Holding, past, tables
<1>4. CASE Look(r)
  <2>1. UNCHANGED <<gen, gens, mu, settled, wrote, granted>> /\ req[r].at = "look"
    BY <1>4 DEF Look
  <2>2. CASE req[r].op = "members"
    BY <1>4, <2>1, <2>2, AtOther DEF Look, Holding
  <2>3. CASE req[r].op # "members"
    <3>1. PICK n : n = Seeing(req[r], "recheck", Life(req[r].id))
      OBVIOUS
    <3>2. Life(req[r].id) \in Nat /\ req[r] \in Request /\ "recheck" \in Steps
      BY <2>1, Given, Outside DEF Lives
    <3>3. n \in Request /\ n.at = "recheck"
      BY <3>1, <3>2, RequestSeeing
    <3>4. Turn(r, n)
      BY <1>4, <2>3, <3>1, Typed DEF Look, Turn, Slots, Seeing
    <3>. QED BY <2>1, <3>3, <3>4 DEF Holding
  <2>. QED BY <2>2, <2>3
<1>5. CASE Count(r)
  <2>1. PICK n : n = Seeing(req[r], "upsert", Cardinality(users))
    OBVIOUS
  <2>2. req[r] \in Request /\ req[r].at = "enter" /\ Cardinality(users) \in Nat /\ "upsert" \in Steps
    <3>1. Cardinality(users) \in Nat
      BY UsersAssumption, Typed, FS_Subset, FS_CardinalityType
    <3>. QED BY <1>5, <3>1, Busy, Typed, Outside DEF Count
  <2>3. n \in Request /\ n.at = "upsert"
    BY <2>1, <2>2, RequestSeeing
  <2>4. Turn(r, n)
    BY <1>5, <2>1, Typed DEF Count, Turn, Slots, Seeing
  <2>. QED BY <1>5, <2>2, <2>3, <2>4 DEF Count, Holding, past, tables
<1>6. CASE Upsert(r)
  <2>1. UNCHANGED <<gen, gens, mu, settled, wrote, granted>> /\ req[r].at = "upsert" /\ req[r] \in Request
    BY <1>6, Busy, Typed DEF Upsert, past
  <2>2. CASE Answer(r)
    BY <2>1, <2>2, AtOther DEF Holding
  <2>3. CASE ~Answer(r)
    <3>1. PICK todo : todo = {i \in Canonical : Exists(i)}
      OBVIOUS
    <3>2. PICK n : n = [req[r] EXCEPT !.at = "adopt", !.todo = todo]
      OBVIOUS
    <3>3. todo \in SUBSET Ids
      BY <3>1 DEF Canonical
    <3>4. n \in Request /\ n.at = "adopt"
      BY <2>1, <3>2, <3>3, RequestTodo
    <3>5. Turn(r, n)
      BY <1>6, <2>3, <3>1, <3>2, Typed DEF Upsert, Turn, Slots
    <3>. QED BY <2>1, <3>4, <3>5 DEF Holding
  <2>. QED BY <2>2, <2>3
<1>7. CASE Adopt(r)
  <2>1. /\ UNCHANGED <<gen, gens, mu, settled, wrote, granted>> /\ req[r].at = "adopt" /\ req[r] \in Request
        /\ req[r].todo \in SUBSET Ids
    BY <1>7, Given DEF Adopt, past, tables
  <2>2. CASE Answer(r)
    BY <2>1, <2>2, AtOther DEF Holding
  <2>3. ASSUME NEW i \in req[r].todo,
               req' = IF ~RepoHasOwner(i)
                      THEN [req EXCEPT ![r].at = "claim", ![r].id = i, ![r].todo = @ \ {i}]
                      ELSE [req EXCEPT ![r].todo = @ \ {i}]
        PROVE  \E q : Turn(r, q) /\ q \in Request \cup {Idle} /\ q.at # "write"
    <3>1. PICK todo : todo = req[r].todo \ {i}
      OBVIOUS
    <3>2. PICK n : n = IF ~RepoHasOwner(i) THEN Claiming(req[r], i, todo) ELSE [req[r] EXCEPT !.todo = todo]
      OBVIOUS
    <3>3. todo \in SUBSET Ids /\ i \in Ids
      BY <2>1, <3>1
    <3>4. Turn(r, n)
      BY <2>3, <3>1, <3>2, Typed DEF Turn, Slots, Claiming
    <3>5. n \in Request /\ n.at \in {"claim", "adopt"}
      <4>1. CASE ~RepoHasOwner(i)
        <5>1. n = Claiming(req[r], i, todo)
          BY <3>2, <4>1
        <5>. QED BY <2>1, <3>3, <5>1, RequestClaiming
      <4>2. CASE RepoHasOwner(i)
        <5>1. n = [req[r] EXCEPT !.todo = todo]
          BY <3>2, <4>2
        <5>. QED BY <2>1, <3>3, <5>1, RequestTodo
      <4>. QED BY <4>1, <4>2
    <3>. QED BY <3>4, <3>5
  <2>. QED BY <1>7, <2>1, <2>2, <2>3 DEF Adopt, Holding
<1>. QED BY <1>1, <1>2, <1>3, <1>4, <1>5, <1>6, <1>7 DEF QuietStep

DeadKept == \A g \in 1 .. gens : Dead(g) => Dead(g)'

\* A step that leaves the mutex and the lives alone revives no life.
LEMMA DeadQuiet ==
    ASSUME AccessInv, AccessInv', NEW r \in Reqs, NEW q \in Request \cup {Idle}, Turn(r, q),
           UNCHANGED <<gen, gens, mu, settled>>, req[r].at \notin Holding
    PROVE  DeadKept
<1>1. req'[r] = q /\ \A s \in Reqs \ {r} : req'[s] = req[s]
  BY TurnOK, Typed
<1>2. mu' # r
  BY DEF AccessInv, MutexOK
<1>3. \A s \in Reqs : req'[s].at \in Holding => mu' = s
  BY DEF AccessInv, MutexOK
<1>4. \A s \in Reqs : req'[s].at \in Holding => s # r /\ req'[s] = req[s]
  BY <1>1, <1>2, <1>3
<1>. QED BY <1>4 DEF DeadKept, Dead

LEMMA LetIntoKept ==
    ASSUME AccessInv, NEW g, NEW u, LetInto(g, u), gens <= gens', gens' \in Nat, granted \subseteq granted', DeadKept
    PROVE  LetInto(g, u)'
<1>1. gens \in Nat /\ g \in 0 .. gens'
  BY MoreTyped DEF LetInto
<1>2. g # 0 => <<g, u>> \in granted' \/ Dead(g)'
  BY <1>1 DEF LetInto, DeadKept
<1>. QED BY <1>1, <1>2 DEF LetInto, Dead

LEMMA WritesNext ==
    ASSUME 0 \notin settled', \A s \in Reqs : \E p : p = req'[s] /\ Writer(p)',
           \A x \in wrote' : LetInto(x.decided, x.user)'
    PROVE  WritesInv'
<1>1. ASSUME NEW s \in Reqs
      PROVE  Writer(req[s])'
  <2>1. PICK p : p = req'[s] /\ Writer(p)'
    OBVIOUS
  <2>. QED BY <2>1 DEF Writer, LetInto, Dead
<1>. QED BY <1>1 DEF WritesInv, LetInto, Dead

\* A request moves.
LEMMA WritesMove ==
    ASSUME AccessInv, WritesInv, NEW r \in Reqs, NEW q \in Request \cup {Idle}, Turn(r, q), Writer(q)',
           gens <= gens', gens' \in Nat, 0 \notin settled', granted \subseteq granted', DeadKept,
           \A x \in wrote' \ wrote : LetInto(x.decided, x.user)
    PROVE  WritesInv'
<1>1. req'[r] = q /\ \A s \in Reqs \ {r} : req'[s] = req[s]
  BY TurnOK, Typed
<1>2. ASSUME NEW s \in Reqs \ {r}
      PROVE  \E p : p = req'[s] /\ Writer(p)'
  <2>1. PICK p : p = req[s] /\ Writer(p)
    BY DEF WritesInv
  <2>2. Writer(p)'
    BY <2>1, LetIntoKept DEF Writer
  <2>. QED BY <1>1, <2>1, <2>2
<1>3. ASSUME NEW x \in wrote'
      PROVE  LetInto(x.decided, x.user)'
  <2>1. LetInto(x.decided, x.user)
    BY DEF WritesInv
  <2>. QED BY <2>1, LetIntoKept
<1>. QED BY <1>1, <1>2, <1>3, WritesNext

\* A request that does not go on to write says nothing.
LEMMA NoWriter ==
    ASSUME NEW q, q.at # "write" \/ q.user = Legacy
    PROVE  Writer(q)'
BY DEF Writer

LEMMA QuietWrites ==
    ASSUME AccessInv, AccessInv', WritesInv, NEW r \in Reqs, QuietStep(r)
    PROVE  WritesInv'
<1>1. PICK q \in Request \cup {Idle} : Turn(r, q) /\ q.at # "write"
  BY QuietSteps
<1>2. UNCHANGED <<gen, gens, mu, settled, wrote>> /\ granted \subseteq granted' /\ req[r].at \notin Holding
  BY QuietSteps
<1>3. gens \in Nat /\ 0 \notin settled
  BY MoreTyped DEF WritesInv
<1>. QED BY <1>1, <1>2, <1>3, NoWriter, DeadQuiet, WritesMove

LEMMA ArrivesWrites ==
    ASSUME AccessInv, AccessInv', WritesInv, NEW r \in Reqs, Arrives(r)
    PROVE  WritesInv'
<1>1. PICK q : Turn(r, q) /\ q.at = "enter"
  <2>1. PICK t, i, k, v : Turn(r, [at |-> "enter", op |-> t[2], user |-> t[1], id |-> i, key |-> k,
                                   whom |-> v, known |-> {}, saw |-> 0, todo |-> {}])
    BY DEF Arrives, Turn
  <2>. QED BY <2>1
<1>2. req'[r] = q /\ req' \in Slots
  BY <1>1, Typed DEF Turn, Slots, AccessInv, TypeInv
<1>3. UNCHANGED <<gen, gens, mu, settled, wrote, granted>> /\ req[r].at \notin Holding
  BY Outside, IdleFacts DEF Arrives, past
<1>4. q \in Request \cup {Idle} /\ gens \in Nat /\ 0 \notin settled
  BY <1>2, MoreTyped DEF Slots, WritesInv
<1>. QED BY <1>1, <1>3, <1>4, NoWriter, DeadQuiet, WritesMove

\* A step outside a creation that nobody but the legacy key goes on to write from.
LEMMA OtherWrites ==
    ASSUME AccessInv, AccessInv', WritesInv, NEW r \in Reqs, req[r].at # "idle", req[r].at \notin Holding,
           UNCHANGED <<gen, gens, mu, settled, granted>>,
           \A x \in wrote' \ wrote : LetInto(x.decided, x.user),
           \/ Answer(r) \/ Goto(r, "list") \/ Goto(r, "decide")
           \/ GotoSeeing(r, "record") \/ (IsLegacy(r) /\ GotoSeeing(r, "write"))
    PROVE  WritesInv'
<1>1. PICK q \in Request \cup {Idle} : Turn(r, q) /\ (q.at # "write" \/ q.user = Legacy)
  BY AnswerTurn, GotoTurn, SeeingTurn DEF Steps, IsLegacy
<1>2. gens \in Nat /\ 0 \notin settled
  BY MoreTyped DEF WritesInv
<1>. QED BY <1>1, <1>2, NoWriter, DeadQuiet, WritesMove

LEMMA DecideWrites ==
    ASSUME AccessInv, AccessInv', MakingInv, WritesInv, NEW r \in Reqs, Decide(r)
    PROVE  WritesInv'
<1>1. /\ req[r].at = "decide" /\ req[r].at # "idle" /\ req[r].at \notin Holding /\ mu = Free
      /\ UNCHANGED <<gen, gens, mu, settled, role, granted, wrote>>
  BY DEF Decide, MayDecide, Holding, tables
<1>2. PICK i \in Ids, u \in Users, g \in Lives : i = req[r].id /\ u = req[r].user /\ g = gen[DirOf[i]]
  BY <1>1, Given
<1>3. CASE Answer(r)
  BY <1>1, <1>3, OtherWrites
<1>4. CASE IsMember(i, u) /\ GotoSeeing(r, "write")
  <2>1. PICK q \in Request : Turn(r, q) /\ q.user = u /\ q.saw = g
    BY <1>1, <1>2, <1>4, SeeingTurn DEF Steps
  <2>2. LetInto(g, u)
    <3>1. g \in 0 .. gens
      BY <1>2, LifeTyped, MoreTyped DEF LivesOK
    <3>2. CASE g \in settled /\ g # 0
      <4>1. Life(i) = g /\ u \in Members(i)
        BY <1>2, <1>4, <3>2 DEF Life, Members, IsMember
      <4>2. <<g, u>> \in granted
        BY <3>2, <4>1 DEF MakingInv, RowsOK
      <4>. QED BY <3>1, <4>2 DEF LetInto
    <3>3. CASE g \notin settled
      <4>1. \A s \in Reqs : req[s].at \notin Holding
        BY <1>1, ReqsAssumption DEF AccessInv, MutexOK
      <4>. QED BY <3>1, <3>3, <4>1 DEF Dead, LetInto
    <3>. QED BY <3>1, <3>2, <3>3 DEF LetInto
  <2>3. DeadKept /\ gens \in Nat /\ 0 \notin settled
    BY <1>1, <2>1, DeadQuiet, MoreTyped DEF WritesInv
  <2>4. Writer(q)'
    BY <1>1, <2>1, <2>2, <2>3, LetIntoKept DEF Writer
  <2>. QED BY <1>1, <2>1, <2>3, <2>4, WritesMove
<1>. QED BY <1>2, <1>3, <1>4 DEF Decide, LetIn

LEMMA WriteWrites ==
    ASSUME AccessInv, AccessInv', WritesInv, NEW r \in Reqs, Write(r)
    PROVE  WritesInv'
<1>1. req[r].at = "write" /\ req[r].at # "idle" /\ req[r].at \notin Holding /\ UNCHANGED <<gen, gens, mu, settled, granted>>
  BY DEF Write, Holding
<1>2. ~IsLegacy(r) => LetInto(req[r].saw, req[r].user)
  BY <1>1 DEF WritesInv, Writer, IsLegacy
<1>3. ASSUME NEW x \in wrote' \ wrote
      PROVE  LetInto(x.decided, x.user)
  <2>1. ~IsLegacy(r) /\ x = [decided |-> req[r].saw, life |-> gen[DirOf[req[r].id]], user |-> req[r].user]
    BY DEF Write
  <2>. QED BY <1>2, <2>1
<1>4. Answer(r) \/ GotoSeeing(r, "record")
  BY DEF Write
<1>. QED BY <1>1, <1>3, <1>4, OtherWrites

\* A life is made where there was none: nobody was let into it yet.
LEMMA LockWrites ==
    ASSUME AccessInv, AccessInv', WritesInv, NEW r \in Reqs, Lock(r)
    PROVE  WritesInv'
<1>1. req[r].at = "lock" /\ req[r].at # "idle" /\ req[r].at \notin Holding /\ mu = Free /\ UNCHANGED <<settled, granted, wrote>>
  BY DEF Lock, MayCreate, Holding
<1>2. CASE /\ UNCHANGED <<gen, gens, mu>>
           /\ Answer(r) \/ Goto(r, "decide") \/ (IsLegacy(r) /\ GotoSeeing(r, "write"))
  BY <1>1, <1>2, OtherWrites
<1>3. PICK d \in Dirs, g \in Nat : d = DirOf[req[r].id] /\ g = gens + 1
  <2>1. gens + 1 \in Nat
    BY MoreTyped DEF LivesOK
  <2>. QED BY <1>1, <2>1, HolderFields
<1>4. CASE /\ gens < MaxGen /\ gens' = g /\ gen' = [gen EXCEPT ![d] = g] /\ Goto(r, "purge")
  <2>1. PICK q \in Request : Turn(r, q) /\ q.at = "purge" /\ q.id = req[r].id
    BY <1>1, <1>4, GotoTurn DEF Steps, Onward
  <2>2. req'[r] = q /\ \A s \in Reqs \ {r} : req'[s] = req[s]
    BY <2>1, TurnOK, Typed
  <2>3. gens \in Nat /\ g \notin 1 .. gens /\ gens <= gens' /\ gens' \in Nat /\ 0 \notin settled
    BY <1>3, <1>4, MoreTyped DEF WritesInv
  <2>4. gen'[d] = g /\ \A e \in Dirs \ {d} : gen'[e] = gen[e]
    BY <1>4, MoreTyped
  <2>5. \A s \in Reqs : req[s].at \notin Holding
    BY <1>1, ReqsAssumption DEF AccessInv, MutexOK
  <2>6. DeadKept
    <3> SUFFICES ASSUME NEW h \in 1 .. gens, Dead(h) PROVE Dead(h)'
      BY DEF DeadKept
    <3>1. h # g
      BY <2>3
    <3>. QED BY <1>1, <1>3, <2>1, <2>2, <2>4, <2>5, <3>1 DEF Dead
  <2>. QED BY <1>1, <2>1, <2>3, <2>6, NoWriter, WritesMove
<1>. QED BY <1>1, <1>2, <1>3, <1>4 DEF Lock, LetIn, UnlockExisting

\* A step of a creation, which holds the mutex.
LEMMA HolderDead ==
    ASSUME AccessInv, NEW r \in Reqs, req[r].at \in Holding, NEW q \in Request \cup {Idle}, Turn(r, q),
           q.at \in Holding => q.id = req[r].id, UNCHANGED gen,
           settled' \subseteq settled \cup {gen[DirOf[req[r].id]]}
    PROVE  DeadKept
<1>1. req'[r] = q /\ \A s \in Reqs \ {r} : req'[s] = req[s]
  BY TurnOK, Typed
<1>2. \A s \in Reqs : req'[s].at \in Holding => req[s].at \in Holding /\ gen'[DirOf[req'[s].id]] = gen[DirOf[req[s].id]]
  BY <1>1
<1>3. settled' \subseteq settled \cup {gen[DirOf[req[s].id]] : s \in {x \in Reqs : req[x].at \in Holding}}
  OBVIOUS
<1>. QED BY <1>2, <1>3, DeadStays DEF DeadKept

LEMMA PurgeWrites ==
    ASSUME AccessInv, WritesInv, NEW r \in Reqs, Purge(r)
    PROVE  WritesInv'
<1>1. /\ req[r].at = "purge" /\ req[r].at # "idle" /\ req[r].at \in Holding
      /\ UNCHANGED <<gen, gens, granted, wrote>> /\ settled' \subseteq settled \cup ({gen[DirOf[req[r].id]]} \ {0})
  BY DEF Purge, Holding
<1>2. PICK q \in Request \cup {Idle} : /\ Turn(r, q) /\ (q.at # "write" \/ q.user = Legacy)
                                       /\ q.at # "idle" => q.id = req[r].id
  <2>1. CASE Answer(r)
    BY <2>1, AnswerTurn
  <2>2. CASE IsLegacy(r) /\ GotoSeeing(r, "write")
    BY <1>1, <2>2, SeeingTurn DEF Steps, IsLegacy
  <2>3. CASE Goto(r, "owner")
    BY <1>1, <2>3, GotoTurn DEF Steps, Onward
  <2>. QED BY <2>1, <2>2, <2>3 DEF Purge, LetIn
<1>3. DeadKept
  BY <1>1, <1>2, HolderDead DEF Holding
<1>4. gens \in Nat /\ 0 \notin settled'
  BY <1>1, MoreTyped DEF WritesInv
<1>. QED BY <1>1, <1>2, <1>3, <1>4, NoWriter, WritesMove

LEMMA OwnWrites ==
    ASSUME AccessInv, WritesInv, NEW r \in Reqs, Own(r)
    PROVE  WritesInv'
<1>1. /\ req[r].at = "owner" /\ req[r].at # "idle" /\ req[r].at \in Holding
      /\ UNCHANGED <<gen, gens, wrote>> /\ settled' \subseteq settled \cup ({gen[DirOf[req[r].id]]} \ {0})
      /\ granted \subseteq granted'
  BY DEF Own, Holding
<1>2. PICK u, g : u = req[r].user /\ g = gen[DirOf[req[r].id]] /\ g \in 0 .. gens
  BY <1>1, Given, LifeTyped, MoreTyped DEF LivesOK
<1>3. PICK q \in Request \cup {Idle} :
        /\ Turn(r, q) /\ q.at \in {"idle", "write"}
        /\ q.at = "write" => q.saw = g /\ q.user = u /\ (g # 0 => <<g, u>> \in granted')
  <2>1. CASE Answer(r)
    BY <2>1, AnswerTurn
  <2>2. CASE GotoSeeing(r, "write") /\ (g # 0 => granted' = granted \cup {<<g, u>>})
    BY <1>1, <1>2, <2>2, SeeingTurn DEF Steps
  <2>. QED BY <1>2, <2>1, <2>2 DEF Own, LetIn
<1>4. Writer(q)'
  BY <1>1, <1>2, <1>3 DEF Writer, LetInto
<1>5. DeadKept
  BY <1>1, <1>3, HolderDead DEF Holding
<1>6. gens \in Nat /\ 0 \notin settled'
  BY <1>1, MoreTyped DEF WritesInv
<1>. QED BY <1>1, <1>3, <1>4, <1>5, <1>6, WritesMove

\* A deletion revives no life.
LEMMA WipeWrites ==
    ASSUME AccessInv, WritesInv, Wipe
    PROVE  WritesInv'
<1>1. UNCHANGED <<gens, req, settled, granted, wrote>> /\ gens \in Nat /\ 0 \notin settled
  BY MoreTyped DEF Wipe, past, WritesInv
<1>2. \A d \in Dirs : gen'[d] \in {gen[d], 0}
  BY MoreTyped DEF Wipe
<1>3. DeadKept
  <2> SUFFICES ASSUME NEW g \in 1 .. gens, Dead(g), NEW s \in Reqs, req[s].at \in Holding
               PROVE  gen'[DirOf[req[s].id]] # g
    BY <1>1 DEF DeadKept, Dead
  <2>1. DirOf[req[s].id] \in Dirs
    BY Given, LifeTyped, Outside
  <2>. QED BY <1>1, <1>2, <2>1 DEF Dead
<1>4. \A s \in Reqs : \E p : p = req'[s] /\ Writer(p)'
  <2> TAKE s \in Reqs
  <2>1. PICK p : p = req[s] /\ Writer(p)
    BY DEF WritesInv
  <2>2. Writer(p)'
    BY <1>1, <1>3, <2>1, LetIntoKept DEF Writer
  <2>. QED BY <1>1, <2>1, <2>2
<1>5. ASSUME NEW x \in wrote'
      PROVE  LetInto(x.decided, x.user)'
  <2>1. LetInto(x.decided, x.user)
    BY <1>1 DEF WritesInv
  <2>. QED BY <1>1, <1>3, <2>1, LetIntoKept
<1>. QED BY <1>1, <1>4, <1>5, WritesNext

LEMMA WritesNextOK ==
    ASSUME AccessInv, AccessInv', MakingInv, WritesInv, [AccessNext]_accessVars
    PROVE  WritesInv'
<1>1. CASE UNCHANGED accessVars
  BY <1>1 DEF accessVars, tables, past, WritesInv, Writer, LetInto, Dead
<1>2. CASE Expire
  BY <1>2 DEF Expire, past, WritesInv, Writer, LetInto, Dead
<1>3. ASSUME NEW r \in Reqs, Enter(r)
      PROVE  WritesInv'
  <2>1. req[r].at # "idle" /\ req[r].at \notin Holding /\ UNCHANGED <<gen, gens, mu, settled, granted, wrote>>
    BY <1>3 DEF Enter, Holding, past
  <2>2. Answer(r) \/ Goto(r, "list") \/ Goto(r, "decide") \/ (IsLegacy(r) /\ GotoSeeing(r, "write"))
    BY <1>3 DEF Enter, LetIn
  <2>. QED BY <2>1, <2>2, OtherWrites
<1>4. ASSUME NEW r \in Reqs, Step(r)
      PROVE  WritesInv'
  <2>1. CASE QuietStep(r)
    BY <2>1, QuietWrites
  <2>. QED BY <1>3, <1>4, <2>1, LockWrites, PurgeWrites, OwnWrites, DecideWrites, WriteWrites DEF Step, QuietStep
<1>. QED BY <1>1, <1>2, <1>4, ArrivesWrites, WipeWrites DEF AccessNext

(* Whoever stores a page was let into the life of the directory in which   *)
(* the push was decided, however creations, pushes, joins and deletions    *)
(* fall (requireMemberAfterCreate).                                        *)
THEOREM WritersAreMembers ==
    ASSUME Orderly
    PROVE  AccessSpec => []WrittenByMembers
<1>1. AccessInit => AccessInv /\ MakingInv
  BY InitOK, MakingInit DEF Orderly
<1>2. AccessInit => WritesInv
  <2> SUFFICES ASSUME AccessInit PROVE WritesInv
    OBVIOUS
  <2>1. wrote = {} /\ 0 \notin settled /\ \A r \in Reqs : req[r].at = "idle"
    BY IdleFacts DEF AccessInit
  <2>. QED BY <2>1 DEF WritesInv, Writer
<1>3. AccessInv /\ MakingInv /\ [AccessNext]_accessVars => (AccessInv /\ MakingInv)'
  BY NextOK, MakingNextOK DEF Orderly
<1>4. AccessInv /\ MakingInv /\ WritesInv /\ [AccessNext]_accessVars => WritesInv'
  BY NextOK, WritesNextOK
<1>5. WritesInv => WrittenByMembers
  BY DEF WritesInv, WrittenByMembers, LetInto, Dead
<1>. QED BY <1>1, <1>2, <1>3, <1>4, <1>5, PTL DEF AccessSpec
=============================================================================
