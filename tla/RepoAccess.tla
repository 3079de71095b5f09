------------------------------ MODULE RepoAccess ------------------------------
(***************************************************************************)
(* Who may use a repository: the handlers of internal/server/handler that  *)
(* create repositories, decide membership and serve invite keys, over the  *)
(* rows of internal/userstore.  Rows are kept per id, the content per      *)
(* directory: several ids may name one directory, and the rows outlive a   *)
(* directory that an operator deletes.  Every creation of a directory      *)
(* starts a new life of it, numbered by gens.                              *)
(*                                                                         *)
(* A request is a little state machine; one step is what runs between two  *)
(* points where another request can interfere, so the handlers that hold   *)
(* createRepoMu from their check to their write are one step.              *)
(***************************************************************************)
EXTENDS Naturals, FiniteSets

CONSTANTS Users,       \* people who sign in
          Legacy,      \* the bearer of the legacy key
          Reqs,        \* requests the server handles at a time
          Traffic,     \* <<caller, operation>>: who asks for what
          Ids,         \* repository ids
          DirName,     \* [Ids -> Ids], the id without the dropped characters
          DirOf,       \* [Ids -> directories], equal where the files are
          OldRows,     \* rows and users the server may start with
          RepoCap,     \* the hosted policy's cap on owned repositories
          MemberCap,   \* and on the members of one
          Faults,      \* which store calls may fail
          Sessions,    \* "any": sign-ins at any time, "first": only when alone
          MaxGen,      \* bound on the lives of directories
          MaxReqs      \* bound on the requests of a behaviour

ASSUME IdsAssumption == /\ DirName \in [Ids -> Ids]
                        /\ \A i \in Ids : /\ DirName[DirName[i]] = DirName[i]
                                          /\ DirOf[DirName[i]] = DirOf[i]
                        /\ IsFiniteSet(Ids)
ASSUME TrafficAssumption == Traffic \subseteq (Users \cup {Legacy}) \X
    {"create", "push", "init", "read", "pull", "members", "mint", "keys", "revoke", "join", "remove", "signin"}
ASSUME UsersAssumption == IsFiniteSet(Users) /\ Users # {} /\ Legacy \notin Users
ASSUME AccessBoundsAssumption == MaxGen \in Nat \ {0} /\ MaxReqs \in Nat /\ RepoCap \in Nat

VARIABLES gen,      \* the life of each directory, 0 when there is none
          gens,     \* lives so far
          users,    \* rows of the users table
          role,     \* repo_members: role[id][user]
          keys,     \* repo_invite_keys
          feed,     \* repo_activity
          mu,       \* who holds createRepoMu
          req,      \* the request in each slot
          started,  \* how many there have been
          settled,  \* lives whose creation has succeeded
          maker,    \* who created each life, and by which id
          granted,  \* history: <<life, user>> that were let in
          seen,     \* history: <<life, user>> that were shown something
          wrote,    \* history: who stored something, let into which life
          turnedAway\* history: <<life, user>> that were refused a push

tables == <<users, role, keys, feed>>
past   == <<settled, maker, granted, seen, wrote, turnedAway>>
accessVars == <<gen, gens, tables, mu, req, started, past>>

Roles   == {"none", "member", "owner"}
Callers == Users \cup {Legacy}
Dirs    == {DirOf[i] : i \in Ids}
Lives   == 0 .. MaxGen
Key     == [id : Ids, gen : Lives, live : BOOLEAN]
Free    == "free"

ASSUME ReqsAssumption == Free \notin Reqs
ASSUME OldRowsAssumption ==
    \A old \in OldRows : /\ old.id \in Ids /\ old.gen \in Lives /\ old.users \subseteq Users
                         /\ old.role \in [Ids -> [Users -> Roles]] /\ old.keys \subseteq Key
                         /\ old.maker \in [user : Callers, id : Ids]

Idle == [at |-> "idle"]
Ops  == {t[2] : t \in Traffic}

Canonical  == {i \in Ids : DirName[i] = i}
Exists(id) == gen[DirOf[id]] # 0
(* The life a request meets under an id once its creation is complete.     *)
Life(id)   == IF gen[DirOf[id]] \in settled THEN gen[DirOf[id]] ELSE 0

Answer(r)    == req' = [req EXCEPT ![r] = Idle]
Goto(r, at)  == req' = [req EXCEPT ![r].at = at]
(* Further on, with the life of the directory that is there now. *)
GotoSeeing(r, at) == req' = [req EXCEPT ![r].at = at, ![r].saw = gen[DirOf[req[r].id]]]
IsLegacy(r)  == req[r].user = Legacy
IsMember(id, u) == role[id][u] # "none"
IsOwner(id, u)  == role[id][u] = "owner"
Members(id)  == {u \in Users : role[id][u] # "none"}
Owners(id)   == {u \in Users : role[id][u] = "owner"}
Owned(u)     == {i \in Ids : role[i][u] = "owner"}

(* requireMember and requireOwner let the legacy key pass. *)
MemberOrLegacy(r) == IsLegacy(r) \/ IsMember(req[r].id, req[r].user)
OwnerOrLegacy(r)  == IsLegacy(r) \/ IsOwner(req[r].id, req[r].user)

(* AddMemberIfAbsent: a row that is there stays as it is. *)
AddMember(id, u, what) == IF IsMember(id, u) THEN role ELSE [role EXCEPT ![id][u] = what]

(* KnownRepoIDs: every id with a row in one of the three tables.           *)
KnownRepoIDs == {i \in Ids : Members(i) # {} \/ \E k \in keys : k.id = i} \cup {f.id : f \in feed}

(* A fresh server, or one with a repository that old.maker describes. *)
AccessInit ==
    \E old \in OldRows :
        LET d == DirOf[old.id]
            insiders == {v \in Users : \E i \in Ids : DirOf[i] = d /\ old.role[i][v] # "none"}
        IN
        /\ gen = [x \in Dirs |-> IF x = d THEN old.gen ELSE 0]
        /\ gens = old.gen
        /\ users = old.users
        /\ role = old.role
        /\ keys = old.keys
        /\ feed = {}
        /\ mu = Free /\ req = [r \in Reqs |-> Idle] /\ started = 0
        /\ settled = IF old.gen = 0 THEN {} ELSE {old.gen}
        /\ maker = [g \in 1 .. MaxGen |-> old.maker]
        /\ granted = IF old.gen = 0 THEN {} ELSE {old.gen} \X insiders
        /\ seen = {} /\ wrote = {} /\ turnedAway = {}

-----------------------------------------------------------------------------
(* A request arrives.  The auth middleware has named the caller: a user    *)
(* with a row (by a session or a personal token), the legacy key, or       *)
(* somebody who is signing in.  Joining and revoking name a key.           *)
Alone(r) == \A s \in Reqs \ {r} : req[s] # Idle => IsLegacy(s)
Signing  == \E s \in Reqs : req[s] # Idle /\ req[s].op = "signin"

Admitted(r, op, u) ==
    IF op = "signin" THEN u # Legacy /\ (Sessions = "first" => Alone(r))
    ELSE u = Legacy \/ (u \in users /\ (Sessions = "first" => ~Signing))

NoKey(i) == [id |-> i, gen |-> 0, live |-> FALSE]
NoOne == CHOOSE u \in Users : TRUE

Arrives(r) ==
    /\ req[r] = Idle
    /\ started < MaxReqs
    /\ \E t \in Traffic, i \in Ids :
        LET u == t[1]
            op == t[2]
        IN
        /\ Admitted(r, op, u)
        /\ \E k \in IF op \in {"join", "revoke"} THEN keys ELSE {NoKey(i)}, v \in IF op = "remove" THEN Users ELSE {NoOne} :
            req' = [req EXCEPT ![r] = [at |-> "enter", op |-> op, user |-> u, id |-> i, key |-> k,
                                       whom |-> v, known |-> {}, saw |-> 0, todo |-> {}]]
    /\ started' = started + 1
    /\ UNCHANGED <<gen, gens, tables, mu, past>>

-----------------------------------------------------------------------------
(* Creation: POST /v1/repos, a first push, the deprecated create.          *)

Creates == {"create", "push", "init"}

(* A membership was decided, in the life there is now: a push goes on, the *)
(* others are answered.                                                    *)
LetIn(r) == IF req[r].op = "push" THEN GotoSeeing(r, "write") ELSE Answer(r)

(* The first, unlocked existence check and the refusals that come before   *)
(* it or with it: 403 legacy, 400 for an id outside repoIDPattern, 409.    *)
Enter(r) ==
    LET q == req[r] IN
    /\ q.at = "enter" /\ q.op \in Creates
    /\ \/ /\ q.op = "create" /\ (IsLegacy(r) \/ q.id \notin Canonical \/ Exists(q.id))
          /\ Answer(r)
       \/ /\ q.op # "create" /\ Exists(q.id)
          /\ IF IsLegacy(r) THEN LetIn(r) ELSE Goto(r, "decide")
       \/ /\ q.op # "create" /\ ~Exists(q.id) /\ ~IsLegacy(r) /\ q.id \notin Canonical
          /\ Answer(r)
       \/ /\ ~Exists(q.id) /\ IF IsLegacy(r) THEN q.op # "create" ELSE q.id \in Canonical
          /\ Goto(r, "list")
    /\ UNCHANGED <<gen, gens, tables, mu, started, past>>

(* The known ids are listed before the lock is taken.                      *)
List(r) ==
    /\ req[r].at = "list"
    /\ req' = [req EXCEPT ![r].at = "lock", ![r].known = KnownRepoIDs]
    /\ UNCHANGED <<gen, gens, tables, mu, started, past>>

(* Variant: a creation does not take createRepoMu. *)
MayCreateUnlocked == TRUE

(* A creation waits for the one in flight. *)
MayCreate == mu = Free

(* Variant: the mutex is left locked when the repository is there by now.  *)
UnlockForgotten(r) == r

(* createRepoMu after a creation that found the repository there.          *)
UnlockExisting(r) == Free

(* enforceRepoQuota: the policy of the hosted build caps the owned repositories. *)
AllowRepoCreate(u) == u # Legacy => Cardinality(Owned(u)) < RepoCap

(* Under createRepoMu: the repository is looked for again, the quota is    *)
(* asked, git init makes the directory visible.  The mutex stays locked    *)
(* for the purge.                                                          *)
Lock(r) ==
    LET q == req[r] IN
    /\ q.at = "lock" /\ MayCreate
    /\ \/ /\ Exists(q.id)
          /\ mu' = UnlockExisting(r)
          /\ IF IsLegacy(r) THEN LetIn(r) ELSE IF q.op = "create" THEN Answer(r) ELSE Goto(r, "decide")
          /\ UNCHANGED <<gen, gens, maker>>
       \/ /\ ~Exists(q.id)
          /\ ~AllowRepoCreate(q.user) \/ "create" \in Faults
          /\ Answer(r)
          /\ UNCHANGED <<gen, gens, mu, maker>>
       \/ /\ ~Exists(q.id)
          /\ AllowRepoCreate(q.user)
          /\ gens < MaxGen
          /\ gens' = gens + 1
          /\ gen' = [gen EXCEPT ![DirOf[q.id]] = gens + 1]
          /\ maker' = [maker EXCEPT ![gens + 1] = [user |-> q.user, id |-> q.id]]
          /\ mu' = r
          /\ Goto(r, "purge")
    /\ UNCHANGED <<tables, started, settled, granted, seen, wrote, turnedAway>>

(* Variant: only the rows of the id itself are purged.                     *)
PurgedIdOnly(r) == {req[r].id}

(* The ids whose rows are purged: the id created and the known ids of the  *)
(* same directory.  A legacy client creates any id, so the directory's own *)
(* name is purged too.                                                     *)
PurgedIds(r) == LET q == req[r]
                IN  {q.id, DirName[q.id]} \cup {i \in q.known : DirOf[i] = DirOf[q.id]}

(* Variant: the feed of the deleted repository is kept.                    *)
PurgeKeepsFeed(ids) ==
    /\ role' = [i \in Ids |-> IF i \in ids THEN [u \in Users |-> "none"] ELSE role[i]]
    /\ keys' = {k \in keys : k.id \notin ids}
    /\ feed' = feed

(* PurgeRepo: every row of the ids, in one transaction.                    *)
PurgeRepo(ids) ==
    /\ role' = [i \in Ids |-> IF i \in ids THEN [u \in Users |-> "none"] ELSE role[i]]
    /\ keys' = {k \in keys : k.id \notin ids}
    /\ feed' = {f \in feed : f.id \notin ids}

(* The creation after git init: the purge fails or it succeeds.  A legacy   *)
(* create ends here, without an owner.                                     *)
Purge(r) ==
    LET q == req[r] IN
    /\ q.at = "purge"
    /\ \/ /\ "purge" \in Faults
          /\ mu' = Free /\ Answer(r)
          /\ UNCHANGED <<role, keys, feed, settled>>
       \/ /\ PurgeRepo(PurgedIds(r))
          /\ IF IsLegacy(r)
             THEN mu' = Free /\ settled' = settled \cup ({gen[DirOf[q.id]]} \ {0}) /\ LetIn(r)
             ELSE Goto(r, "owner") /\ UNCHANGED <<mu, settled>>
    /\ UNCHANGED <<gen, gens, users, started, maker, granted, seen, wrote, turnedAway>>

(* The owner row, which this request must have inserted itself.            *)
Own(r) ==
    LET q == req[r]
        g == gen[DirOf[q.id]]
    IN
    /\ q.at = "owner"
    /\ mu' = Free
    /\ \/ /\ IsMember(q.id, q.user) \/ "owner" \in Faults
          /\ Answer(r)
          /\ UNCHANGED <<role, settled, granted>>
       \/ /\ ~IsMember(q.id, q.user)
          /\ role' = AddMember(q.id, q.user, "owner")
          /\ settled' = IF g = 0 THEN settled ELSE settled \cup {g}
          /\ granted' = IF g = 0 THEN granted ELSE granted \cup {<<g, q.user>>}
          /\ LetIn(r)
    /\ UNCHANGED <<gen, gens, users, keys, feed, started, maker, seen, wrote, turnedAway>>

(* Variant: the membership of a push is read without createRepoMu.         *)
MayDecideUnlocked == TRUE

(* isMemberAfterCreate waits for a creation in flight.                     *)
MayDecide == mu = Free

Decide(r) ==
    LET q == req[r]
        g == gen[DirOf[q.id]]
    IN
    /\ q.at = "decide" /\ MayDecide
    /\ IF IsMember(q.id, q.user)
       THEN LetIn(r) /\ UNCHANGED turnedAway
       ELSE /\ Answer(r)
            /\ turnedAway' = IF g # 0 /\ maker[g].id = q.id THEN turnedAway \cup {<<g, q.user>>} ELSE turnedAway
    /\ UNCHANGED <<gen, gens, tables, mu, started, settled, maker, granted, seen, wrote>>

(* The write of the page, then the activity row.  A conflict, a page that  *)
(* holds the bytes already and a directory that is gone write nothing.  A  *)
(* directory replaced since the decision is written to: nothing looks      *)
(* again, so q.saw may be an earlier life than g.                          *)
Write(r) ==
    LET q == req[r]
        g == gen[DirOf[q.id]]
    IN
    /\ q.at = "write"
    /\ \/ Answer(r) /\ UNCHANGED wrote
       \/ /\ g # 0
          /\ wrote' = IF IsLegacy(r) THEN wrote ELSE wrote \cup {[decided |-> q.saw, life |-> g, user |-> q.user]}
          /\ GotoSeeing(r, "record")
    /\ UNCHANGED <<gen, gens, tables, mu, started, settled, maker, granted, seen, turnedAway>>

(* The activity row says what the push wrote or the pull read, in the life *)
(* q.saw of the directory.  Nothing looks at the directory again: at is    *)
(* the life there is when the row lands.                                   *)
Record(r) ==
    LET q == req[r] IN
    /\ q.at = "record"
    /\ feed' = IF IsLegacy(r) THEN feed
               ELSE feed \cup {[id |-> q.id, user |-> q.user, gen |-> q.saw, at |-> gen[DirOf[q.id]]]}
    /\ Answer(r)
    /\ UNCHANGED <<gen, gens, users, role, keys, mu, started, past>>

-----------------------------------------------------------------------------
(* Reads: the membership check, the read, the check again, the answer.     *)

Reads == {"read", "pull", "members"}

Check(r) ==
    /\ req[r].at = "enter" /\ req[r].op \in Reads
    /\ IF MemberOrLegacy(r) THEN Goto(r, "look") ELSE Answer(r)
    /\ UNCHANGED <<gen, gens, tables, mu, started, past>>

(* The read of the repository.  The member list is answered from the one   *)
(* statement that read it, to a caller it lists.                           *)
Look(r) ==
    LET q == req[r] IN
    /\ q.at = "look"
    /\ IF q.op = "members"
       THEN /\ Answer(r)
            /\ seen' = IF Life(q.id) # 0 /\ ~IsLegacy(r) /\ IsMember(q.id, q.user)
                       THEN seen \cup {<<Life(q.id), q.user>>} ELSE seen
       ELSE /\ req' = [req EXCEPT ![r].at = "recheck", ![r].saw = Life(q.id)]
            /\ UNCHANGED seen
    /\ UNCHANGED <<gen, gens, tables, mu, started, settled, maker, granted, wrote, turnedAway>>

(* Variant: the answer is sent without a second look at the membership.    *)
StaysUnchecked(r) == TRUE

(* memberAfterRead *)
Stays(r) == MemberOrLegacy(r)

Recheck(r) ==
    LET q == req[r] IN
    /\ q.at = "recheck"
    /\ IF Stays(r) /\ q.saw # 0
       THEN /\ seen' = IF IsLegacy(r) THEN seen ELSE seen \cup {<<q.saw, q.user>>}
            /\ \/ Answer(r)
               \/ q.op = "pull" /\ Goto(r, "record")
       ELSE Answer(r) /\ UNCHANGED seen
    /\ UNCHANGED <<gen, gens, tables, mu, started, settled, maker, granted, wrote, turnedAway>>

-----------------------------------------------------------------------------
(* The invite keys and the members: check and write under createRepoMu.    *)

Guarded(r, op) == req[r].at = "enter" /\ req[r].op = op /\ mu = Free

Mint(r) ==
    LET q == req[r] IN
    /\ Guarded(r, "mint")
    /\ keys' = IF ~IsLegacy(r) /\ IsOwner(q.id, q.user)
               THEN keys \cup {[id |-> q.id, gen |-> gen[DirOf[q.id]], live |-> TRUE]} ELSE keys
    /\ Answer(r)
    /\ UNCHANGED <<gen, gens, users, role, feed, mu, started, past>>

ListKeys(r) ==
    LET q == req[r] IN
    /\ Guarded(r, "keys")
    /\ seen' = IF ~IsLegacy(r) /\ IsOwner(q.id, q.user) /\ Life(q.id) # 0
               THEN seen \cup {<<Life(q.id), q.user>>} ELSE seen
    /\ Answer(r)
    /\ UNCHANGED <<gen, gens, tables, mu, started, settled, maker, granted, wrote, turnedAway>>

Revoke(r) ==
    LET q == req[r] IN
    /\ Guarded(r, "revoke")
    /\ keys' = IF OwnerOrLegacy(r) /\ q.key.id = q.id THEN keys \ {q.key} ELSE keys
    /\ Answer(r)
    /\ UNCHANGED <<gen, gens, users, role, feed, mu, started, past>>

(* A key expires after seven days.  It stays in its table and is refused.  *)
Expire == \E k \in keys : /\ k.live
                          /\ keys' = (keys \ {k}) \cup {[k EXCEPT !.live = FALSE]}
                          /\ UNCHANGED <<gen, gens, users, role, feed, mu, req, started, past>>

(* ResolveInviteKey *)
Redeems(k) == k \in keys /\ k.live

(* AllowMemberAdd, the policy of the hosted build. *)
HasRoom(id) == Cardinality(Members(id)) < MemberCap

(* Variant: the second member of a repository joins as an owner. *)
FirstJoinOwns(id) == IF Cardinality(Members(id)) < 2 THEN "owner" ELSE "member"

(* Nobody joins as an owner. *)
JoinRole(id) == "member"

(* A member stays what they are; a new one needs a live key and room.      *)
Join(r) ==
    LET q == req[r]
        i == q.key.id
    IN
    /\ Guarded(r, "join")
    /\ IF ~IsLegacy(r) /\ Redeems(q.key) /\ ~IsMember(i, q.user) /\ HasRoom(i)
       THEN /\ role' = AddMember(i, q.user, JoinRole(i))
            /\ granted' = IF q.key.gen = gen[DirOf[i]] THEN granted \cup {<<q.key.gen, q.user>>} ELSE granted
       ELSE UNCHANGED <<role, granted>>
    /\ Answer(r)
    /\ UNCHANGED <<gen, gens, users, keys, feed, mu, started, settled, maker, seen, wrote, turnedAway>>

(* Variant: an owner may be removed whoever is left. *)
RemovableAlways(id, u) == IsMember(id, u)

(* RemoveMember: not the last owner. *)
Removable(id, u) == IsMember(id, u) /\ (IsOwner(id, u) => Cardinality(Owners(id)) > 1)

Remove(r) ==
    LET q == req[r] IN
    /\ Guarded(r, "remove")
    /\ role' = IF OwnerOrLegacy(r) /\ Removable(q.id, q.whom) THEN [role EXCEPT ![q.id][q.whom] = "none"] ELSE role
    /\ Answer(r)
    /\ UNCHANGED <<gen, gens, users, keys, feed, mu, started, past>>

-----------------------------------------------------------------------------
(* Sign-in, which does not take createRepoMu.  The first user ever adopts  *)
(* the repositories without an owner.                                      *)

Count(r) ==
    /\ req[r].at = "enter" /\ req[r].op = "signin"
    /\ req' = [req EXCEPT ![r].at = "upsert", ![r].saw = Cardinality(users)]
    /\ UNCHANGED <<gen, gens, tables, mu, started, past>>

(* A first sign-in lists the directories there are now. *)
Upsert(r) ==
    LET q == req[r] IN
    /\ q.at = "upsert"
    /\ users' = users \cup {q.user}
    /\ IF q.user \notin users /\ q.saw = 0
       THEN req' = [req EXCEPT ![r].at = "adopt", ![r].todo = {i \in Canonical : Exists(i)}]
       ELSE Answer(r)
    /\ UNCHANGED <<gen, gens, role, keys, feed, mu, started, past>>

RepoHasOwner(id) == Owners(id) # {}

(* The next directory, in any order. *)
Adopt(r) ==
    LET q == req[r] IN
    /\ q.at = "adopt"
    /\ \/ q.todo = {} /\ Answer(r)
       \/ \E i \in q.todo :
            req' = IF ~RepoHasOwner(i)
                   THEN [req EXCEPT ![r].at = "claim", ![r].id = i, ![r].todo = @ \ {i}]
                   ELSE [req EXCEPT ![r].todo = @ \ {i}]
    /\ UNCHANGED <<gen, gens, tables, mu, started, past>>

(* What is adopted is a repository that the legacy key made, or what is    *)
(* left of one that is gone by now (<<0, user>> of granted).               *)
Claim(r) ==
    LET q == req[r]
        g == gen[DirOf[q.id]]
    IN
    /\ q.at = "claim"
    /\ role' = AddMember(q.id, q.user, "owner")
    /\ granted' = IF g = 0 \/ maker[g].user = Legacy THEN granted \cup {<<g, q.user>>} ELSE granted
    /\ Goto(r, "adopt")
    /\ UNCHANGED <<gen, gens, users, keys, feed, mu, started, settled, maker, seen, wrote, turnedAway>>

-----------------------------------------------------------------------------
(* An operator deletes a directory; the rows of its ids stay.              *)
Wipe ==
    /\ \E d \in Dirs : gen[d] # 0 /\ gen' = [gen EXCEPT ![d] = 0]
    /\ gens < MaxGen
    /\ UNCHANGED <<gens, tables, mu, req, started, past>>

Step(r) == \/ Enter(r) \/ List(r) \/ Lock(r) \/ Purge(r) \/ Own(r) \/ Decide(r) \/ Write(r) \/ Record(r)
           \/ Check(r) \/ Look(r) \/ Recheck(r)
           \/ Mint(r) \/ ListKeys(r) \/ Revoke(r) \/ Join(r) \/ Remove(r)
           \/ Count(r) \/ Upsert(r) \/ Adopt(r) \/ Claim(r)

AccessNext == (\E r \in Reqs : Arrives(r) \/ Step(r)) \/ Expire \/ Wipe

AccessSpec == AccessInit /\ [][AccessNext]_accessVars

-----------------------------------------------------------------------------
Request == [at : {"enter", "list", "lock", "purge", "owner", "decide", "write", "record", "look", "recheck",
                  "upsert", "adopt", "claim"},
            op : Ops, user : Callers, id : Ids, key : Key, whom : Users, known : SUBSET Ids,
            saw : Nat, todo : SUBSET Ids]
Row     == [id : Ids, user : Users, gen : Lives, at : Lives]
Stored  == [decided : Lives, life : Lives, user : Users]

(* The types of the state; createRepoMu is held by a request between its   *)
(* git init and its last row, and by nobody else.                          *)
AccessTypeOK ==
    /\ gen \in [Dirs -> Lives] /\ gens \in Lives /\ started \in 0 .. MaxReqs
    /\ users \subseteq Users
    /\ role \in [Ids -> [Users -> Roles]]
    /\ keys \subseteq Key
    /\ feed \subseteq Row /\ wrote \subseteq Stored
    /\ req \in [Reqs -> Request \cup {Idle}]
    /\ settled \subseteq Lives
    /\ maker \in [1 .. MaxGen -> [user : Callers, id : Ids]]
    /\ granted \cup seen \cup turnedAway \subseteq Lives \X Users
    /\ mu \in Reqs \cup {Free}
    /\ \A r \in Reqs : req[r].at \in {"purge", "owner"} <=> mu = r

(* Whoever is a member of a repository whose creation has succeeded was    *)
(* let into this life of it, and whoever redeems one of its keys will be.  *)
MembersAndKeysFresh ==
    \A i \in Ids : Life(i) # 0 =>
        /\ \A u \in Members(i) : <<Life(i), u>> \in granted
        /\ \A k \in keys : k.id = i => k.gen = Life(i)

(* Once a creation has succeeded, no membership, invite key or activity    *)
(* row of an earlier life of the directory is left under any of its ids,   *)
(* and none gets there (createRepoAsOwner's steps 2 to 6, "an old member,  *)
(* invite key or activity feed cannot reach the new repo").                *)
NothingStale ==
    /\ MembersAndKeysFresh
    /\ \A i \in Ids : Life(i) # 0 => \A f \in feed : f.id = i => f.gen = Life(i)

(* Once a creation has succeeded, no membership and no invite key of an    *)
(* earlier life of the directory is left under any of its ids, and no      *)
(* activity row that was there when that life ended.  A row that a request *)
(* writes after the life it is about may be there, and may get there.      *)
OldRowsGone ==
    /\ MembersAndKeysFresh
    /\ \A i \in Ids : Life(i) # 0 => \A f \in feed : f.id = i /\ f.at = f.gen => f.gen = Life(i)

(* Nobody is shown anything of a life of a directory they were not let     *)
(* into, however their request lies across its deletion and re-creation    *)
(* (memberAfterRead, ListMembers).                                         *)
SeenByMembers == \A x \in seen : x[1] \in settled => x \in granted

(* Whoever stores a page was let into the life of the directory in which   *)
(* the push was decided (requireMemberAfterCreate, isMemberAfterCreate).   *)
(* Where that life is over by the write, and another one has begun, the    *)
(* page goes into a repository nobody has let the caller into: no handler  *)
(* asks again.                                                             *)
WrittenByMembers == \A x \in wrote : x.decided \in settled => <<x.decided, x.user>> \in granted

(* The creator's own parallel push is never refused the repository that    *)
(* the creator has just made (isMemberAfterCreate).                        *)
MakerLetIn == \A x \in turnedAway : x[1] \in settled => x[2] # maker[x[1]].user

(* Of concurrent creations only the one that made the repository owns it,  *)
(* and no other route takes ownership of a repository somebody made.       *)
OnlyMakerOwns ==
    \A i \in Ids : LET g == Life(i) IN g # 0 /\ maker[g].user # Legacy => Owners(i) \subseteq {maker[g].user}

(* Concurrent creations do not carry an account over the cap of the quota  *)
(* policy (enforceRepoQuota under createRepoMu).  Who was let into a       *)
(* repository of the legacy key, or adopted one that was gone by then, may *)
(* own it beside their own.                                                *)
RepoCapHolds == \A u \in Users :
    Cardinality(Owned(u)) > RepoCap => \E x \in granted : x[2] = u /\ (x[1] = 0 \/ maker[x[1]].user = Legacy)

(* An owned repository keeps an owner as long as its directory lives.      *)
OwnedStaysOwned ==
    [][\A i \in Ids : Life(i) # 0 /\ Life(i)' = Life(i) /\ Owners(i) # {} => Owners(i)' # {}]_accessVars

(* However creations of one directory race with each other, with pushes    *)
(* and with joins: createRepoMu is free or its holder's, one request makes *)
(* the repository and its user alone owns it, that user's own parallel     *)
(* push is let in, and nobody passes the cap.                              *)
CreationSound ==
    /\ AccessTypeOK
    /\ OnlyMakerOwns
    /\ MakerLetIn
    /\ RepoCapHolds

(* What the theorems about creation ask of a deployment: nobody signs in   *)
(* beside others before there is a user, the file system tells canonical   *)
(* ids apart, and the rows of the server that was there are in order.      *)
OneName == \A i, j \in Canonical : DirOf[i] = DirOf[j] => i = j

OldSound ==
    \A old \in OldRows :
        LET here == {i \in Ids : DirOf[i] = DirOf[old.id]}
        IN
        /\ \A u \in Users : Cardinality({i \in Ids : old.role[i][u] = "owner"}) <= RepoCap
        /\ old.gen # 0 =>
              /\ \A k \in old.keys : k.id \in here => k.gen = old.gen
              /\ old.users = {} => old.maker.user = Legacy
              /\ old.maker.user # Legacy =>
                    /\ \A i \in here, u \in Users : old.role[i][u] = "owner" => u = old.maker.user
                    /\ old.maker.id \in here => old.role[old.maker.id][old.maker.user] = "owner"

Orderly == Sessions = "first" /\ OneName /\ OldSound

(* Who is shown anything of a life of a repository was let into that life, *)
(* and who stores anything, into the life in which that was decided.       *)
LetInOnly ==
    /\ SeenByMembers
    /\ WrittenByMembers
=============================================================================
