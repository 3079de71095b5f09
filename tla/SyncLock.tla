------------------------------ MODULE SyncLock ------------------------------
(***************************************************************************)
(* The lock that makes the operations of one clone exclude each other:     *)
(* .contexo/.sync/lock of internal/syncstate/lock.go.                      *)
(*                                                                         *)
(* The lock is a file created with O_EXCL.  One that its holder left       *)
(* behind is judged stale and removed by whoever wants the lock; every     *)
(* removal happens under a second file, the guard, which may be left       *)
(* behind as well and is then renamed aside.                               *)
(*                                                                         *)
(* Time is abstracted to the limits the code has: a file may grow old, a   *)
(* lock of ten minutes (of thirty seconds while nothing is written to it)  *)
(* and a guard of five seconds.  Unless "slow" is among the faults, no     *)
(* live process takes that long between creating a file and being done     *)
(* with it.  Polling intervals and deadlines are left out: a process that  *)
(* waits may try again or give up.                                         *)
(***************************************************************************)
EXTENDS Naturals, FiniteSets

CONSTANTS Procs,    \* the processes (a process is not restarted: pids differ)
          Remote,   \* those on another machine, which see the same directory
          Ids,      \* what tells one file from another: inode and mtime
          Faults    \* what may go wrong

FaultKinds == {"crash",    \* a process ends, but not while it holds the guard
               "orphan",   \* a process ends while it holds the guard
               "slow",     \* a live process outstays the limits
               "io"}       \* a write, a remove or the taking of a guard fails

ASSUME IdsAssumption    == Ids \subseteq Nat /\ 0 \notin Ids
ASSUME ProcsAssumption  == Remote \subseteq Procs /\ Faults \subseteq FaultKinds

VARIABLES lock,    \* the file .sync/lock names
          guard,   \* the file .sync/lock.guard names
          pc,      \* where each process is
          mem      \* what each process remembers

lockVars == <<lock, guard, pc, mem>>

NoProc == "none"
Gone == [id |-> 0, by |-> NoProc, written |-> FALSE, old |-> FALSE]

ASSUME NoProcAssumption == NoProc \notin Procs

File == [id : Ids, by : Procs, written : BOOLEAN, old : BOOLEAN] \cup {Gone}
Made(i, p) == [id |-> i, by |-> p, written |-> FALSE, old |-> FALSE]

(* What the guard is wanted for; the lock file judged stale, or created;   *)
(* the id of the guard file judged stale, or created; the guard file that  *)
(* was renamed aside; which of the two tries of takeLockGuard it is.       *)
Memory == [want : {"reclaim", "unlock"}, seen : File, gid : Ids \cup {0}, aside : File, turn : {1, 2}]
Blank  == [want |-> "reclaim", seen |-> Gone, gid |-> 0, aside |-> Gone, turn |-> 1]

Taking   == {"guard", "gstat", "clear", "aside"}        \* takeLockGuard
Guarding == {"check", "remove", "release", "unguard"}   \* the guard is taken
Steps    == {"dead", "idle", "create", "write", "discard", "read", "wait", "hold",
             "lastcheck", "lastremove"} \cup Taking \cup Guarding

TypeOK == /\ lock \in File /\ guard \in File
          /\ pc \in [Procs -> Steps]
          /\ mem \in [Procs -> Memory]

LockInit == /\ lock = Gone /\ guard = Gone
            /\ pc = [p \in Procs |-> "idle"]
            /\ mem = [p \in Procs |-> Blank]

-----------------------------------------------------------------------------
Alive(p) == pc[p] # "dead"

(* A file id that nothing refers to: the least, since ids only differ.     *)
Used     == {lock.id, guard.id} \cup UNION {{mem[p].seen.id, mem[p].gid, mem[p].aside.id} : p \in Procs}
FreshId(i) == i \in Ids \ Used /\ \A j \in Ids \ Used : i <= j

Go(p, s, m) == pc' = [pc EXCEPT ![p] = s] /\ mem' = [mem EXCEPT ![p] = m]
Goto(p, s)  == Go(p, s, mem[p])

SameHost(p, q) == p \in Remote <=> q \in Remote

(* Variant: an unwritten lock file is stale at once. *)
StaleUnwritten(p, f) == f.old \/ ~f.written \/ (SameHost(p, f.by) /\ ~Alive(f.by))
(* judgeLock: a lock is stale when it is old, and once it is written also  *)
(* when its pid is known to be dead on this host.                          *)
Stale(p, f) == f.old \/ (f.written /\ SameHost(p, f.by) /\ ~Alive(f.by))

(* What a process knows of a file it read: bytes and identity.             *)
Bytes(f)   == IF f.written THEN f.by ELSE NoProc
Same(f, g) == f.id = g.id /\ f.written = g.written

(* Variant: reclaimLock compares the bytes only. *)
UnchangedBytes(p) == lock # Gone /\ Bytes(lock) = Bytes(mem[p].seen)
(* removeLockIfUnchanged: an unlock compares bytes, a reclaim the file too. *)
Unchanged(p) == /\ lock # Gone
                /\ Bytes(lock) = Bytes(mem[p].seen)
                /\ mem[p].want = "reclaim" => Same(lock, mem[p].seen)

-----------------------------------------------------------------------------
(* Lock and TryLock. *)
Request(p) == pc[p] = "idle" /\ Goto(p, "create") /\ UNCHANGED <<lock, guard>>

(* createLockFile: O_CREATE|O_EXCL, then the contents.                     *)
Create(p) ==
    /\ pc[p] = "create"
    /\ \/ /\ lock = Gone
          /\ \E i \in Ids : /\ FreshId(i)
                            /\ lock' = Made(i, p)
                            /\ Go(p, "write", [Blank EXCEPT !.seen = Made(i, p)])
       \/ lock # Gone /\ Goto(p, "read") /\ UNCHANGED lock
    /\ UNCHANGED guard

(* The contents go to the file that was created, whether or not the path   *)
(* still names it; its mtime is new.                                       *)
Write(p) ==
    /\ pc[p] = "write"
    /\ Go(p, "hold", [mem[p] EXCEPT !.seen.written = TRUE])
    /\ lock' = IF lock.id = mem[p].seen.id THEN [lock EXCEPT !.written = TRUE, !.old = FALSE] ELSE lock
    /\ UNCHANGED guard

(* The write fails: the path is removed without the guard.                 *)
WriteFails(p) == /\ "io" \in Faults
                 /\ pc[p] = "write" /\ Goto(p, "discard")
                 /\ UNCHANGED <<lock, guard>>
Discard(p) == /\ pc[p] = "discard" /\ Go(p, "idle", Blank)
              /\ lock' = Gone
              /\ UNCHANGED guard

(* readLockFile and judgeLock.  A round of acquireOnce has four attempts:  *)
(* when the file is gone, the next one or the next round creates it.       *)
Read(p) ==
    /\ pc[p] = "read"
    /\ \/ lock = Gone /\ (Goto(p, "create") \/ Goto(p, "wait"))
       \/ lock # Gone /\ ~Stale(p, lock) /\ Goto(p, "wait")
       \/ lock # Gone /\ Stale(p, lock) /\ Go(p, "guard", [Blank EXCEPT !.seen = lock])
    /\ UNCHANGED <<lock, guard>>

(* Lock polls until its deadline; TryLock does not.                        *)
Poll(p)   == pc[p] = "wait" /\ Goto(p, "create") /\ UNCHANGED <<lock, guard>>
GiveUp(p) == pc[p] = "wait" /\ Goto(p, "idle") /\ UNCHANGED <<lock, guard>>

(* The function Lock returned.                                             *)
Unlock(p) == /\ pc[p] = "hold" /\ Go(p, "guard", [mem[p] EXCEPT !.want = "unlock"])
             /\ UNCHANGED <<lock, guard>>

-----------------------------------------------------------------------------
(* takeLockGuard, then the compare-and-delete, then releaseLockGuard.      *)

(* Without the guard a reclaim is left to another poll; an unlock polls    *)
(* itself for six seconds and then does without.                           *)
NoGuard(p) ==
    LET m == [mem[p] EXCEPT !.gid = 0, !.aside = Gone, !.turn = 1]
    IN  \/ mem[p].want = "reclaim" /\ Go(p, "wait", Blank)
        \/ mem[p].want = "unlock" /\ Go(p, "guard", m)
        \/ mem[p].want = "unlock" /\ "io" \in Faults /\ Go(p, "lastcheck", m)

(* Variant: the tries are not bounded. *)
AgainUnbounded(p) == Go(p, "guard", [mem[p] EXCEPT !.gid = 0, !.aside = Gone, !.turn = @ + 1])
Again(p) == \/ mem[p].turn = 2 /\ NoGuard(p)
            \/ /\ mem[p].turn = 1
               /\ Go(p, "guard", [mem[p] EXCEPT !.gid = 0, !.aside = Gone, !.turn = 2])

Guard(p) ==
    /\ pc[p] = "guard"
    /\ \/ /\ guard = Gone
          /\ \E i \in Ids : /\ FreshId(i)
                            /\ guard' = Made(i, p)
                            /\ Go(p, "check", [mem[p] EXCEPT !.gid = i, !.turn = 1])
       \/ guard # Gone /\ Goto(p, "gstat") /\ UNCHANGED guard
    /\ UNCHANGED lock

(* Variant: a guard that was left behind stays. *)
StatGuardTrusts(p) ==
    /\ pc[p] = "gstat"
    /\ \/ guard = Gone /\ Again(p)
       \/ guard # Gone /\ NoGuard(p)
    /\ UNCHANGED <<lock, guard>>

StatGuard(p) ==
    /\ pc[p] = "gstat"
    /\ \/ guard = Gone /\ Again(p)
       \/ guard # Gone /\ ~guard.old /\ NoGuard(p)
       \/ guard # Gone /\ guard.old /\ Go(p, "clear", [mem[p] EXCEPT !.gid = guard.id])
    /\ UNCHANGED <<lock, guard>>

(* Variant: whatever is at the path is removed. *)
ClearUnseen(p) == pc[p] = "clear" /\ guard' = Gone /\ Again(p) /\ UNCHANGED lock

(* clearStaleGuard: whatever is at the path is renamed aside ...           *)
Clear(p) ==
    /\ pc[p] = "clear"
    /\ \/ guard = Gone /\ Again(p)
       \/ guard # Gone /\ Go(p, "aside", [mem[p] EXCEPT !.aside = guard])
    /\ guard' = Gone
    /\ UNCHANGED lock

(* ... and removed if it is the file that was judged, else put back by a   *)
(* hard link, unless another guard is there by now.                        *)
Aside(p) ==
    /\ pc[p] = "aside"
    /\ LET moved == mem[p].aside
       IN  \/ moved.id = mem[p].gid /\ Again(p) /\ UNCHANGED guard
           \/ /\ moved.id # mem[p].gid /\ NoGuard(p)
              /\ guard' = IF guard = Gone THEN moved ELSE guard
    /\ UNCHANGED lock

(* removeLockIfUnchanged under the guard.                                  *)
Check(p) == /\ pc[p] = "check"
            /\ Goto(p, IF Unchanged(p) THEN "remove" ELSE "release")
            /\ UNCHANGED <<lock, guard>>

Remove(p) == /\ pc[p] = "remove" /\ Goto(p, "release")
             /\ lock' = Gone \/ ("io" \in Faults /\ UNCHANGED lock)
             /\ UNCHANGED guard

Done(p) == \/ mem[p].want = "reclaim" /\ (Go(p, "create", Blank) \/ Go(p, "wait", Blank))
           \/ mem[p].want = "unlock" /\ Go(p, "idle", Blank)

(* releaseLockGuard: the guard is removed if the path names the own one.   *)
Release(p) == /\ pc[p] = "release"
              /\ IF guard.id = mem[p].gid THEN Goto(p, "unguard") ELSE Done(p)
              /\ UNCHANGED <<lock, guard>>

Unguard(p) == pc[p] = "unguard" /\ Done(p) /\ guard' = Gone /\ UNCHANGED lock

(* The unlock without the guard.                                           *)
LastCheck(p) == /\ pc[p] = "lastcheck"
                /\ IF Unchanged(p) THEN Goto(p, "lastremove") ELSE Go(p, "idle", Blank)
                /\ UNCHANGED <<lock, guard>>
LastRemove(p) == /\ pc[p] = "lastremove" /\ Go(p, "idle", Blank)
                 /\ lock' = Gone \/ ("io" \in Faults /\ UNCHANGED lock)
                 /\ UNCHANGED guard

-----------------------------------------------------------------------------
(* A process ends, another one is left.  What it renamed aside stays       *)
(* there, unread.                                                          *)
Crash(p) ==
    /\ Alive(p) /\ \E q \in Procs \ {p} : Alive(q)
    /\ (IF pc[p] \in Guarding THEN "orphan" ELSE "crash") \in Faults
    /\ Go(p, "dead", Blank)
    /\ UNCHANGED <<lock, guard>>

(* A process works on, or under, the lock file it created; it has not yet  *)
(* finished the unlock.                                                    *)
InHand(p) == \/ pc[p] \in {"write", "discard", "hold", "lastcheck", "lastremove"}
             \/ mem[p].want = "unlock" /\ pc[p] \in Taking \cup {"check", "remove"}
Using(p)  == InHand(p) \/ (mem[p].want = "unlock" /\ pc[p] \in {"release", "unguard"})

(* The process that made a guard file has yet to release it.               *)
GuardHeld(f) == f # Gone /\ pc[f.by] \in Guarding /\ mem[f.by].gid = f.id

AgeLock == /\ lock # Gone /\ ~lock.old
           /\ Using(lock.by) => "slow" \in Faults
           /\ lock' = [lock EXCEPT !.old = TRUE]
           /\ UNCHANGED <<guard, pc, mem>>

AgeGuard == /\ guard # Gone /\ ~guard.old
            /\ GuardHeld(guard) => "slow" \in Faults
            /\ guard' = [guard EXCEPT !.old = TRUE]
            /\ UNCHANGED <<lock, pc, mem>>

Work(p) == \/ Create(p) \/ Write(p) \/ Discard(p) \/ Read(p) \/ Poll(p)
           \/ Guard(p) \/ StatGuard(p) \/ Clear(p) \/ Aside(p)
           \/ Check(p) \/ Remove(p) \/ Release(p) \/ Unguard(p)
           \/ LastCheck(p) \/ LastRemove(p)

LockNext == \/ \E p \in Procs : \/ Work(p) \/ Request(p) \/ WriteFails(p) \/ GiveUp(p)
                                \/ Unlock(p) \/ Crash(p)
            \/ AgeLock \/ AgeGuard

LockSpec == LockInit /\ [][LockNext]_lockVars

(* A process that runs goes on with what it does, waiting ones poll, and   *)
(* files that are left alone grow old.  Nobody has to ask for the lock, to *)
(* release it or to keep waiting.                                          *)
Fairness == /\ \A p \in Procs : WF_lockVars(Work(p))
            /\ WF_lockVars(AgeLock) /\ WF_lockVars(AgeGuard)

FairSpec == LockSpec /\ Fairness

-----------------------------------------------------------------------------
(* At most one process is inside: lock.go 74-76, "two waiters reclaiming   *)
(* the same stale lock cannot both win, and an unlock never deletes a lock *)
(* another acquisition wrote".  It holds as long as nobody ends inside the *)
(* guard.  After that, a guard that was renamed aside by mistake cannot be *)
(* put back when another is at its path, and two processes are under one:  *)
(* with four processes Exclusion fails (MCLock_four).                      *)
Exclusion == \A p, q \in Procs : pc[p] = "hold" /\ pc[q] = "hold" => p = q

(* A lock file goes only when its own process removes it or has no more    *)
(* use for it.                                                             *)
LiveLockStays ==
    [][\A p \in Procs : lock # Gone /\ lock'.id # lock.id /\ pc'[p] # pc[p] =>
          lock.by = p \/ ~Using(lock.by)]_lockVars

(* Why, as long as no guard is left behind: the guard is its holder's, the *)
(* lock at its path is that of the process that has it in hand, and what   *)
(* was judged stale nobody has in hand.                                    *)
GuardOK == /\ guard # Gone => GuardHeld(guard) /\ ~guard.old
           /\ \A p \in Procs : /\ pc[p] \in Guarding => guard.by = p /\ guard.id = mem[p].gid
                               /\ pc[p] \notin {"clear", "aside"}

HandOK == \A p \in Procs : InHand(p) => lock.by = p /\ lock.id = mem[p].seen.id /\ ~lock.old

Judged(p) == lock # Gone /\ lock.id = mem[p].seen.id

JudgedOK == \A p \in Procs : mem[p].want = "reclaim" =>
               /\ pc[p] \in Taking \cup {"check", "remove"} /\ Judged(p) => ~InHand(lock.by)
               /\ pc[p] = "remove" => Judged(p)

LockInv == TypeOK /\ GuardOK /\ HandOK /\ JudgedOK

(* lock.go 79-81: no process deletes another's fresh guard.  A guard that  *)
(* is no longer at its path is on its way back there.                      *)
GuardStays ==
    [][\A p \in Procs : GuardHeld(guard) /\ ~guard.old /\ pc'[p] # pc[p] /\ p # guard.by =>
          \/ guard'.id = guard.id
          \/ \E q \in Procs : mem'[q].aside.id = guard.id]_lockVars

(* Whatever was left behind, a process that keeps asking for the lock does *)
(* not ask in vain: somebody gets it, or nobody wants it any more.         *)
Wants(p) == mem[p].want = "reclaim" /\ pc[p] \notin {"idle", "dead", "hold"}
LockIsReached == (\E p \in Procs : Wants(p)) ~>
                    ((\E p \in Procs : pc[p] = "hold") \/ \A p \in Procs : ~Wants(p))
=============================================================================
