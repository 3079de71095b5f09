--------------------------- MODULE SyncLockProofs ---------------------------
(***************************************************************************)
(* As long as nobody ends inside the guard or outstays the limits, the     *)
(* lock excludes: LockInv is inductive, for any number of processes, on    *)
(* any machines, ending anywhere else, with failing writes and removes.    *)
(* (README, section 6, says what happens otherwise.)                       *)
(***************************************************************************)
EXTENDS SyncLock, TLAPS

Timely == {"orphan", "slow"} \cap Faults = {}

-----------------------------------------------------------------------------
(* Types.                                                                  *)
LEMMA FileTypes ==
  /\ Gone \in File /\ Blank \in Memory
  /\ \A i \in Ids, p \in Procs : Made(i, p) \in File
  /\ \A f \in File : f # Gone <=> f.by \in Procs
  /\ \A f \in File : f.id \in Ids \cup {0}
  /\ \A f \in File : f.id = 0 => f = Gone
BY IdsAssumption, NoProcAssumption DEF Gone, Blank, Memory, File, Made

(* What NoGuard and Again leave of a process: it waits without a memory,   *)
(* or it is before the guard with what it wanted and saw.                  *)
Moved(p, s, m) ==
    \/ mem[p].want = "reclaim" /\ s = "wait" /\ m = Blank
    \/ /\ s = "guard" \/ (s = "lastcheck" /\ mem[p].want = "unlock")
       /\ m.want = mem[p].want /\ m.seen = mem[p].seen

LEMMA NoGuardMoves ==
  ASSUME TypeOK, NEW p \in Procs, NoGuard(p) \/ Again(p)
  PROVE  \E s \in Steps, m \in Memory : Go(p, s, m) /\ Moved(p, s, m)
<1>1. mem[p] \in Memory
  BY DEF TypeOK
<1>2. CASE NoGuard(p)
  <2>. DEFINE m == [mem[p] EXCEPT !.gid = 0, !.aside = Gone, !.turn = 1]
  <2>1. m \in Memory /\ m.want = mem[p].want /\ m.seen = mem[p].seen
    BY <1>1, FileTypes DEF Memory
  <2>2. \/ mem[p].want = "reclaim" /\ Go(p, "wait", Blank)
        \/ Go(p, "guard", m)
        \/ mem[p].want = "unlock" /\ Go(p, "lastcheck", m)
    BY <1>2 DEF NoGuard
  <2>. HIDE DEF m
  <2>. QED BY <2>1, <2>2, FileTypes DEF Moved, Steps, Taking
<1>3. CASE Again(p) /\ ~NoGuard(p)
  <2>. DEFINE m == [mem[p] EXCEPT !.gid = 0, !.aside = Gone, !.turn = 2]
  <2>1. m \in Memory /\ m.want = mem[p].want /\ m.seen = mem[p].seen
    BY <1>1, FileTypes DEF Memory
  <2>2. Go(p, "guard", m)
    BY <1>3 DEF Again
  <2>. HIDE DEF m
  <2>. QED BY <2>1, <2>2 DEF Moved, Steps, Taking
<1>. QED BY <1>2, <1>3

-----------------------------------------------------------------------------
(* A step of p that changes neither file keeps the invariant if it stays   *)
(* on its side of the guard, does not put a lock into its hand, and wants  *)
(* to reclaim only what nobody has in hand.                                *)
LEMMA QuietStep ==
  ASSUME LockInv, NEW p \in Procs, NEW s \in Steps, NEW m \in Memory, Go(p, s, m),
         UNCHANGED <<lock, guard>>,
         s \notin {"clear", "aside"},
         pc[p] \in Guarding <=> s \in Guarding,
         s \in Guarding => m.gid = mem[p].gid,
         InHand(p)' => InHand(p) /\ m.seen.id = mem[p].seen.id,
         s \in Taking \cup {"check", "remove"} /\ m.want = "reclaim" /\ Judged(p)' =>
            ~InHand(lock.by),
         s = "remove" /\ m.want = "reclaim" => Judged(p)'
  PROVE  LockInv'
<1>. USE DEF LockInv
<1>1. pc' = [pc EXCEPT ![p] = s] /\ mem' = [mem EXCEPT ![p] = m]
  BY DEF Go
<1>2. TypeOK'
  BY <1>1 DEF TypeOK
<1>3. pc'[p] = s /\ mem'[p] = m /\ \A q \in Procs \ {p} : pc'[q] = pc[q] /\ mem'[q] = mem[q]
  BY <1>1 DEF TypeOK
<1>4. \A q \in Procs : InHand(q)' => InHand(q) /\ mem'[q].seen.id = mem[q].seen.id
  BY <1>3 DEF InHand
<1>5. GuardOK'
  BY <1>3, FileTypes DEF GuardOK, GuardHeld, TypeOK
<1>6. HandOK'
  BY <1>4 DEF HandOK
<1>7. JudgedOK'
  BY <1>3, <1>4, FileTypes DEF JudgedOK, Judged, TypeOK
<1>. QED BY <1>2, <1>5, <1>6, <1>7

-----------------------------------------------------------------------------
(* The actions that change neither file.                                   *)
LEMMA QuietActions ==
  ASSUME LockInv, Timely, NEW p \in Procs,
         \/ Request(p) \/ WriteFails(p) \/ Read(p) \/ Poll(p) \/ GiveUp(p) \/ Unlock(p)
         \/ StatGuard(p) \/ Check(p) \/ Release(p) \/ LastCheck(p) \/ Crash(p)
  PROVE  LockInv'
<1>. USE FileTypes DEF Steps, Taking, Guarding
<1>m. mem[p] \in Memory /\ lock \in File /\ guard \in File
  BY DEF LockInv, TypeOK
<1>0. UNCHANGED <<lock, guard>>
  BY DEF Request, WriteFails, Read, Poll, GiveUp, Unlock, StatGuard, Check, Release, LastCheck, Crash
<1>1. SUFFICES \E s \in Steps, m \in Memory :
         /\ Go(p, s, m)
         /\ s \notin {"clear", "aside"}
         /\ pc[p] \in Guarding <=> s \in Guarding
         /\ s \in Guarding => m.gid = mem[p].gid
         /\ InHand(p)' => InHand(p) /\ m.seen.id = mem[p].seen.id
         /\ s \in Taking \cup {"check", "remove"} /\ m.want = "reclaim" /\ Judged(p)' =>
               ~InHand(lock.by)
         /\ s = "remove" /\ m.want = "reclaim" => Judged(p)'
  BY <1>0, QuietStep
<1>2. ASSUME NEW s \in Steps, NEW m \in Memory, Go(p, s, m)
      PROVE  pc'[p] = s /\ mem'[p] = m
  BY <1>2 DEF Go, LockInv, TypeOK
<1>3. CASE Request(p) \/ Poll(p) \/ GiveUp(p) \/ WriteFails(p)
  BY <1>3, <1>2, <1>m DEF Request, Poll, GiveUp, WriteFails, Goto, InHand, LockInv, JudgedOK
<1>4. CASE Read(p)
  <2>1. CASE Goto(p, "create") \/ Goto(p, "wait")
    BY <2>1, <1>4, <1>2, <1>m DEF Read, Goto, InHand
  <2>2. CASE lock # Gone /\ Stale(p, lock) /\ Go(p, "guard", [Blank EXCEPT !.seen = lock])
    <3>1. ~InHand(lock.by)
      BY <2>2, <1>m DEF Stale, Alive, InHand, LockInv, HandOK
    <3>. DEFINE m == [Blank EXCEPT !.seen = lock]
    <3>2. m \in Memory /\ m.want = "reclaim" /\ Go(p, "guard", m)
      BY <1>m, <2>2 DEF Blank, Memory
    <3>. HIDE DEF m
    <3>. QED BY <3>1, <3>2, <1>4, <1>2 DEF Read, InHand
  <2>. QED BY <1>4, <2>1, <2>2 DEF Read
<1>5. CASE Unlock(p)
  <2>. DEFINE m == [mem[p] EXCEPT !.want = "unlock"]
  <2>1. m \in Memory /\ m.want = "unlock" /\ m.seen = mem[p].seen /\ Go(p, "guard", m)
    BY <1>m, <1>5 DEF Memory, Unlock
  <2>. HIDE DEF m
  <2>. QED BY <2>1, <1>5, <1>2 DEF Unlock, InHand
<1>6. CASE StatGuard(p)
  <2>1. guard # Gone => ~guard.old
    BY DEF LockInv, GuardOK
  <2>2. NoGuard(p) \/ Again(p)
    BY <2>1, <1>6 DEF StatGuard
  <2>3. PICK s \in Steps, m \in Memory : Go(p, s, m) /\ Moved(p, s, m)
    BY <2>2, NoGuardMoves DEF LockInv
  <2>. QED BY <2>3, <1>0, <1>2, <1>6 DEF StatGuard, Moved, InHand, LockInv, JudgedOK, Judged
<1>7. CASE Check(p)
  BY <1>7, <1>0, <1>2, <1>m DEF Check, Goto, InHand, Unchanged, Same, LockInv, JudgedOK, Judged
<1>8. CASE Release(p)
  <2>1. guard.id = mem[p].gid
    BY <1>8 DEF Release, LockInv, GuardOK
  <2>. QED BY <2>1, <1>8, <1>2, <1>m DEF Release, Goto, InHand
<1>9. CASE LastCheck(p)
  BY <1>9, <1>2, <1>m DEF LastCheck, Goto, InHand
<1>10. CASE Crash(p)
  BY <1>10, <1>2 DEF Crash, InHand, Timely
<1>. QED BY <1>3, <1>4, <1>5, <1>6, <1>7, <1>8, <1>9, <1>10

-----------------------------------------------------------------------------
(* The lock at the path belongs to whoever has it in hand, hence to nobody *)
(* else: its process, or the holder of the guard, may remove it.           *)
LEMMA OneHand ==
  ASSUME LockInv, NEW p \in Procs, NEW q \in Procs, InHand(p), InHand(q)
  PROVE  p = q
BY DEF LockInv, HandOK

LEMMA OneGuard ==
  ASSUME LockInv, NEW p \in Procs, NEW q \in Procs, pc[p] \in Guarding, pc[q] \in Guarding
  PROVE  p = q
BY DEF LockInv, GuardOK

(* A step of p that removes the lock keeps the invariant when nobody else  *)
(* has the lock in hand.                                                   *)
LEMMA RemovingStep ==
  ASSUME LockInv, NEW p \in Procs, NEW s \in {"idle", "release"}, NEW m \in Memory, Go(p, s, m),
         s = "idle" => pc[p] \notin Guarding /\ m = Blank,
         s = "release" => pc[p] = "remove" /\ m = mem[p],
         lock' = Gone, UNCHANGED guard,
         \A q \in Procs \ {p} : ~InHand(q),
         \A q \in Procs \ {p} : pc[q] # "remove"
  PROVE  LockInv'
<1>. USE FileTypes DEF LockInv
<1>1. pc' = [pc EXCEPT ![p] = s] /\ mem' = [mem EXCEPT ![p] = m]
  BY DEF Go
<1>2. TypeOK'
  BY <1>1 DEF TypeOK, Steps, Guarding
<1>3. pc'[p] = s /\ mem'[p] = m /\ \A q \in Procs \ {p} : pc'[q] = pc[q] /\ mem'[q] = mem[q]
  BY <1>1 DEF TypeOK
<1>4. GuardOK'
  BY <1>3 DEF GuardOK, GuardHeld, TypeOK, Guarding
<1>5. HandOK'
  BY <1>3 DEF HandOK, InHand, Taking, Blank
<1>6. JudgedOK'
  BY <1>3 DEF JudgedOK, Judged
<1>. QED BY <1>2, <1>4, <1>5, <1>6

LEMMA Removals ==
  ASSUME LockInv, Timely, NEW p \in Procs, Discard(p) \/ Remove(p) \/ LastRemove(p)
  PROVE  LockInv'
<1>m. mem[p] \in Memory /\ Blank \in Memory
  BY FileTypes DEF LockInv, TypeOK
<1>1. CASE lock' = lock
  <2>1. \/ pc[p] = "remove" /\ Go(p, "release", mem[p])
        \/ pc[p] = "lastremove" /\ Go(p, "idle", Blank)
        \/ pc[p] = "discard" /\ Go(p, "idle", Blank)
    BY DEF Discard, Remove, LastRemove, Goto
  <2>2. UNCHANGED <<lock, guard>>
    BY <1>1 DEF Discard, Remove, LastRemove
  <2>3. ASSUME NEW s \in Steps, NEW m \in Memory, Go(p, s, m)
        PROVE  pc'[p] = s /\ mem'[p] = m
    BY <2>3 DEF Go, LockInv, TypeOK
  <2>4. CASE Go(p, "release", mem[p]) /\ pc[p] = "remove"
    BY <2>2, <2>3, <2>4, <1>m, QuietStep DEF InHand, Steps, Taking, Guarding
  <2>5. CASE Go(p, "idle", Blank) /\ pc[p] \in {"lastremove", "discard"}
    BY <2>2, <2>3, <2>5, <1>m, QuietStep DEF InHand, Steps, Taking, Guarding, Blank
  <2>. QED BY <2>1, <2>4, <2>5
<1>2. CASE lock' # lock
  <2>1. lock' = Gone /\ UNCHANGED guard
    BY <1>2 DEF Discard, Remove, LastRemove
  <2>2. CASE (Discard(p) \/ LastRemove(p))
    <3>1. Go(p, "idle", Blank) /\ InHand(p) /\ pc[p] \notin Guarding
      BY <2>2 DEF Discard, LastRemove, InHand, Guarding
    <3>2. \A q \in Procs \ {p} : ~InHand(q)
      BY <3>1, OneHand
    <3>3. ASSUME NEW q \in Procs \ {p}, pc[q] = "remove" PROVE FALSE
      <4>1. mem[q].want = "reclaim"
        BY <3>2, <3>3 DEF InHand, LockInv, TypeOK, Memory
      <4>2. Judged(q) /\ ~InHand(lock.by)
        BY <4>1, <3>3 DEF LockInv, JudgedOK
      <4>. QED BY <4>2, <3>1 DEF LockInv, HandOK
    <3>. QED BY <2>1, <3>1, <3>2, <3>3, <1>m, RemovingStep
  <2>3. CASE Remove(p)
    <3>1. Go(p, "release", mem[p]) /\ pc[p] = "remove" /\ pc[p] \in Guarding
      BY <2>3 DEF Remove, Goto, Guarding
    <3>2. \A q \in Procs \ {p} : pc[q] # "remove"
      BY <3>1, OneGuard DEF Guarding
    <3>3. ASSUME NEW q \in Procs \ {p}, InHand(q) PROVE FALSE
      <4>1. CASE mem[p].want = "unlock"
        BY <4>1, <3>1, <3>3, OneHand DEF InHand
      <4>2. CASE mem[p].want = "reclaim"
        BY <4>2, <3>1, <3>3 DEF LockInv, JudgedOK, HandOK
      <4>. QED BY <4>1, <4>2, <1>m DEF Memory
    <3>. QED BY <2>1, <3>1, <3>2, <3>3, <1>m, RemovingStep
  <2>. QED BY <2>2, <2>3
<1>. QED BY <1>1, <1>2

-----------------------------------------------------------------------------
(* The other actions.                                                      *)
LEMMA CreateKeeps ==
  ASSUME LockInv, NEW p \in Procs, Create(p)
  PROVE  LockInv'
<1>. USE FileTypes DEF LockInv
<1>1. CASE lock # Gone
  <2>1. mem[p] \in Memory /\ Go(p, "read", mem[p]) /\ UNCHANGED <<lock, guard>> /\ pc[p] = "create"
    BY <1>1 DEF Create, Goto, TypeOK
  <2>2. pc'[p] = "read" /\ mem'[p] = mem[p]
    BY <2>1 DEF Go, TypeOK
  <2>. QED BY <2>1, <2>2, QuietStep DEF InHand, Steps, Taking, Guarding
<1>2. CASE lock = Gone
  <2>1. PICK i \in Ids : /\ FreshId(i) /\ lock' = Made(i, p)
                         /\ Go(p, "write", [Blank EXCEPT !.seen = Made(i, p)])
    BY <1>2 DEF Create
  <2>. DEFINE m == [Blank EXCEPT !.seen = Made(i, p)]
  <2>2. m \in Memory /\ m.seen = Made(i, p) /\ m.want = "reclaim" /\ Made(i, p) \in File
    BY DEF Memory, Blank
  <2>3. pc' = [pc EXCEPT ![p] = "write"] /\ mem' = [mem EXCEPT ![p] = m] /\ UNCHANGED guard
        /\ pc[p] = "create"
    BY <2>1 DEF Go, Create
  <2>. HIDE DEF m
  <2>4. TypeOK'
    BY <2>1, <2>2, <2>3 DEF TypeOK, Steps
  <2>5. /\ pc'[p] = "write" /\ mem'[p] = m
        /\ \A q \in Procs \ {p} : pc'[q] = pc[q] /\ mem'[q] = mem[q]
    BY <2>3 DEF TypeOK
  <2>6. \A q \in Procs : mem[q].seen.id # i
    BY <2>1 DEF FreshId, Used
  <2>7. \A q \in Procs : ~InHand(q)
    BY <1>2, NoProcAssumption DEF HandOK, Gone
  <2>8. GuardOK'
    BY <2>3, <2>5 DEF GuardOK, GuardHeld, TypeOK, Guarding
  <2>9. HandOK'
    BY <2>1, <2>2, <2>5, <2>7 DEF HandOK, InHand, Made
  <2>10. JudgedOK'
    BY <2>1, <2>5, <2>6, <1>2 DEF JudgedOK, Judged, Made, Taking
  <2>. QED BY <2>4, <2>8, <2>9, <2>10
<1>. QED BY <1>1, <1>2

LEMMA WriteKeeps ==
  ASSUME LockInv, NEW p \in Procs, Write(p)
  PROVE  LockInv'
<1>. USE FileTypes DEF LockInv
<1>1. InHand(p) /\ pc[p] = "write"
  BY DEF Write, InHand
<1>2. lock \in File /\ lock # Gone /\ lock.by = p /\ lock.id = mem[p].seen.id /\ mem[p] \in Memory
  BY <1>1 DEF HandOK, TypeOK
<1>. DEFINE m == [mem[p] EXCEPT !.seen.written = TRUE]
<1>3. m \in Memory /\ m.want = mem[p].want /\ m.seen.id = mem[p].seen.id
  <2>. DEFINE f == [mem[p].seen EXCEPT !.written = TRUE]
  <2>1. mem[p].seen \in File /\ mem[p].seen # Gone
    BY <1>2, IdsAssumption DEF Memory, File, Gone
  <2>2. f \in File /\ f.id = mem[p].seen.id
    BY <2>1 DEF File
  <2>3. m = [mem[p] EXCEPT !.seen = f]
    OBVIOUS
  <2>. HIDE DEF f, m
  <2>. QED BY <1>2, <2>2, <2>3 DEF Memory
<1>4. lock' = [lock EXCEPT !.written = TRUE, !.old = FALSE] /\ UNCHANGED guard
  BY <1>2 DEF Write
<1>5. lock' \in File /\ lock'.id = lock.id /\ lock'.by = p /\ ~lock'.old
  BY <1>2, <1>4 DEF File
<1>6. pc' = [pc EXCEPT ![p] = "hold"] /\ mem' = [mem EXCEPT ![p] = m]
  BY DEF Write, Go
<1>. HIDE DEF m
<1>7. /\ pc'[p] = "hold" /\ mem'[p] = m
      /\ \A q \in Procs \ {p} : pc'[q] = pc[q] /\ mem'[q] = mem[q]
  BY <1>6 DEF TypeOK
<1>8. TypeOK'
  BY <1>3, <1>4, <1>5, <1>6 DEF TypeOK, Steps
<1>9. GuardOK'
  BY <1>1, <1>4, <1>7 DEF GuardOK, GuardHeld, TypeOK, Guarding
<1>10. HandOK'
  <2>. SUFFICES ASSUME NEW q \in Procs, InHand(q)' PROVE q = p
    BY <1>2, <1>3, <1>5, <1>7 DEF HandOK
  <2>. QED BY <1>1, <1>7, OneHand DEF InHand
<1>11. JudgedOK'
  BY <1>1, <1>2, <1>5, <1>7 DEF JudgedOK, Judged, Taking
<1>. QED BY <1>8, <1>9, <1>10, <1>11

LEMMA GuardKeeps ==
  ASSUME LockInv, NEW p \in Procs, Guard(p)
  PROVE  LockInv'
<1>. USE FileTypes DEF LockInv
<1>m. mem[p] \in Memory /\ pc[p] = "guard" /\ UNCHANGED lock
  BY DEF TypeOK, Guard
<1>1. CASE guard # Gone
  <2>1. Go(p, "gstat", mem[p]) /\ UNCHANGED guard
    BY <1>1 DEF Guard, Goto
  <2>2. pc'[p] = "gstat" /\ mem'[p] = mem[p]
    BY <2>1 DEF Go, TypeOK
  <2>. QED BY <2>1, <2>2, <1>m, QuietStep DEF InHand, Steps, Taking, Guarding, JudgedOK, Judged
<1>2. CASE guard = Gone
  <2>1. PICK i \in Ids : guard' = Made(i, p) /\ Go(p, "check", [mem[p] EXCEPT !.gid = i, !.turn = 1])
    BY <1>2 DEF Guard
  <2>. DEFINE m == [mem[p] EXCEPT !.gid = i, !.turn = 1]
  <2>2. m \in Memory /\ m.gid = i /\ m.want = mem[p].want /\ m.seen = mem[p].seen
    BY <1>m DEF Memory
  <2>3. pc' = [pc EXCEPT ![p] = "check"] /\ mem' = [mem EXCEPT ![p] = m]
    BY <2>1 DEF Go
  <2>. HIDE DEF m
  <2>4. TypeOK'
    BY <1>m, <2>1, <2>2, <2>3 DEF TypeOK, Steps, Guarding
  <2>5. /\ pc'[p] = "check" /\ mem'[p] = m
        /\ \A q \in Procs \ {p} : pc'[q] = pc[q] /\ mem'[q] = mem[q]
    BY <2>3 DEF TypeOK
  <2>6. \A q \in Procs : pc[q] \notin Guarding
    BY <1>2, NoProcAssumption DEF GuardOK, Gone
  <2>7. GuardOK'
    BY <2>1, <2>2, <2>5, <2>6 DEF GuardOK, GuardHeld, Made, Guarding
  <2>8. \A q \in Procs : InHand(q)' => InHand(q)
    BY <1>m, <2>2, <2>5 DEF InHand, Taking
  <2>9. HandOK'
    BY <1>m, <2>2, <2>5, <2>8 DEF HandOK
  <2>10. JudgedOK'
    BY <1>m, <2>2, <2>5, <2>8 DEF JudgedOK, Judged, TypeOK, Taking
  <2>. QED BY <2>4, <2>7, <2>9, <2>10
<1>. QED BY <1>1, <1>2

LEMMA UnguardKeeps ==
  ASSUME LockInv, NEW p \in Procs, Unguard(p)
  PROVE  LockInv'
<1>. USE FileTypes DEF LockInv
<1>1. PICK s \in {"create", "wait", "idle"} :
         pc' = [pc EXCEPT ![p] = s] /\ mem' = [mem EXCEPT ![p] = Blank]
  BY DEF Unguard, Done, Go
<1>2. guard' = Gone /\ UNCHANGED lock /\ pc[p] \in Guarding
  BY DEF Unguard, Guarding
<1>3. TypeOK'
  BY <1>1, <1>2 DEF TypeOK, Steps
<1>4. /\ pc'[p] = s /\ mem'[p] = Blank
      /\ \A q \in Procs \ {p} : pc'[q] = pc[q] /\ mem'[q] = mem[q]
  BY <1>1 DEF TypeOK
<1>5. GuardOK'
  BY <1>2, <1>4, OneGuard DEF GuardOK, Guarding
<1>6. \A q \in Procs : InHand(q)' => InHand(q) /\ mem'[q] = mem[q]
  BY <1>4 DEF InHand, Taking, Blank
<1>7. HandOK'
  BY <1>2, <1>6 DEF HandOK
<1>8. JudgedOK'
  BY <1>2, <1>4, <1>6 DEF JudgedOK, Judged, TypeOK, Taking
<1>. QED BY <1>3, <1>5, <1>7, <1>8

LEMMA AgeKeeps ==
  ASSUME LockInv, Timely, AgeLock \/ AgeGuard
  PROVE  LockInv'
<1>. USE FileTypes DEF LockInv
<1>1. CASE AgeLock
  <2>1. ~InHand(lock.by) /\ lock \in File /\ lock # Gone
    BY <1>1 DEF AgeLock, Using, Timely, TypeOK
  <2>2. lock' \in File /\ lock'.id = lock.id /\ lock'.by = lock.by /\ lock' # Gone
    BY <1>1, <2>1 DEF AgeLock, File
  <2>3. UNCHANGED <<guard, pc, mem>>
    BY <1>1 DEF AgeLock
  <2>4. TypeOK' /\ GuardOK'
    BY <2>2, <2>3 DEF TypeOK, GuardOK, GuardHeld
  <2>5. HandOK'
    BY <2>1, <2>3 DEF HandOK, InHand
  <2>6. JudgedOK'
    BY <2>1, <2>2, <2>3 DEF JudgedOK, Judged, InHand
  <2>. QED BY <2>4, <2>5, <2>6
<1>2. CASE AgeGuard
  BY <1>2 DEF AgeGuard, GuardOK, Timely
<1>. QED BY <1>1, <1>2

LEMMA NextKeeps ==
  ASSUME LockInv, Timely, LockNext
  PROVE  LockInv'
<1>1. CASE AgeLock \/ AgeGuard
  BY <1>1, AgeKeeps
<1>2. ASSUME NEW p \in Procs,
             Work(p) \/ Request(p) \/ WriteFails(p) \/ GiveUp(p) \/ Unlock(p) \/ Crash(p)
      PROVE  LockInv'
  <2>1. ~Clear(p) /\ ~Aside(p)
    BY DEF Clear, Aside, LockInv, GuardOK
  <2>. QED
    BY <1>2, <2>1, QuietActions, Removals, CreateKeeps, WriteKeeps, GuardKeeps, UnguardKeeps DEF Work
<1>. QED BY <1>1, <1>2 DEF LockNext

-----------------------------------------------------------------------------
(* The guard is its holder's, the lock that of the process that has it in  *)
(* hand, and what is judged stale nobody has in hand (lock.go 70-81).      *)
THEOREM LockInvariance == Timely => (LockSpec => []LockInv)
<1>. SUFFICES ASSUME Timely PROVE LockSpec => []LockInv
  OBVIOUS
<1>1. LockInit => LockInv
  <2>. SUFFICES ASSUME LockInit PROVE LockInv
    OBVIOUS
  <2>1. TypeOK
    BY FileTypes DEF LockInit, TypeOK, Steps
  <2>2. \A p \in Procs : ~InHand(p) /\ pc[p] = "idle"
    BY DEF LockInit, InHand, Taking
  <2>. QED BY <2>1, <2>2 DEF LockInit, LockInv, GuardOK, HandOK, JudgedOK, Taking, Guarding
<1>2. LockInv /\ [LockNext]_lockVars => LockInv'
  <2>1. LockInv /\ UNCHANGED lockVars => LockInv'
    BY DEF LockInv, TypeOK, GuardOK, GuardHeld, HandOK, JudgedOK, Judged, InHand, lockVars
  <2>. QED BY <2>1, NextKeeps
<1>. QED BY <1>1, <1>2, PTL DEF LockSpec

(* At most one process is inside the lock (lock.go 74-76).                 *)
THEOREM LockExcludes == Timely => (LockSpec => []Exclusion)
<1>1. LockInv => Exclusion
  BY OneHand DEF Exclusion, InHand
<1>. QED BY <1>1, LockInvariance, PTL

(* Nobody removes a lock file that its process still uses.                 *)
THEOREM LiveLocksStay == Timely => (LockSpec => LiveLockStays)
<1>. DEFINE Stays == \A p \in Procs : lock # Gone /\ lock'.id # lock.id /\ pc'[p] # pc[p] =>
                        lock.by = p \/ ~Using(lock.by)
<1>. SUFFICES ASSUME Timely PROVE LockSpec => LiveLockStays
  OBVIOUS
<1>1. ASSUME LockInv, [LockNext]_lockVars, NEW p \in Procs, lock # Gone, lock'.id # lock.id, pc'[p] # pc[p]
      PROVE  lock.by = p \/ ~Using(lock.by)
  <2>f. lock \in File /\ lock.by \in Procs
    BY <1>1, FileTypes DEF LockInv, TypeOK
  <2>1. PICK q \in Procs : Work(q) \/ Request(q) \/ WriteFails(q) \/ GiveUp(q) \/ Unlock(q) \/ Crash(q)
    BY <1>1 DEF LockNext, lockVars, AgeLock, AgeGuard
  <2>2. Write(q) \/ Discard(q) \/ Remove(q) \/ LastRemove(q)
    BY <1>1, <2>1 DEF Work, Create, Request, Read, Poll, Guard, StatGuard, Clear, Aside, Check,
          Release, Unguard, LastCheck, WriteFails, GiveUp, Unlock, Crash
  <2>3. p = q
    BY <1>1, <2>2 DEF Write, Discard, Remove, LastRemove, Go, Goto, LockInv, TypeOK
  <2>4. CASE Write(q) \/ Discard(q) \/ LastRemove(q)
    BY <1>1, <2>3, <2>4 DEF Write, Discard, LastRemove, InHand, LockInv, HandOK
  <2>5. CASE Remove(q)
    <3>1. CASE mem[q].want = "unlock"
      BY <1>1, <2>3, <2>5, <3>1 DEF Remove, InHand, LockInv, HandOK
    <3>2. CASE mem[q].want = "reclaim"
      <4>1. ~InHand(lock.by)
        BY <1>1, <2>5, <3>2 DEF Remove, LockInv, JudgedOK
      <4>2. pc[lock.by] \in {"release", "unguard"} => lock.by = p
        BY <1>1, <2>f, <2>3, <2>5, OneGuard DEF Remove, Guarding
      <4>. QED BY <4>1, <4>2 DEF Using
    <3>. QED BY <1>1, <3>1, <3>2 DEF LockInv, TypeOK, Memory
  <2>. QED BY <2>2, <2>4, <2>5
<1>2. LockInv /\ [LockNext]_lockVars => [Stays]_lockVars
  BY <1>1
<1>. QED BY <1>2, LockInvariance, PTL DEF LockSpec, LiveLockStays

(* No process deletes a guard that another one holds (lock.go 79-81): what *)
(* leaves its path is removed by the process that made it.                 *)
THEOREM GuardsStay == Timely => (LockSpec => GuardStays)
<1>. DEFINE Stays == \A p \in Procs : GuardHeld(guard) /\ ~guard.old /\ pc'[p] # pc[p] /\ p # guard.by =>
                        \/ guard'.id = guard.id
                        \/ \E q \in Procs : mem'[q].aside.id = guard.id
<1>. SUFFICES ASSUME Timely PROVE LockSpec => GuardStays
  OBVIOUS
<1>1. ASSUME LockInv, [LockNext]_lockVars, NEW p \in Procs, GuardHeld(guard), pc'[p] # pc[p], p # guard.by
      PROVE  guard'.id = guard.id
  <2>1. PICK q \in Procs : Work(q) \/ Request(q) \/ WriteFails(q) \/ GiveUp(q) \/ Unlock(q) \/ Crash(q)
    BY <1>1 DEF LockNext, lockVars, AgeLock, AgeGuard
  <2>2. pc[q] \notin {"clear", "aside"} /\ (pc[q] = "unguard" => guard.by = q)
    BY <1>1 DEF LockInv, GuardOK, Guarding
  <2>3. ~Clear(q) /\ ~Aside(q) /\ (Guard(q) => UNCHANGED guard)
    BY <1>1, <2>2 DEF Clear, Aside, Guard, GuardHeld
  <2>4. ~Unguard(q)
    <3>1. Unguard(q) => q = p
      <4>1. Unguard(q) => \E s \in Steps, m \in Memory : pc' = [pc EXCEPT ![q] = s]
        BY FileTypes DEF Unguard, Done, Go, Steps
      <4>. QED BY <1>1, <4>1 DEF LockInv, TypeOK
    <3>. QED BY <1>1, <2>2, <3>1 DEF Unguard
  <2>. QED BY <2>1, <2>3, <2>4 DEF Work, Create, Write, Discard, Read, Poll, Guard, StatGuard, Check, Remove,
          Release, LastCheck, LastRemove, Request, WriteFails, GiveUp, Unlock, Crash
<1>2. LockInv /\ [LockNext]_lockVars => [Stays]_lockVars
  BY <1>1
<1>. QED BY <1>2, LockInvariance, PTL DEF LockSpec, GuardStays
=============================================================================
