---------------------------- MODULE CaptureTypes ----------------------------
(***************************************************************************)
(* What every action of DistillPush does to the hooks and the files, that  *)
(* the values keep their types, and that the distill guard lists every     *)
(* session, for any number of sessions, hooks, turns and pushes.           *)
(***************************************************************************)
EXTENDS CaptureInv, FiniteSetTheorems, WellFoundedInduction, TLAPS

-----------------------------------------------------------------------------
(* Least and greatest numbers *)

LEMMA LeastExists ==
    ASSUME NEW S, S # {}, S \subseteq Nat
    PROVE  \E x \in S : \A y \in S : x <= y
<1>. DEFINE R == OpToRel(<, Nat)
<1>1. IsWellFoundedOn(R, Nat)
  BY Zenon, NatLessThanWellFounded
<1>2. \A x, y \in Nat : x < y => <<x, y>> \in R
  BY DEF OpToRel
<1>. HIDE DEF R
<1>3. PICK x \in S : \A y \in S : <<y, x>> \notin R
  BY Zenon, <1>1, WFMin
<1>4. ASSUME NEW y \in S PROVE x <= y
  <2>1. x \in Nat /\ y \in Nat
    OBVIOUS
  <2>2. ~(y < x)
    BY Zenon, <1>2, <1>3, <2>1
  <2>. QED BY <2>1, <2>2
<1>. QED BY <1>4

LEMMA MaxExists ==
    ASSUME NEW n \in Nat, NEW S, S # {}, S \subseteq 0 .. n
    PROVE  FS!Max(S) \in S /\ \A y \in S : y <= FS!Max(S)
<1>. DEFINE T == {n - y : y \in S}
<1>1. T # {} /\ T \subseteq Nat
  <2>1. \A y \in S : n - y \in Nat
    OBVIOUS
  <2>. QED BY Zenon, <2>1
<1>2. PICK t \in T : \A u \in T : t <= u
  BY Zenon, <1>1, LeastExists
<1>3. PICK x \in S : t = n - x
  BY <1>2
<1>4. \A y \in S : n - x <= n - y
  BY <1>2, <1>3
<1>5. ASSUME NEW y \in S PROVE y <= x /\ x >= y
  <2>1. x \in 0 .. n /\ y \in 0 .. n
    OBVIOUS
  <2>. QED BY <1>4, <2>1
<1>. HIDE DEF T
<1>. QED BY Zenon, <1>5 DEF FS!Max

-----------------------------------------------------------------------------
(* Pick *)

(* What Pick has taken from the first n elements. *)
Picking(q, S, f, n) == f = [m \in 0 .. n |->
    IF m = 0 THEN << >> ELSE IF q[m] \in S THEN Append(f[m - 1], q[m]) ELSE f[m - 1]]

LEMMA PickingAt ==
    ASSUME NEW q, NEW S, NEW f, NEW n \in Nat, Picking(q, S, f, n)
    PROVE  /\ f[0] = << >>
           /\ \A m \in 1 .. n : f[m] = IF q[m] \in S THEN Append(f[m - 1], q[m]) ELSE f[m - 1]
<1>. DEFINE g == [m \in 0 .. n |->
                    IF m = 0 THEN << >> ELSE IF q[m] \in S THEN Append(f[m - 1], q[m]) ELSE f[m - 1]]
<1>1. f = g
  BY Zenon DEF Picking
<1>2. g[0] = << >> /\ \A m \in 1 .. n : g[m] = IF q[m] \in S THEN Append(f[m - 1], q[m]) ELSE f[m - 1]
  OBVIOUS
<1>. HIDE DEF g
<1>. QED BY <1>1, <1>2

LEMMA PickingGrows ==
    ASSUME NEW q, NEW S, NEW n \in Nat, NEW g, Picking(q, S, g, n)
    PROVE  \E f : Picking(q, S, f, n + 1)
<1>. DEFINE last == IF q[n + 1] \in S THEN Append(g[n], q[n + 1]) ELSE g[n]
            f == [m \in 0 .. n + 1 |-> IF m = n + 1 THEN last ELSE g[m]]
<1>1. \A m \in 0 .. n : f[m] = g[m]
  OBVIOUS
<1>2. \A m \in 0 .. n + 1 :
        f[m] = IF m = 0 THEN << >> ELSE IF q[m] \in S THEN Append(f[m - 1], q[m]) ELSE f[m - 1]
  <2>. TAKE m \in 0 .. n + 1
  <2>1. CASE m = 0
    BY <1>1, <2>1, PickingAt
  <2>2. CASE m = n + 1
    BY <1>1, <2>2
  <2>3. CASE m \in 1 .. n
    <3>1. f[m] = g[m] /\ f[m - 1] = g[m - 1]
      BY <1>1, <2>3
    <3>. QED BY <2>3, <3>1, PickingAt
  <2>. QED BY <2>1, <2>2, <2>3
<1>3. f = [m \in 0 .. n + 1 |-> f[m]]
  OBVIOUS
<1>. HIDE DEF f
<1>4. [m \in 0 .. n + 1 |-> f[m]] = [m \in 0 .. n + 1 |->
        IF m = 0 THEN << >> ELSE IF q[m] \in S THEN Append(f[m - 1], q[m]) ELSE f[m - 1]]
  BY <1>2
<1>. QED BY Zenon, <1>3, <1>4 DEF Picking

LEMMA PickingExists ==
    ASSUME NEW q, NEW S, NEW n \in Nat
    PROVE  \E f : Picking(q, S, f, n)
<1>. DEFINE Bad == {m \in Nat : ~\E f : Picking(q, S, f, m)}
<1>1. 0 \notin Bad
  <2>. DEFINE f == [m \in 0 .. 0 |-> << >>]
  <2>1. f = [m \in 0 .. 0 |->
              IF m = 0 THEN << >> ELSE IF q[m] \in S THEN Append(f[m - 1], q[m]) ELSE f[m - 1]]
    OBVIOUS
  <2>. HIDE DEF f
  <2>. QED BY <2>1 DEF Picking
<1>2. ASSUME n \in Bad PROVE FALSE
  <2>1. PICK x \in Bad : \A y \in Bad : x <= y
    BY Zenon, <1>2, LeastExists
  <2>2. x - 1 \in Nat /\ x - 1 \notin Bad
    BY <1>1, <2>1
  <2>3. PICK g : Picking(q, S, g, x - 1)
    BY <2>2
  <2>4. \E f : Picking(q, S, f, x - 1 + 1)
    BY <2>2, <2>3, PickingGrows
  <2>5. x - 1 + 1 = x
    BY <2>1
  <2>. QED BY <2>1, <2>4, <2>5
<1>. QED BY <1>2

LEMMA PickIs ==
    ASSUME NEW q, NEW S, Len(q) \in Nat
    PROVE  \E f : Picking(q, S, f, Len(q)) /\ Pick(q, S) = f[Len(q)]
<1>1. \E f : Picking(q, S, f, Len(q))
  BY PickingExists
<1>. QED BY Zenon, <1>1 DEF Pick, Picking

(* Pick has exactly the elements of q that are in S. *)
LEMMA PickElements ==
    ASSUME NEW T, NEW q \in Seq(T), NEW S
    PROVE  /\ Pick(q, S) \in Seq(T)
           /\ \A i \in DOMAIN Pick(q, S) : Pick(q, S)[i] \in S
           /\ \A j \in DOMAIN q : q[j] \in S => \E i \in DOMAIN Pick(q, S) : Pick(q, S)[i] = q[j]
<1>. DEFINE OK(p, n) == /\ p \in Seq(T)
                        /\ \A i \in DOMAIN p : p[i] \in S
                        /\ \A j \in 1 .. n : q[j] \in S => \E i \in DOMAIN p : p[i] = q[j]
<1>1. PICK f : Picking(q, S, f, Len(q)) /\ Pick(q, S) = f[Len(q)]
  BY PickIs
<1>. DEFINE Bad == {m \in 0 .. Len(q) : ~OK(f[m], m)}
<1>2. 0 \notin Bad
  <2>1. f[0] = << >>
    BY <1>1, PickingAt
  <2>2. << >> \in Seq(T) /\ DOMAIN << >> = {} /\ 1 .. 0 = {}
    OBVIOUS
  <2>3. OK(<< >>, 0)
    BY <2>2
  <2>. QED BY Zenon, <2>1, <2>3
<1>3. ASSUME Bad # {} PROVE FALSE
  <2>1. PICK x \in Bad : \A y \in Bad : x <= y
    <3>1. Bad \subseteq Nat
      OBVIOUS
    <3>. QED BY Zenon, <1>3, <3>1, LeastExists
  <2>2. x \in 1 .. Len(q) /\ x - 1 \in 0 .. Len(q) /\ x - 1 \notin Bad
    BY <1>2, <2>1
  <2>. DEFINE p == f[x - 1]
  <2>3. OK(p, x - 1)
    BY <2>2
  <2>4. f[x] = IF q[x] \in S THEN Append(p, q[x]) ELSE p
    BY <1>1, <2>2, PickingAt
  <2>5. q[x] \in T
    BY <2>2
  <2>. HIDE DEF p
  <2>6. CASE q[x] \notin S
    <3>1. f[x] = p
      BY <2>4, <2>6
    <3>2. OK(p, x)
      BY <2>2, <2>3, <2>6
    <3>. QED BY <2>1, <3>1, <3>2
  <2>7. CASE q[x] \in S
    <3>1. f[x] = Append(p, q[x])
      BY <2>4, <2>7
    <3>. DEFINE r == Append(p, q[x])
    <3>2. /\ r \in Seq(T) /\ Len(r) = Len(p) + 1 /\ r[Len(r)] = q[x]
          /\ \A i \in DOMAIN p : i \in DOMAIN r /\ r[i] = p[i]
          /\ Len(r) \in DOMAIN r
          /\ \A i \in DOMAIN r : i = Len(r) \/ i \in DOMAIN p
      BY <2>3, <2>5
    <3>. HIDE DEF r
    <3>3. \A i \in DOMAIN r : r[i] \in S
      BY <2>3, <2>7, <3>2
    <3>4. ASSUME NEW j \in 1 .. x, q[j] \in S PROVE \E i \in DOMAIN r : r[i] = q[j]
      <4>1. CASE j = x
        BY <3>2, <4>1
      <4>2. CASE j # x
        <5>1. j \in 1 .. x - 1
          BY <2>2, <3>4, <4>2
        <5>2. PICK i \in DOMAIN p : p[i] = q[j]
          BY <2>3, <3>4, <5>1
        <5>. QED BY <3>2, <5>2
      <4>. QED BY <4>1, <4>2
    <3>5. OK(r, x)
      BY <3>2, <3>3, <3>4
    <3>. QED BY Zenon, <2>1, <3>1, <3>5 DEF r
  <2>. QED BY <2>6, <2>7
<1>4. OK(f[Len(q)], Len(q))
  <2>1. Len(q) \in 0 .. Len(q) /\ Len(q) \notin Bad
    BY <1>3
  <2>. QED BY <2>1
<1>. QED BY <1>1, <1>4

(* Pick reads its sequence from the left. *)
LEMMA PickPrefix ==
    ASSUME NEW q, NEW p, NEW S, NEW n \in Nat, Len(q) = n + 1, Len(p) = n, \A i \in 1 .. n : p[i] = q[i]
    PROVE  Pick(q, S) = IF q[n + 1] \in S THEN Append(Pick(p, S), q[n + 1]) ELSE Pick(p, S)
<1>1. PICK f : Picking(q, S, f, n + 1) /\ Pick(q, S) = f[n + 1]
  BY PickIs
<1>2. PICK g : Picking(p, S, g, n) /\ Pick(p, S) = g[n]
  BY PickIs
<1>. DEFINE Bad == {m \in 0 .. n : f[m] # g[m]}
<1>3. ASSUME Bad # {} PROVE FALSE
  <2>1. PICK x \in Bad : \A y \in Bad : x <= y
    <3>1. Bad \subseteq Nat
      OBVIOUS
    <3>. QED BY Zenon, <1>3, <3>1, LeastExists
  <2>2. x # 0
    BY <1>1, <1>2, <2>1, PickingAt
  <2>3. x \in 1 .. n /\ x \in 1 .. n + 1 /\ x - 1 \in 0 .. n /\ x - 1 \notin Bad
    BY <2>1, <2>2
  <2>4. f[x] = IF q[x] \in S THEN Append(f[x - 1], q[x]) ELSE f[x - 1]
    BY <1>1, <2>3, PickingAt
  <2>5. g[x] = IF p[x] \in S THEN Append(g[x - 1], p[x]) ELSE g[x - 1]
    BY <1>2, <2>3, PickingAt
  <2>. QED BY <2>1, <2>3, <2>4, <2>5
<1>4. f[n] = g[n]
  <2>1. n \in 0 .. n /\ n \notin Bad
    BY <1>3
  <2>. QED BY <2>1
<1>5. f[n + 1] = IF q[n + 1] \in S THEN Append(f[n + 1 - 1], q[n + 1]) ELSE f[n + 1 - 1]
  <2>1. n + 1 \in 1 .. n + 1
    OBVIOUS
  <2>. QED BY <1>1, <2>1, PickingAt
<1>6. n + 1 - 1 = n
  OBVIOUS
<1>. QED BY <1>1, <1>2, <1>4, <1>5, <1>6

-----------------------------------------------------------------------------
(* Records *)

LEMMA RecType == \A r \in Rec : r[1] \in Nat /\ r[2] \in Nat /\ r[3] \in Nat
BY DEF Rec

LEMMA RecMade ==
    \A a, b, c \in Nat : <<a, b, c>> \in Rec /\ <<a, b, c>>[1] = a /\ <<a, b, c>>[2] = b /\ <<a, b, c>>[3] = c
BY DEF Rec

LEMMA MarkerType == Marker \in Rec /\ Marker[1] = 0 /\ Marker[2] = 0 /\ Marker[3] = 0
BY RecMade DEF Marker

(* An absent file is told from one without records. *)
LEMMA AbsentIsNoFile == NoFile \notin Seq(Rec)
<1>1. ASSUME NoFile \in Seq(Rec) PROVE FALSE
  <2>1. Len(NoFile) = 1 /\ NoFile[1] = <<-1, -1, -1>>
    BY DEF NoFile
  <2>2. NoFile[1] \in Rec
    BY <1>1, <2>1
  <2>3. <<-1, -1, -1>>[1] = -1
    OBVIOUS
  <2>. QED BY <2>1, <2>2, <2>3, RecType
<1>. QED BY <1>1

LEMMA RecsOf ==
    /\ \A q \in Seq(Rec) : q # NoFile /\ Recs(q) = q /\ q \in Contents
    /\ \A c \in Contents : Recs(c) \in Seq(Rec) /\ (c # NoFile => Recs(c) = c)
    /\ Recs(NoFile) = << >> /\ NoFile \in Contents
BY AbsentIsNoFile DEF Recs, Contents

LEMMA EmptyGood == \A n, a : GoodRecs(<< >>, n, a)
BY DEF GoodRecs

LEMMA GoodMore ==
    ASSUME NEW n \in Nat, NEW a \in Nat, NEW m \in Nat, NEW b \in Nat, n <= m, a <= b,
           NEW q, GoodRecs(q, n, a)
    PROVE  GoodRecs(q, m, b)
<1>1. 1 .. n \subseteq 1 .. m /\ 0 .. a \subseteq 0 .. b /\ 1 .. a \subseteq 1 .. b
  OBVIOUS
<1>. QED BY Zenon, <1>1 DEF GoodRecs

(* nextTurnIndex is one past every turn of the buffer. *)
LEMMA NextTurnIs ==
    ASSUME NEW n \in Nat, NEW a, NEW q, GoodRecs(q, n, a)
    PROVE  NextTurn(q) \in 1 .. n + 1 /\ \A i \in DOMAIN q : q[i][1] < NextTurn(q)
<1>. DEFINE S == {0} \cup {q[i][1] : i \in DOMAIN q}
<1>1. S # {} /\ S \subseteq 0 .. n
  <2>1. \A i \in DOMAIN q : q[i][1] \in 0 .. n
    BY MarkerType DEF GoodRecs
  <2>. QED BY <2>1
<1>2. \A i \in DOMAIN q : q[i][1] \in S
  OBVIOUS
<1>. DEFINE m == FS!Max(S)
<1>3. m \in 0 .. n /\ \A y \in S : y <= m
  BY <1>1, MaxExists
<1>4. NextTurn(q) = m + 1
  BY DEF NextTurn
<1>5. \A i \in DOMAIN q : q[i][1] \in 0 .. n /\ q[i][1] <= m
  BY Zenon, <1>1, <1>2, <1>3
<1>. HIDE DEF m, S
<1>. QED BY <1>3, <1>4, <1>5

(* A turn written after what is there. *)
LEMMA Appended ==
    ASSUME NEW q \in Seq(Rec), NEW r \in Rec
    PROVE  /\ Append(q, r) \in Seq(Rec) /\ Len(Append(q, r)) = Len(q) + 1
           /\ Append(q, r)[Len(q) + 1] = r /\ Len(q) + 1 \in DOMAIN Append(q, r)
           /\ \A i \in DOMAIN q : i \in DOMAIN Append(q, r) /\ Append(q, r)[i] = q[i] /\ i < Len(q) + 1
           /\ \A i \in DOMAIN Append(q, r) : i = Len(q) + 1 \/ i \in DOMAIN q
OBVIOUS

LEMMA GoodAppend ==
    ASSUME NEW n, NEW a, NEW q, GoodRecs(q, n, a),
           NEW r \in Rec, r[1] \in 1 .. n, r[2] \in 0 .. a, r[3] \in 1 .. a
    PROVE  GoodRecs(Append(q, r), n, a)
<1>. DEFINE p == Append(q, r)
<1>1. q \in Seq(Rec)
  BY DEF GoodRecs
<1>2. /\ p \in Seq(Rec) /\ p[Len(q) + 1] = r
      /\ \A i \in DOMAIN q : p[i] = q[i]
      /\ \A i \in DOMAIN p : i = Len(q) + 1 \/ i \in DOMAIN q
  BY <1>1, Appended
<1>. HIDE DEF p
<1>3. GoodRecs(p, n, a)
  BY Zenon, <1>2 DEF GoodRecs
<1>. QED BY <1>3 DEF p

(* rewriteWithOverflow: what the buffer becomes. *)
Short(q, r) == <<Marker>> \o SubSeq(q, DropOldest + 1, Len(q)) \o <<r>>

LEMMA ShortIs ==
    ASSUME NEW q \in Seq(Rec), NEW r \in Rec, Len(q) >= MaxTurns
    PROVE  /\ Short(q, r) \in Seq(Rec) /\ Len(Short(q, r)) = Len(q) - DropOldest + 2 /\ Len(q) >= DropOldest
           /\ Short(q, r)[1] = Marker /\ Short(q, r)[Len(q) - DropOldest + 2] = r
           /\ \A i \in 2 .. Len(q) - DropOldest + 1 :
                 i + DropOldest - 1 \in DOMAIN q /\ Short(q, r)[i] = q[i + DropOldest - 1]
<1>1. DropOldest \in Nat /\ DropOldest >= 1 /\ DropOldest <= Len(q) /\ MaxTurns \in Nat
  BY CaptureAssumption
<1>. DEFINE mid == SubSeq(q, DropOldest + 1, Len(q))
            n == Len(q) - DropOldest
<1>2. mid \in Seq(Rec) /\ Len(mid) = n /\ n \in Nat /\ \A i \in 1 .. n : mid[i] = q[i + DropOldest]
  BY <1>1
<1>3. \A i \in 2 .. n + 1 : i - 1 \in 1 .. n /\ i - 1 + DropOldest = i + DropOldest - 1
                            /\ i + DropOldest - 1 \in DOMAIN q
  BY <1>1
<1>. HIDE DEF mid
<1>. DEFINE s == <<Marker>> \o mid \o <<r>>
<1>4. s \in Seq(Rec) /\ Len(s) = n + 2 /\ s[1] = Marker /\ s[n + 2] = r /\ \A i \in 2 .. n + 1 : s[i] = mid[i - 1]
  BY <1>2, MarkerType
<1>5. s = Short(q, r)
  BY DEF Short, mid
<1>6. \A i \in 2 .. n + 1 : s[i] = q[i + DropOldest - 1]
  BY Zenon, <1>2, <1>3, <1>4
<1>. HIDE DEF s
<1>. QED BY <1>1, <1>3, <1>4, <1>5, <1>6

LEMMA GoodShort ==
    ASSUME NEW n, NEW a, NEW q, GoodRecs(q, n, a), Len(q) >= MaxTurns,
           NEW r \in Rec, r[1] \in 1 .. n, r[2] \in 0 .. a, r[3] \in 1 .. a
    PROVE  GoodRecs(Short(q, r), n, a)
<1>1. q \in Seq(Rec)
  BY DEF GoodRecs
<1>. DEFINE s == Short(q, r)
            e == Len(q) - DropOldest + 2
<1>2. /\ s \in Seq(Rec) /\ Len(s) = e /\ s[1] = Marker /\ s[e] = r
      /\ \A i \in 2 .. e - 1 : i + DropOldest - 1 \in DOMAIN q /\ s[i] = q[i + DropOldest - 1]
  <2>1. e - 1 = Len(q) - DropOldest + 1
    BY <1>1, CaptureAssumption
  <2>. HIDE DEF s
  <2>. QED BY <1>1, <2>1, ShortIs DEF s
<1>3. ASSUME NEW i \in DOMAIN s PROVE i = 1 \/ i = e \/ i \in 2 .. e - 1
  BY <1>1, <1>2, CaptureAssumption
<1>4. ASSUME NEW i \in 2 .. e - 1
      PROVE  s[i][1] \in 1 .. n /\ s[i][2] \in 0 .. a /\ s[i][3] \in 1 .. a
  <2>1. i + DropOldest - 1 # 1
    BY CaptureAssumption, <1>1
  <2>. QED BY Zenon, <1>2, <2>1 DEF GoodRecs
<1>. HIDE DEF s, e
<1>5. GoodRecs(s, n, a)
  BY Zenon, <1>2, <1>3, <1>4 DEF GoodRecs
<1>. QED BY <1>5 DEF s

(* A write over a longer file leaves the end of the old one. *)
LEMMA OverlayIs ==
    ASSUME NEW c \in Contents, NEW q \in Seq(Rec)
    PROVE  /\ Overlay(c, q) \in Seq(Rec)
           /\ \A i \in DOMAIN q : Overlay(c, q)[i] = q[i]
           /\ \A i \in DOMAIN Overlay(c, q) \ DOMAIN q : i \in DOMAIN Recs(c) /\ Overlay(c, q)[i] = Recs(c)[i] /\ i > Len(q)
           /\ Len(Overlay(c, q)) = IF Len(q) > Len(Recs(c)) THEN Len(q) ELSE Len(Recs(c))
           /\ Recs(c) = << >> => Overlay(c, q) = q
<1>1. Recs(c) \in Seq(Rec)
  BY RecsOf
<1>. DEFINE p == Recs(c)
            rest == SubSeq(p, Len(q) + 1, Len(p))
<1>. HIDE DEF p
<1>2. p \in Seq(Rec)
  BY <1>1 DEF p
<1>3. rest \in Seq(Rec) /\ Len(rest) = (IF Len(q) > Len(p) THEN 0 ELSE Len(p) - Len(q))
      /\ \A i \in 1 .. Len(rest) : rest[i] = p[i + Len(q)]
  BY <1>2
<1>. HIDE DEF rest
<1>4. /\ q \o rest \in Seq(Rec) /\ Len(q \o rest) = Len(q) + Len(rest)
      /\ \A i \in 1 .. Len(q) : (q \o rest)[i] = q[i]
      /\ \A i \in Len(q) + 1 .. Len(q) + Len(rest) : (q \o rest)[i] = rest[i - Len(q)]
  BY <1>3
<1>5. Overlay(c, q) = q \o rest
  BY DEF Overlay, rest, p
<1>6. ASSUME NEW i \in DOMAIN (q \o rest) \ DOMAIN q
      PROVE  i \in DOMAIN p /\ (q \o rest)[i] = p[i] /\ i > Len(q)
  <2>1. i \in Len(q) + 1 .. Len(q) + Len(rest)
    BY <1>3, <1>4
  <2>2. i - Len(q) \in 1 .. Len(rest) /\ i - Len(q) + Len(q) = i /\ i \in DOMAIN p
    BY <1>2, <1>3, <2>1
  <2>. QED BY <1>3, <1>4, <2>1, <2>2
<1>7. ASSUME p = << >> PROVE q \o rest = q
  <2>1. rest = << >>
    BY <1>3, <1>7
  <2>. QED BY <2>1
<1>. QED BY <1>2, <1>3, <1>4, <1>5, <1>6, <1>7 DEF p

LEMMA GoodOverlay ==
    ASSUME NEW n, NEW a, NEW c \in Contents, GoodRecs(Recs(c), n, a), NEW q, GoodRecs(q, n, a), Len(q) >= 1
    PROVE  GoodRecs(Overlay(c, q), n, a)
<1>1. q \in Seq(Rec)
  BY DEF GoodRecs
<1>. DEFINE s == Overlay(c, q)
<1>2. /\ s \in Seq(Rec) /\ \A i \in DOMAIN q : s[i] = q[i]
      /\ \A i \in DOMAIN s \ DOMAIN q : i \in DOMAIN Recs(c) /\ s[i] = Recs(c)[i] /\ i # 1
  BY <1>1, OverlayIs
<1>. HIDE DEF s
<1>3. GoodRecs(s, n, a)
  BY <1>2 DEF GoodRecs
<1>. QED BY <1>3 DEF s

-----------------------------------------------------------------------------
(* Turns *)

LEMMA TurnsOf ==
    \A q \in Seq(Rec) : \A t : t \in Turns(q) <=> t # <<0, 0>> /\ \E i \in DOMAIN q : t = <<q[i][2], q[i][3]>>
BY RecsOf DEF Turns

LEMMA TurnsNone == Turns(NoFile) = {} /\ Turns(<< >>) = {}
BY RecsOf DEF Turns

LEMMA TurnsRecs == \A c \in Contents : Turns(Recs(c)) = Turns(c)
BY RecsOf DEF Turns

LEMMA TurnsAppended ==
    ASSUME NEW q \in Seq(Rec), NEW r \in Rec, r[3] # 0
    PROVE  Turns(q) \cup {<<r[2], r[3]>>} \subseteq Turns(Append(q, r))
<1>. DEFINE p == Append(q, r)
<1>1. p \in Seq(Rec) /\ p[Len(q) + 1] = r /\ Len(q) + 1 \in DOMAIN p /\ \A i \in DOMAIN q : i \in DOMAIN p /\ p[i] = q[i]
  BY Appended
<1>. HIDE DEF p
<1>2. <<r[2], r[3]>> # <<0, 0>>
  OBVIOUS
<1>3. <<r[2], r[3]>> \in Turns(p)
  BY <1>1, <1>2, TurnsOf
<1>4. ASSUME NEW t \in Turns(q) PROVE t \in Turns(p)
  BY <1>1, TurnsOf
<1>. QED BY <1>3, <1>4 DEF p

LEMMA TurnsShort ==
    ASSUME NEW q \in Seq(Rec), NEW r \in Rec, r[3] # 0, Len(q) >= MaxTurns
    PROVE  /\ Turns(q) \subseteq Turns(SubSeq(q, 1, DropOldest)) \cup Turns(Short(q, r))
           /\ <<r[2], r[3]>> \in Turns(Short(q, r))
<1>. DEFINE s == Short(q, r)
            d == SubSeq(q, 1, DropOldest)
            e == Len(q) - DropOldest + 2
<1>1. /\ s \in Seq(Rec) /\ Len(s) = e /\ s[e] = r /\ DropOldest <= Len(q)
      /\ \A i \in 2 .. e - 1 : s[i] = q[i + DropOldest - 1]
  BY ShortIs, CaptureAssumption
<1>2. DropOldest \in Nat /\ d \in Seq(Rec) /\ \A i \in 1 .. DropOldest : i \in DOMAIN d /\ d[i] = q[i]
  BY <1>1, CaptureAssumption
<1>3. e \in DOMAIN s
  BY <1>1, <1>2
<1>4. ASSUME NEW i \in DOMAIN q, i > DropOldest
      PROVE  i - DropOldest + 1 \in 2 .. e - 1 /\ i - DropOldest + 1 \in DOMAIN s /\ s[i - DropOldest + 1] = q[i]
  <2>1. i - DropOldest + 1 \in 2 .. e - 1 /\ i - DropOldest + 1 \in DOMAIN s /\ i - DropOldest + 1 + DropOldest - 1 = i
    BY <1>1, <1>2, <1>4
  <2>. QED BY <1>1, <2>1
<1>. HIDE DEF s, d, e
<1>5. <<r[2], r[3]>> # <<0, 0>>
  OBVIOUS
<1>6. <<r[2], r[3]>> \in Turns(s)
  BY <1>1, <1>3, <1>5, TurnsOf
<1>7. ASSUME NEW t \in Turns(q) PROVE t \in Turns(d) \cup Turns(s)
  <2>1. PICK i \in DOMAIN q : t = <<q[i][2], q[i][3]>> /\ t # <<0, 0>>
    BY TurnsOf
  <2>2. CASE i > DropOldest
    BY <1>1, <1>4, <2>1, <2>2, TurnsOf
  <2>3. CASE i <= DropOldest
    <3>1. i \in 1 .. DropOldest
      BY <1>2, <2>3
    <3>. QED BY <1>2, <2>1, <3>1, TurnsOf
  <2>. QED BY <1>2, <2>2, <2>3
<1>. QED BY <1>6, <1>7 DEF s, d

-----------------------------------------------------------------------------
(* What each action does to the hooks *)

Others(h) == \A g \in Hooks \ {h} : hk'[g] = hk[g]

LEMMA FreeHook ==
    /\ Free \in HookRec /\ Free.at = "free" /\ Free.into = "none" /\ Free.s = "none"
    /\ Free.seen = << >> /\ Free.victim = "none"
BY DEF Free, HookRec, Stages, Unwritten, Stashing

LEMMA SetAt ==
    ASSUME NEW k \in HookRec, NEW at \in Stages
    PROVE  LET n == [k EXCEPT !.at = at]
           IN  /\ n \in HookRec /\ n.at = at /\ n.s = k.s /\ n.ex = k.ex /\ n.user = k.user
               /\ n.seen = k.seen /\ n.into = k.into /\ n.victim = k.victim
BY Zenon DEF HookRec

LEMMA SetPrune ==
    ASSUME NEW s \in Sessions
    PROVE  LET n == [Free EXCEPT !.at = "prune", !.s = s]
           IN  n \in HookRec /\ n.at = "prune" /\ n.s = s /\ n.into = "none" /\ n.victim = "none"
<1>1. Free \in HookRec /\ Free.into = "none" /\ Free.victim = "none" /\ "prune" \in Stages
  BY FreeHook DEF Stages
<1>. QED BY Zenon, <1>1 DEF HookRec

Taking(k, at, u)           == [k EXCEPT !.at = at, !.user = u]
Replying(k, u, late, parts) == [k EXCEPT !.at = "records", !.user = u, !.late = late, !.parts = parts]
Aiming(k, at, v)           == [k EXCEPT !.at = at, !.victim = v]

LEMMA SetUser ==
    ASSUME NEW k \in HookRec, NEW at \in Stages, NEW u \in Nat
    PROVE  LET n == Taking(k, at, u)
           IN  n \in HookRec /\ n.at = at /\ n.s = k.s /\ n.ex = k.ex /\ n.user = u /\ n.into = k.into
BY Zenon DEF HookRec, Taking

LEMMA SetReply ==
    ASSUME NEW k \in HookRec, NEW u \in Nat, NEW late \in BOOLEAN, NEW parts \in Seq(Nat)
    PROVE  LET n == Replying(k, u, late, parts)
           IN  /\ n \in HookRec /\ n.at = "records" /\ n.s = k.s /\ n.ex = k.ex /\ n.user = u /\ n.into = k.into
               /\ n.late = late /\ n.parts = parts
<1>1. "records" \in Stages
  BY DEF Stages, Unwritten
<1>. QED BY Zenon, <1>1 DEF HookRec, Replying

Seeing(k, at, q) == [k EXCEPT !.at = at, !.seen = q, !.parts = << >>, !.final = FALSE, !.late = FALSE]

LEMMA SetSeen ==
    ASSUME NEW k \in HookRec, NEW at \in Stages, NEW q \in Seq(Rec)
    PROVE  LET n == Seeing(k, at, q)
           IN  n \in HookRec /\ n.at = at /\ n.s = k.s /\ n.ex = k.ex /\ n.user = k.user /\ n.seen = q /\ n.into = k.into
<1>. DEFINE p == << >>
<1>1. p \in Seq(Nat)
  OBVIOUS
<1>. HIDE DEF p
<1>2. LET n == [k EXCEPT !.at = at, !.seen = q, !.parts = p, !.final = FALSE, !.late = FALSE]
      IN  n \in HookRec /\ n.at = at /\ n.s = k.s /\ n.ex = k.ex /\ n.user = k.user /\ n.seen = q /\ n.into = k.into
  BY Zenon, <1>1 DEF HookRec
<1>. QED BY <1>2 DEF p, Seeing

LEMMA SetInto ==
    ASSUME NEW k \in HookRec, NEW f \in {"none", "pend", "tmp", "arch"}
    PROVE  LET n == [k EXCEPT !.into = f]
           IN  /\ n \in HookRec /\ n.at = k.at /\ n.s = k.s /\ n.ex = k.ex /\ n.user = k.user
               /\ n.seen = k.seen /\ n.into = f /\ n.victim = k.victim /\ n.late = k.late /\ n.parts = k.parts
BY DEF HookRec

LEMMA SetOpen ==
    ASSUME NEW k \in HookRec
    PROVE  LET n == [k EXCEPT !.at = "flush", !.into = "tmp"]
           IN  /\ n \in HookRec /\ n.at = "flush" /\ n.s = k.s /\ n.ex = k.ex /\ n.user = k.user
               /\ n.seen = k.seen /\ n.into = "tmp"
BY Zenon DEF HookRec, Stages, Unwritten

LEMMA SetVictim ==
    ASSUME NEW k \in HookRec, NEW at \in Stages, NEW v \in Sessions \cup {"none"}
    PROVE  LET n == Aiming(k, at, v)
           IN  n \in HookRec /\ n.at = at /\ n.s = k.s /\ n.ex = k.ex /\ n.user = k.user /\ n.into = k.into /\ n.victim = v
BY Zenon DEF HookRec, Aiming

LEMMA OneHook ==
    ASSUME hk \in [Hooks -> HookRec], NEW h \in Hooks, NEW k \in HookRec, hk' = [hk EXCEPT ![h] = k]
    PROVE  hk' \in [Hooks -> HookRec] /\ Others(h) /\ hk'[h] = k
BY DEF Others

LEMMA EndsHook ==
    ASSUME TypeInv, NEW h \in Hooks, Ends(h)
    PROVE  hk' \in [Hooks -> HookRec] /\ Others(h) /\ hk'[h].at = "free" /\ hk'[h].into = "none"
BY Zenon, OneHook, FreeHook DEF Ends, TypeInv

LEMMA ToHook ==
    ASSUME TypeInv, NEW h \in Hooks, NEW at \in Stages, To(h, at)
    PROVE  /\ hk' \in [Hooks -> HookRec] /\ Others(h)
           /\ hk'[h].at = at /\ hk'[h].s = hk[h].s /\ hk'[h].ex = hk[h].ex /\ hk'[h].user = hk[h].user
           /\ hk'[h].seen = hk[h].seen /\ hk'[h].into = hk[h].into /\ hk'[h].victim = hk[h].victim
<1>1. hk[h] \in HookRec /\ hk' = [hk EXCEPT ![h] = [hk[h] EXCEPT !.at = at]]
  BY DEF TypeInv, To
<1>. DEFINE k == [hk[h] EXCEPT !.at = at]
<1>2. /\ k \in HookRec /\ k.at = at /\ k.s = hk[h].s /\ k.ex = hk[h].ex /\ k.user = hk[h].user
      /\ k.seen = hk[h].seen /\ k.into = hk[h].into /\ k.victim = hk[h].victim
  BY Zenon, <1>1, SetAt
<1>3. hk \in [Hooks -> HookRec] /\ hk' = [hk EXCEPT ![h] = k]
  BY <1>1 DEF TypeInv
<1>. HIDE DEF k
<1>4. hk' \in [Hooks -> HookRec] /\ Others(h) /\ hk'[h] = k
  BY Zenon, <1>2, <1>3, OneHook
<1>. QED BY Zenon, <1>2, <1>4

LEMMA RecordsHook ==
    ASSUME TypeInv, NEW h \in Hooks, Records(h)
    PROVE  /\ hk' \in [Hooks -> HookRec] /\ Others(h) /\ hk[h].at = "records"
           /\ hk'[h].at = IF IsFull(Recs(file[hk[h].s]["pend"])) THEN "create" ELSE "append"
           /\ hk'[h].s = hk[h].s /\ hk'[h].ex = hk[h].ex /\ hk'[h].user = hk[h].user
           /\ hk'[h].seen = Recs(file[hk[h].s]["pend"]) /\ hk'[h].into = hk[h].into
<1>. DEFINE q == Recs(file[hk[h].s]["pend"])
            at == IF IsFull(q) THEN "create" ELSE "append"
<1>1. hk[h].at = "records" /\ hk[h] \in HookRec
  BY DEF TypeInv, Records
<1>2. q \in Seq(Rec) /\ << >> \in Seq(Nat) /\ at \in Stages
  <2>1. hk[h].s \in Sessions
    BY <1>1 DEF TypeInv, HookOK
  <2>. QED BY <2>1 DEF TypeInv, SessionOK, GoodRecs, Names, Stages, Unwritten
<1>3. hk' = [hk EXCEPT ![h] = Seeing(hk[h], at, q)]
  BY Zenon, <1>1 DEF Records, TypeInv, Seeing
<1>. HIDE DEF q, at
<1>4. LET n == Seeing(hk[h], at, q)
      IN  n \in HookRec /\ n.at = at /\ n.s = hk[h].s /\ n.ex = hk[h].ex /\ n.user = hk[h].user /\ n.seen = q /\ n.into = hk[h].into
  BY <1>1, <1>2, SetSeen
<1>5. hk' \in [Hooks -> HookRec] /\ Others(h) /\ hk'[h] = Seeing(hk[h], at, q)
  BY Zenon, <1>3, <1>4, OneHook DEF TypeInv
<1>. QED BY <1>1, <1>4, <1>5 DEF at, q

LEMMA AppendHook ==
    ASSUME TypeInv, NEW h \in Hooks, AppendLine(h)
    PROVE  /\ hk' \in [Hooks -> HookRec] /\ Others(h) /\ hk[h].at = "append"
           /\ hk'[h].at = "prune" /\ hk'[h].s = hk[h].s /\ hk'[h].into = "none"
<1>1. hk[h].at = "append" /\ hk[h].s \in Sessions
  BY DEF TypeInv, AppendLine, HookOK
<1>2. hk' = [hk EXCEPT ![h] = [Free EXCEPT !.at = "prune", !.s = hk[h].s]]
  BY DEF AppendLine, ToPrune
<1>. QED BY Zenon, <1>1, <1>2, SetPrune, OneHook DEF TypeInv

LEMMA CreateHook ==
    ASSUME TypeInv, NEW h \in Hooks, CreateTmp(h)
    PROVE  /\ hk' \in [Hooks -> HookRec] /\ Others(h) /\ hk[h].at = "create"
           /\ hk'[h].at = "flush" /\ hk'[h].s = hk[h].s /\ hk'[h].ex = hk[h].ex /\ hk'[h].user = hk[h].user
           /\ hk'[h].seen = hk[h].seen /\ hk'[h].into = "tmp"
<1>1. hk[h].at = "create" /\ hk[h] \in HookRec /\ "flush" \in Stages
  BY DEF TypeInv, CreateTmp, Stages, Unwritten
<1>2. hk' = [hk EXCEPT ![h] = [hk[h] EXCEPT !.at = "flush", !.into = "tmp"]]
  BY Zenon DEF CreateTmp, TypeInv
<1>. QED BY Zenon, <1>1, <1>2, SetOpen, OneHook DEF TypeInv

LEMMA FlushHook ==
    ASSUME TypeInv, NEW h \in Hooks, FlushTmp(h)
    PROVE  /\ hk' \in [Hooks -> HookRec] /\ Others(h) /\ hk[h].at = "flush"
           /\ hk'[h].at = "rename" /\ hk'[h].s = hk[h].s /\ hk'[h].ex = hk[h].ex /\ hk'[h].user = hk[h].user
           /\ hk'[h].seen = hk[h].seen /\ hk'[h].into = hk[h].into
<1>1. hk[h].at = "flush" /\ "rename" \in Stages /\ To(h, "rename")
  BY DEF FlushTmp, Stages
<1>. QED BY <1>1, ToHook

(* An open handle follows its file.                                        *)
LEMMA FollowHooks ==
    ASSUME TypeInv, NEW s \in Sessions, NEW a, NEW b \in {"none", "pend", "tmp", "arch"}
    PROVE  /\ Follow(s, a, b) \in [Hooks -> HookRec]
           /\ \A g \in Hooks : LET k == hk[g]  n == Follow(s, a, b)[g] IN
                 /\ n.at = k.at /\ n.s = k.s /\ n.ex = k.ex /\ n.user = k.user /\ n.seen = k.seen
                 /\ n.victim = k.victim /\ n.late = k.late /\ n.parts = k.parts
                 /\ n.into = k.into \/ (k.into = a /\ n.into = b /\ k.s = s) \/ (k.into = b /\ n.into = "none" /\ k.s = s)
                 /\ k.s # s => n = k
<1>1. ASSUME NEW g \in Hooks
      PROVE  LET k == hk[g]  n == Follow(s, a, b)[g] IN
             /\ n \in HookRec
             /\ n.at = k.at /\ n.s = k.s /\ n.ex = k.ex /\ n.user = k.user /\ n.seen = k.seen
             /\ n.victim = k.victim /\ n.late = k.late /\ n.parts = k.parts
             /\ n.into = k.into \/ (k.into = a /\ n.into = b /\ k.s = s) \/ (k.into = b /\ n.into = "none" /\ k.s = s)
             /\ k.s # s => n = k
  <2>. DEFINE k == hk[g]
  <2>1. k \in HookRec
    BY DEF TypeInv
  <2>2. Follow(s, a, b)[g] = IF k.s # s THEN k
                             ELSE IF k.into = a THEN [k EXCEPT !.into = b]
                             ELSE IF k.into = b THEN [k EXCEPT !.into = "none"] ELSE k
    BY DEF Follow
  <2>. HIDE DEF k
  <2>3. LET m == [k EXCEPT !.into = b]  o == [k EXCEPT !.into = "none"]
        IN  /\ m \in HookRec /\ m.at = k.at /\ m.s = k.s /\ m.ex = k.ex /\ m.user = k.user
            /\ m.seen = k.seen /\ m.into = b /\ m.victim = k.victim /\ m.late = k.late /\ m.parts = k.parts
            /\ o \in HookRec /\ o.at = k.at /\ o.s = k.s /\ o.ex = k.ex /\ o.user = k.user
            /\ o.seen = k.seen /\ o.into = "none" /\ o.victim = k.victim /\ o.late = k.late /\ o.parts = k.parts
    <3>1. b \in {"none", "pend", "tmp", "arch"} /\ "none" \in {"none", "pend", "tmp", "arch"}
      OBVIOUS
    <3>. QED BY Zenon, <2>1, <3>1, SetInto
  <2>. QED BY <2>1, <2>2, <2>3 DEF k
<1>2. Follow(s, a, b) = [g \in Hooks |-> Follow(s, a, b)[g]]
  BY DEF Follow
<1>3. Follow(s, a, b) \in [Hooks -> HookRec]
  BY <1>1, <1>2
<1>. QED BY <1>1, <1>3

(* A hook that another process's step leaves where it is. *)
Carried(g) ==
    /\ hk'[g].at = hk[g].at /\ hk'[g].s = hk[g].s /\ hk'[g].ex = hk[g].ex /\ hk'[g].user = hk[g].user
    /\ hk'[g].seen = hk[g].seen /\ hk'[g].victim = hk[g].victim
    /\ hk'[g].late = hk[g].late /\ hk'[g].parts = hk[g].parts
    /\ hk'[g].into # "none" => hk[g].into # "none"

LEMMA OthersCarried == ASSUME NEW h \in Hooks, Others(h) PROVE \A g \in Hooks \ {h} : Carried(g)
BY DEF Others, Carried

LEMMA RenameHook ==
    ASSUME TypeInv, NEW h \in Hooks, RenameTmp(h), file[hk[h].s]["tmp"] # NoFile
    PROVE  /\ hk' \in [Hooks -> HookRec] /\ hk[h].at = "rename" /\ hk[h].s \in Sessions
           /\ hk'[h].at = "prune" /\ hk'[h].s = hk[h].s /\ hk'[h].into = "none"
           /\ \A g \in Hooks \ {h} : /\ Carried(g)
                                     /\ hk[g].s # hk[h].s => hk'[g] = hk[g]
<1>. DEFINE s == hk[h].s
            f == Follow(s, "tmp", "pend")
<1>1. hk[h].at = "rename" /\ s \in Sessions
  BY Zenon DEF TypeInv, RenameTmp, HookOK
<1>2. hk' = [f EXCEPT ![h] = [Free EXCEPT !.at = "prune", !.s = s]]
  BY DEF RenameTmp
<1>3. /\ f \in [Hooks -> HookRec]
      /\ \A g \in Hooks : LET k == hk[g]  n == f[g] IN
           /\ n.at = k.at /\ n.s = k.s /\ n.ex = k.ex /\ n.user = k.user /\ n.seen = k.seen
           /\ n.victim = k.victim /\ n.late = k.late /\ n.parts = k.parts
           /\ n.into # "none" => k.into # "none"
           /\ k.s # s => n = k
  BY <1>1, FollowHooks
<1>4. LET n == [Free EXCEPT !.at = "prune", !.s = s]
      IN  n \in HookRec /\ n.at = "prune" /\ n.s = s /\ n.into = "none"
  BY Zenon, <1>1, SetPrune
<1>. HIDE DEF f
<1>5. /\ hk' \in [Hooks -> HookRec] /\ hk'[h] = [Free EXCEPT !.at = "prune", !.s = s]
      /\ \A g \in Hooks \ {h} : hk'[g] = f[g]
  BY <1>2, <1>3, <1>4
<1>. QED BY <1>1, <1>3, <1>4, <1>5 DEF Carried

LEMMA RemoveHook ==
    ASSUME TypeInv, NEW h \in Hooks, PruneRemove(h)
    PROVE  /\ hk' \in [Hooks -> HookRec] /\ hk[h].at = "remove" /\ hk[h].victim \in Sessions
           /\ hk'[h].at = "prune" /\ hk'[h].s = hk[h].s /\ hk'[h].into = "none"
           /\ \A g \in Hooks \ {h} : /\ Carried(g)
                                     /\ hk[g].into = "tmp" => hk'[g].into = "tmp"
<1>. DEFINE s == hk[h].victim
            f == Follow(s, "gone", "pend")
<1>1. hk[h].at = "remove" /\ s \in Sessions
  BY DEF TypeInv, PruneRemove, HookOK
<1>2. hk' = [f EXCEPT ![h].at = "prune", ![h].victim = "none"]
  BY DEF PruneRemove
<1>3. /\ f \in [Hooks -> HookRec]
      /\ \A g \in Hooks : LET k == hk[g]  n == f[g] IN
           /\ n.at = k.at /\ n.s = k.s /\ n.ex = k.ex /\ n.user = k.user /\ n.seen = k.seen
           /\ n.victim = k.victim /\ n.late = k.late /\ n.parts = k.parts
           /\ n.into = k.into \/ (k.into = "gone" /\ n.into = "pend" /\ k.s = s) \/ (k.into = "pend" /\ n.into = "none" /\ k.s = s)
  BY <1>1, FollowHooks
<1>4. hk[h] \in HookRec /\ f[h] \in HookRec /\ \A g \in Hooks : hk[g].into \in {"none", "pend", "tmp", "arch"}
  BY <1>3 DEF TypeInv, HookRec
<1>5. hk[h].into = "none"
  BY Zenon, <1>1 DEF TypeInv, HookOK
<1>6. "prune" \in Stages
  BY DEF Stages
<1>7. LET n == Aiming(f[h], "prune", "none")
      IN  n \in HookRec /\ n.at = "prune" /\ n.s = f[h].s /\ n.into = f[h].into
  BY <1>4, <1>6, SetVictim
<1>. HIDE DEF f, s
<1>8. hk' = [f EXCEPT ![h] = Aiming(f[h], "prune", "none")]
  BY Zenon, <1>2, <1>3 DEF Aiming
<1>9. /\ hk' \in [Hooks -> HookRec] /\ hk'[h] = Aiming(f[h], "prune", "none")
      /\ \A g \in Hooks \ {h} : hk'[g] = f[g]
  BY <1>3, <1>7, <1>8
<1>. QED BY <1>1, <1>3, <1>4, <1>5, <1>7, <1>9 DEF Carried, s

LEMMA ArchiveHooks ==
    ASSUME TypeInv, NEW s \in Sessions, hk' = Follow(s, "pend", "arch")
    PROVE  /\ hk' \in [Hooks -> HookRec]
           /\ \A g \in Hooks : /\ Carried(g)
                               /\ hk[g].into = "tmp" => hk'[g].into = "tmp"
<1>1. \A g \in Hooks : hk[g].into \in {"none", "pend", "tmp", "arch"}
  BY DEF TypeInv, HookRec
<1>. QED BY <1>1, FollowHooks DEF Carried

LEMMA TakeReadHook ==
    ASSUME TypeInv, NEW h \in Hooks, TakeRead(h)
    PROVE  /\ hk' \in [Hooks -> HookRec] /\ Others(h) /\ hk[h].at = "take" /\ hk[h].s \in Sessions
           /\ hk'[h].at = IF prompt[hk[h].s] = -1 THEN "records" ELSE "taken"
           /\ hk'[h].user = IF prompt[hk[h].s] = -1 THEN 0 ELSE prompt[hk[h].s]
           /\ hk'[h].s = hk[h].s /\ hk'[h].ex = hk[h].ex /\ hk'[h].into = hk[h].into
<1>. DEFINE at == IF prompt[hk[h].s] = -1 THEN "records" ELSE "taken"
            u  == IF prompt[hk[h].s] = -1 THEN 0 ELSE prompt[hk[h].s]
<1>1. hk[h].at = "take" /\ hk[h].s \in Sessions /\ hk[h] \in HookRec
  BY DEF TypeInv, TakeRead, HookOK
<1>2. at \in Stages /\ u \in Nat
  BY <1>1 DEF TypeInv, SessionOK, Stages, Unwritten
<1>3. hk' = [hk EXCEPT ![h] = Taking(hk[h], at, u)]
  BY Zenon DEF TakeRead, TypeInv, Taking
<1>. HIDE DEF at, u
<1>4. LET n == Taking(hk[h], at, u)
      IN  n \in HookRec /\ n.at = at /\ n.s = hk[h].s /\ n.ex = hk[h].ex /\ n.user = u /\ n.into = hk[h].into
  BY <1>1, <1>2, SetUser
<1>5. hk' \in [Hooks -> HookRec] /\ Others(h) /\ hk'[h] = Taking(hk[h], at, u)
  BY Zenon, <1>3, <1>4, OneHook DEF TypeInv
<1>. QED BY <1>1, <1>4, <1>5 DEF at, u

LEMMA TextsType ==
    ASSUME NEW x, NEW n \in Nat
    PROVE  TextsOf(x, n) \in Seq(1 .. n) /\ TextsOf(x, n) \in Seq(Nat)
<1>1. [k \in 1 .. n |-> k] \in Seq(1 .. n)
  OBVIOUS
<1>2. TextsOf(x, n) \in Seq(1 .. n)
  BY Zenon, <1>1, PickElements DEF TextsOf
<1>. QED BY <1>2

LEMMA LatestTurnHook ==
    ASSUME TypeInv, NEW h \in Hooks, LatestTurn(h)
    PROVE  LET s == hk[h].s  known == hk[h].final \/ Settled(s)
           IN  /\ hk' \in [Hooks -> HookRec] /\ Others(h) /\ hk[h].at = "transcript" /\ s \in Sessions
               /\ hk'[h].at = "records" /\ hk'[h].s = s /\ hk'[h].ex = hk[h].ex /\ hk'[h].user = asked[s]
               /\ hk'[h].into = hk[h].into /\ (~hk'[h].late => known)
               /\ hk'[h].parts = NewestParts(Completed(s, hk[h].final))
<1>. DEFINE s == hk[h].s
            known == hk[h].final \/ Settled(s)
            late == ~known
            parts == NewestParts(Completed(s, hk[h].final))
<1>1. hk[h].at = "transcript" /\ s \in Sessions /\ hk[h] \in HookRec /\ asked[s] \in Nat
  BY DEF TypeInv, LatestTurn, HookOK
<1>2. parts \in Seq(Nat)
  <2>. DEFINE c == Completed(s, hk[h].final)
  <2>1. c \in Seq(Nat)
    <3>1. script[s].landed \in Nat /\ script[s].shape \in Shapes
      BY Zenon, <1>1 DEF TypeInv, HookOK
    <3>2. Texts(s) \in Seq(Nat)
      BY <3>1, TextsType DEF Texts
    <3>3. Len(script[s].shape) \in Nat
      BY <3>1, CaptureAssumption
    <3>. QED BY <3>2, <3>3 DEF Completed
  <2>. HIDE DEF c
  <2>2. NewestParts(c) \in Seq(Nat)
    BY <2>1, CaptureAssumption DEF NewestParts
  <2>. QED BY <2>2 DEF c
<1>3. late \in BOOLEAN
  OBVIOUS
<1>4. hk' = [hk EXCEPT ![h] = Replying(hk[h], asked[s], late, parts)]
  BY Zenon DEF LatestTurn, TypeInv, Replying
<1>5. ~late => known
  OBVIOUS
<1>. HIDE DEF late, parts, known
<1>6. LET n == Replying(hk[h], asked[s], late, parts)
      IN  /\ n \in HookRec /\ n.at = "records" /\ n.s = s /\ n.ex = hk[h].ex /\ n.user = asked[s]
          /\ n.into = hk[h].into /\ n.late = late /\ n.parts = parts
  BY <1>1, <1>2, <1>3, SetReply
<1>7. /\ hk' \in [Hooks -> HookRec] /\ Others(h)
      /\ hk'[h] = Replying(hk[h], asked[s], late, parts)
  BY Zenon, <1>4, <1>6, OneHook DEF TypeInv
<1>8. hk'[h].late = late
  BY <1>6, <1>7
<1>9. ~hk'[h].late => known
  BY <1>5, <1>8
<1>. QED BY <1>1, <1>6, <1>7, <1>9 DEF parts, known

LEMMA PruneStatHook ==
    ASSUME TypeInv, NEW h \in Hooks, PruneStat(h)
    PROVE  /\ hk' \in [Hooks -> HookRec] /\ Others(h) /\ hk[h].at = "prune" /\ hk'[h].into = "none"
           /\ \/ hk'[h].at = "free"
              \/ /\ hk'[h].at = "remove" /\ hk'[h].s = hk[h].s
                 /\ hk'[h].victim \in Sessions /\ age[hk'[h].victim] = 2
<1>1. hk[h].at = "prune" /\ hk[h] \in HookRec /\ hk[h].into = "none" /\ "remove" \in Stages
  BY Zenon DEF TypeInv, PruneStat, HookOK, Stages
<1>2. CASE Ends(h)
  BY <1>1, <1>2, EndsHook
<1>3. ASSUME NEW s \in SQ!ToSet(List), TooOld(s), hk' = [hk EXCEPT ![h].at = "remove", ![h].victim = s]
      PROVE  /\ hk' \in [Hooks -> HookRec] /\ Others(h) /\ hk'[h].at = "remove" /\ hk'[h].s = hk[h].s
             /\ hk'[h].victim = s /\ s \in Sessions /\ hk'[h].into = "none"
  <2>1. s \in Sessions
    <3>1. List \in Seq(Sessions)
      BY PickElements DEF List, TypeInv
    <3>2. PICK i \in DOMAIN List : s = List[i]
      BY DEF SQ!ToSet
    <3>. QED BY <3>1, <3>2
  <2>2. hk' = [hk EXCEPT ![h] = Aiming(hk[h], "remove", s)]
    BY Zenon, <1>3 DEF TypeInv, Aiming
  <2>3. LET n == Aiming(hk[h], "remove", s)
        IN  n \in HookRec /\ n.at = "remove" /\ n.s = hk[h].s /\ n.into = hk[h].into /\ n.victim = s
    BY <1>1, <2>1, SetVictim
  <2>4. hk' \in [Hooks -> HookRec] /\ Others(h) /\ hk'[h] = Aiming(hk[h], "remove", s)
    BY Zenon, <2>2, <2>3, OneHook DEF TypeInv
  <2>. QED BY <1>1, <2>1, <2>3, <2>4
<1>4. Ends(h) \/ \E s \in SQ!ToSet(List) : TooOld(s) /\ hk' = [hk EXCEPT ![h].at = "remove", ![h].victim = s]
  BY DEF PruneStat
<1>. QED BY <1>1, <1>2, <1>3, <1>4 DEF TooOld

-----------------------------------------------------------------------------
(* Counting the hooks that have a turn to write *)

LEMMA Counting ==
    ASSUME NEW A, A \subseteq Hooks
    PROVE  /\ IsFiniteSet(A) /\ Cardinality(A) \in Nat /\ Cardinality(A) <= Cardinality(Hooks)
           /\ \A h \in A : Cardinality(A \ {h}) = Cardinality(A) - 1 /\ Cardinality(A) >= 1
           /\ \A h \in Hooks \ A : Cardinality(A \cup {h}) = Cardinality(A) + 1
<1>1. IsFiniteSet(A) /\ Cardinality(A) \in Nat /\ Cardinality(A) <= Cardinality(Hooks)
  BY CaptureAssumption, FS_Subset, FS_CardinalityType
<1>2. ASSUME NEW h \in A PROVE Cardinality(A \ {h}) = Cardinality(A) - 1 /\ Cardinality(A) >= 1
  <2>1. IsFiniteSet(A \ {h}) /\ Cardinality(A \ {h}) = Cardinality(A) - 1
    BY <1>1, FS_RemoveElement
  <2>2. Cardinality(A \ {h}) \in Nat
    BY <2>1, FS_CardinalityType
  <2>. QED BY <1>1, <2>1, <2>2
<1>3. ASSUME NEW h \in Hooks \ A PROVE Cardinality(A \cup {h}) = Cardinality(A) + 1
  BY Zenon, <1>1, FS_AddElement
<1>. QED BY <1>1, <1>2, <1>3

Grows == \A s \in Sessions :
    asked'[s] \in Nat /\ asked[s] <= asked'[s] /\ Written(s)' \in Nat /\ Written(s) <= Written(s)'

LEMMA FiredType ==
    ASSUME TypeInv, NEW s \in Sessions
    PROVE  Fired(s) \in Int /\ asked[s] \in Nat /\ stops[s] \in Nat /\ Written(s) \in Nat
<1>1. asked[s] \in Nat /\ stops[s] \in Nat /\ Written(s) \in Nat
  BY DEF TypeInv, SessionOK
<1>2. Fired(s) \in Int
  BY <1>1 DEF Fired
<1>. QED BY <1>1, <1>2

(* No hook begins or ends to have a turn to write. *)
LEMMA NoneWaits ==
    ASSUME TypeInv, UNCHANGED <<asked, stops>>,
           \A g \in Hooks : \/ hk'[g].at = hk[g].at /\ hk'[g].s = hk[g].s
                            \/ hk'[g].at \notin Unwritten /\ hk[g].at \notin Unwritten
    PROVE  Grows
<1>1. \A s \in Sessions : Waiting(s)' = Waiting(s)
  BY DEF Waiting
<1>2. \A s \in Sessions : Fired(s)' = Fired(s)
  BY DEF Fired
<1>3. \A s \in Sessions : Written(s)' = Written(s)
  BY <1>1, <1>2 DEF Written
<1>. QED BY <1>3, FiredType DEF Grows

(* A hook stops having one: it wrote, or it will not. *)
LEMMA OneWrote ==
    ASSUME TypeInv, UNCHANGED <<asked, stops>>, NEW h \in Hooks, hk[h].at \in Unwritten, hk'[h].at \notin Unwritten,
           \A g \in Hooks \ {h} : Carried(g)
    PROVE  /\ Grows /\ hk[h].s \in Sessions
           /\ \A s \in Sessions : s = hk[h].s => Written(s)' = Written(s) + 1
<1>1. hk[h].s \in Sessions
  BY DEF TypeInv, HookOK, Unwritten
<1>2. \A s \in Sessions : Waiting(s)' = Waiting(s) \ {h}
  BY DEF Waiting, Carried
<1>3. \A s \in Sessions : Fired(s)' = Fired(s)
  BY DEF Fired
<1>4. \A s \in Sessions : h \in Waiting(s) <=> s = hk[h].s
  BY DEF Waiting
<1>5. ASSUME NEW s \in Sessions
      PROVE  /\ Written(s) \in Nat
             /\ Written(s)' = IF s = hk[h].s THEN Written(s) + 1 ELSE Written(s)
  <2>1. Fired(s) \in Int /\ Written(s) \in Nat
    BY FiredType
  <2>2. Waiting(s) \subseteq Hooks
    BY DEF Waiting
  <2>3. CASE s = hk[h].s
    <3>1. Cardinality(Waiting(s) \ {h}) = Cardinality(Waiting(s)) - 1 /\ Cardinality(Waiting(s)) \in Nat
      BY <1>4, <2>2, <2>3, Counting
    <3>. QED BY <1>2, <1>3, <2>1, <2>3, <3>1 DEF Written
  <2>4. CASE s # hk[h].s
    <3>1. Waiting(s) \ {h} = Waiting(s)
      BY <1>4, <2>4
    <3>. QED BY Zenon, <1>2, <1>3, <2>1, <2>4, <3>1 DEF Written
  <2>. QED BY <2>3, <2>4
<1>6. \A s \in Sessions : asked'[s] = asked[s] /\ asked[s] \in Nat
  BY FiredType
<1>7. \A s \in Sessions : Written(s)' \in Nat /\ Written(s) <= Written(s)'
  BY <1>5
<1>8. Grows
  BY <1>6, <1>7 DEF Grows
<1>. QED BY <1>1, <1>5, <1>8

(* A hook's step that begins no turn. *)
LEMMA HookCount ==
    ASSUME TypeInv, UNCHANGED <<asked, stops>>, NEW h \in Hooks, \A g \in Hooks \ {h} : Carried(g),
           hk'[h].at \in Unwritten => hk[h].at \in Unwritten /\ hk'[h].s = hk[h].s
    PROVE  Grows
<1>1. CASE hk[h].at \in Unwritten /\ hk'[h].at \notin Unwritten
  BY <1>1, OneWrote
<1>2. CASE hk[h].at \notin Unwritten /\ hk'[h].at \notin Unwritten
  BY <1>2, NoneWaits DEF Carried
<1>3. CASE hk[h].at \in Unwritten /\ hk'[h].at \in Unwritten
  <2>1. \A s \in Sessions : Waiting(s)' = Waiting(s)
    BY <1>3 DEF Waiting, Carried
  <2>2. \A s \in Sessions : Fired(s)' = Fired(s)
    BY DEF Fired
  <2>3. \A s \in Sessions : Written(s)' = Written(s)
    BY <2>1, <2>2 DEF Written
  <2>. QED BY <2>3, FiredType DEF Grows
<1>. QED BY <1>1, <1>2, <1>3

-----------------------------------------------------------------------------
(* Types *)

LEMMA HookStays ==
    ASSUME TypeInv, Grows, NEW g \in Hooks, Carried(g), hk' \in [Hooks -> HookRec],
           hk[g].at = "transcript" => script'[hk[g].s].shape \in Shapes
    PROVE  HookOK(g)'
<1>1. PICK s : s = hk[g].s
  OBVIOUS
<1>2. HookOK(g) /\ hk[g].ex \in Nat /\ hk[g].user \in Nat
  BY DEF TypeInv, HookRec
<1>3. /\ hk'[g].at = hk[g].at /\ hk'[g].s = s /\ hk'[g].ex = hk[g].ex /\ hk'[g].user = hk[g].user
      /\ hk'[g].seen = hk[g].seen /\ hk'[g].victim = hk[g].victim
      /\ (hk'[g].into # "none" => hk[g].into # "none")
  BY <1>1 DEF Carried
<1>4. CASE hk[g].at = "free" \/ s \notin Sessions
  BY <1>1, <1>2, <1>3, <1>4 DEF HookOK, Unwritten, Stashing, Writing, Rewriting
<1>5. CASE s \in Sessions
  <2>1. asked[s] \in Nat /\ Written(s) \in Nat
    BY <1>5, FiredType
  <2>2. asked'[s] \in Nat /\ asked[s] <= asked'[s] /\ Written(s)' \in Nat /\ Written(s) <= Written(s)'
    BY <1>5 DEF Grows
  <2>3. hk[g].at \in Writing => GoodRecs(hk[g].seen, Written(s)', asked'[s])
    BY <1>1, <1>2, <2>1, <2>2, GoodMore DEF HookOK
  <2>4. /\ hk[g].at \in Unwritten \cup Stashing \cup {"rename"} => hk[g].ex \in 1 .. asked'[s]
        /\ hk[g].at \in Unwritten \cup {"rename"} => hk[g].user \in 0 .. asked'[s]
    BY <1>1, <1>2, <2>1, <2>2 DEF HookOK
  <2>. QED BY <1>1, <1>2, <1>3, <2>3, <2>4 DEF HookOK
<1>. QED BY <1>4, <1>5

(* A session whose files, prompt and transcript a step leaves alone.       *)
LEMMA SessionStays ==
    ASSUME TypeInv, Grows, NEW s \in Sessions, asked'[s] = asked[s], stops'[s] = stops[s], script'[s] = script[s],
           prompt'[s] \in -1 .. asked[s],
           \A f \in Names : file'[s][f] = file[s][f] \/ GoodRecs(Recs(file'[s][f]), Written(s)', asked'[s])
    PROVE  SessionOK(s)'
<1>1. SessionOK(s) /\ asked[s] \in Nat /\ Written(s) \in Nat
  BY Zenon, FiredType DEF TypeInv
<1>2. Written(s)' \in Nat /\ Written(s) <= Written(s)'
  BY DEF Grows
<1>3. \A f \in Names : GoodRecs(Recs(file[s][f]), Written(s)', asked'[s])
  BY <1>1, <1>2, GoodMore DEF SessionOK
<1>4. \A f \in Names : GoodRecs(Recs(file'[s][f]), Written(s)', asked'[s])
  BY <1>3
<1>5. Fires(s)' = Fires(s)
  BY DEF Fires
<1>. QED BY <1>1, <1>2, <1>4, <1>5 DEF SessionOK

(* What a hook's step owes its own state. *)
LEMMA HookTyped ==
    ASSUME TypeInv, Grows, NEW h \in Hooks, hk' \in [Hooks -> HookRec], \A g \in Hooks \ {h} : Carried(g),
           HookOK(h)', UNCHANGED <<asked, stops, script>>,
           prompt' \in [Sessions -> Int], \A s \in Sessions : prompt'[s] \in -1 .. asked[s],
           file' \in [Sessions -> [Names -> Contents]],
           \A s \in Sessions : \A f \in Names :
              file'[s][f] = file[s][f] \/ GoodRecs(Recs(file'[s][f]), Written(s)', asked'[s]),
           order' \in Seq(Sessions), \A s \in Sessions : \E i \in DOMAIN order' : order'[i] = s,
           age' \in [Sessions -> 0 .. 2],
           kept' \in [Sessions -> SUBSET (Nat \X Nat)], gone' \in [Sessions -> SUBSET (Nat \X Nat)]
    PROVE  TypeInv'
<1>1. \A g \in Hooks : HookOK(g)'
  BY Zenon, HookStays DEF TypeInv, HookOK
<1>2. \A s \in Sessions : SessionOK(s)'
  BY SessionStays
<1>. QED BY <1>1, <1>2 DEF TypeInv

LEMMA SetToSeqIs ==
    ASSUME NEW S, IsFiniteSet(S)
    PROVE  SQ!SetToSeq(S) \in Seq(S) /\ \A s \in S : \E i \in DOMAIN SQ!SetToSeq(S) : SQ!SetToSeq(S)[i] = s
<1>. DEFINE n == Cardinality(S)
            P(f) == f \in [1 .. n -> S] /\ \A a, b \in DOMAIN f : f[a] = f[b] => a = b
<1>1. n \in Nat /\ ExistsBijection(1 .. n, S)
  BY FS_CardinalityType
<1>2. PICK g : g \in Bijection(1 .. n, S)
  BY <1>1 DEF ExistsBijection
<1>3. P(g)
  BY <1>2 DEF Bijection, Injection, IsInjective
<1>. DEFINE f == SQ!SetToSeq(S)
<1>4. f = CHOOSE x \in [1 .. n -> S] : \A a, b \in DOMAIN x : x[a] = x[b] => a = b
  BY DEF SQ!SetToSeq, SQ!IsInjective, SQ!Cardinality, Cardinality, SQ!IsFiniteSet, IsFiniteSet
<1>. HIDE DEF f, n
<1>5. P(f)
  <2>1. \E x \in [1 .. n -> S] : \A a, b \in DOMAIN x : x[a] = x[b] => a = b
    BY Zenon, <1>3
  <2>. QED BY Zenon, <1>4, <2>1
<1>6. f \in Injection(1 .. n, S)
  BY <1>5 DEF Injection, IsInjective
<1>7. IsFiniteSet(1 .. n) /\ Cardinality(1 .. n) = Cardinality(S)
  BY <1>1, FS_Interval DEF n
<1>8. f \in Surjection(1 .. n, S)
  BY <1>6, <1>7, FS_Injection
<1>9. \A s \in S : \E i \in 1 .. n : f[i] = s
  BY <1>8 DEF Surjection
<1>10. f \in Seq(S) /\ DOMAIN f = 1 .. n
  BY <1>1, <1>5
<1>. QED BY Zenon, <1>9, <1>10 DEF f

LEMMA EarlierGood ==
    ASSUME NEW s \in Sessions
    PROVE  LET q == Recs(Earlier[s])  a == NextTurn(Recs(Earlier[s])) - 1
           IN  /\ Earlier[s] \in Contents /\ a \in Nat /\ a <= MaxExchanges[s]
               /\ GoodRecs(q, a, a) /\ Len(q) <= MaxTurns
<1>. DEFINE q == Recs(Earlier[s])
            a == NextTurn(q) - 1
            m == MaxExchanges[s]
<1>1. m \in Nat
  BY CaptureAssumption
<1>2. Earlier[s] \in Contents /\ Len(q) <= MaxTurns /\ GoodRecs(q, m, m)
  <2>1. CASE Earlier[s] = NoFile
    <3>1. q = << >> /\ Earlier[s] \in Contents
      BY <2>1, RecsOf
    <3>. QED BY <3>1, EmptyGood, CaptureAssumption
  <2>2. CASE Earlier[s] # NoFile
    <3>1. Earlier[s] \in Seq(Rec) /\ Len(Earlier[s]) <= MaxTurns
      BY <2>2, EarlierAssumption DEF Rec
    <3>2. Earlier[s] \in Contents /\ q = Earlier[s]
      BY <3>1, RecsOf
    <3>3. ASSUME NEW i \in DOMAIN q, ~(i = 1 /\ q[i] = Marker)
          PROVE  q[i][1] \in 1 .. m /\ q[i][2] \in 0 .. m /\ q[i][3] \in 1 .. m
      <4>1. q[i][1] \in 1 .. m /\ q[i][2] \in {0, q[i][1]} /\ q[i][3] = q[i][1]
        BY <2>2, <3>2, <3>3, EarlierAssumption
      <4>. HIDE DEF q, m
      <4>. QED BY <1>1, <4>1
    <3>4. GoodRecs(q, m, m)
      BY <3>1, <3>2, <3>3 DEF GoodRecs
    <3>. QED BY <3>1, <3>2, <3>4
  <2>. QED BY <2>1, <2>2
<1>3. NextTurn(q) \in 1 .. m + 1 /\ \A i \in DOMAIN q : q[i][1] < NextTurn(q)
  BY <1>1, <1>2, NextTurnIs
<1>4. a \in Nat /\ a <= m
  BY <1>1, <1>3
<1>5. \A i \in DOMAIN q : q[i] # Marker => q[i][1] \in 1 .. a /\ q[i][2] \in {0, q[i][1]} /\ q[i][3] = q[i][1]
  <2>1. CASE Earlier[s] = NoFile
    BY <2>1, RecsOf
  <2>2. CASE Earlier[s] # NoFile
    <3>1. q = Earlier[s]
      BY <2>2 DEF Recs
    <3>2. \A i \in DOMAIN q : q[i] # Marker => q[i][1] \in 1 .. m /\ q[i][2] \in {0, q[i][1]} /\ q[i][3] = q[i][1]
      BY <2>2, <3>1, EarlierAssumption
    <3>. HIDE DEF q
    <3>. QED BY <1>1, <1>3, <1>4, <3>2
  <2>. QED BY <2>1, <2>2
<1>6. \A i \in DOMAIN q : q[i] # Marker => q[i][1] \in 1 .. a /\ q[i][2] \in 0 .. a /\ q[i][3] \in 1 .. a
  BY <1>4, <1>5
<1>7. \A i \in DOMAIN q : q[i] = Marker => i = 1
  <2>1. \A i \in DOMAIN q : i = 1 \/ q[i][1] \in 1 .. m
    BY <1>2 DEF GoodRecs
  <2>. QED BY <1>1, <2>1, MarkerType
<1>8. GoodRecs(q, a, a)
  <2>1. q \in Seq(Rec)
    BY <1>2 DEF GoodRecs
  <2>. HIDE DEF q, a
  <2>. QED BY <1>6, <1>7, <2>1 DEF GoodRecs
<1>. QED BY <1>2, <1>4, <1>8

LEMMA TypeInitial == ASSUME DistillInit PROVE TypeInv
<1>. DEFINE a(s) == NextTurn(Recs(Earlier[s])) - 1
<1>1. /\ asked = [s \in Sessions |-> a(s)] /\ stops = [s \in Sessions |-> Fires(s)]
      /\ script = [s \in Sessions |-> [shape |-> << >>, landed |-> 0]] /\ prompt = [s \in Sessions |-> -1]
      /\ file = [s \in Sessions |-> [f \in Names |-> IF f = "pend" THEN Earlier[s] ELSE NoFile]]
      /\ order = SQ!SetToSeq(Sessions) /\ age = [s \in Sessions |-> 2] /\ hk = [h \in Hooks |-> Free]
      /\ kept = [s \in Sessions |-> Turns(Earlier[s])] /\ gone = [s \in Sessions |-> {}]
  BY DEF DistillInit, Names
<1>2. \A s \in Sessions : /\ Earlier[s] \in Contents /\ a(s) \in Nat /\ a(s) <= MaxExchanges[s]
                          /\ GoodRecs(Recs(Earlier[s]), a(s), a(s))
  BY EarlierGood
<1>. HIDE DEF a
<1>3. asked \in [Sessions -> Nat] /\ stops \in [Sessions -> Nat] /\ prompt \in [Sessions -> Int] /\ age \in [Sessions -> 0 .. 2]
  BY <1>1, <1>2 DEF Fires
<1>4. script \in [Sessions -> [shape : Shapes \cup {<< >>}, landed : Nat]]
  BY <1>1
<1>5. file \in [Sessions -> [Names -> Contents]]
  BY <1>1, <1>2, RecsOf
<1>6. order \in Seq(Sessions) /\ \A s \in Sessions : \E i \in DOMAIN order : order[i] = s
  BY <1>1, SetToSeqIs, CaptureAssumption
<1>7. hk \in [Hooks -> HookRec] /\ \A h \in Hooks : hk[h].at = "free" /\ hk[h].into = "none"
  BY <1>1, FreeHook
<1>8. gone \in [Sessions -> SUBSET (Nat \X Nat)]
  BY <1>1
<1>9. kept \in [Sessions -> SUBSET (Nat \X Nat)]
  <2>1. ASSUME NEW s \in Sessions PROVE Turns(Earlier[s]) \subseteq Nat \X Nat
    <3>1. Recs(Earlier[s]) \in Seq(Rec)
      BY <1>2, RecsOf
    <3>2. \A i \in DOMAIN Recs(Earlier[s]) : Recs(Earlier[s])[i] \in Rec
      BY <3>1
    <3>. QED BY <3>2, RecType DEF Turns
  <2>. QED BY <1>1, <2>1
<1>10. \A h \in Hooks : HookOK(h)
  BY <1>7 DEF HookOK, Unwritten, Stashing, Writing, Rewriting
<1>11. ASSUME NEW s \in Sessions PROVE SessionOK(s)
  <2>1. asked[s] = a(s) /\ stops[s] = Fires(s) /\ script[s].shape = << >> /\ script[s].landed = 0 /\ prompt[s] = -1
    BY <1>1
  <2>2. Waiting(s) = {}
    BY <1>7 DEF Waiting, Unwritten
  <2>3. Cardinality(Waiting(s)) = 0
    BY <2>2, FS_EmptySet
  <2>4. Written(s) \in Nat /\ a(s) <= Written(s)
    BY <1>2, <2>1, <2>3 DEF Written, Fired, Fires
  <2>5. ASSUME NEW f \in Names PROVE GoodRecs(Recs(file[s][f]), Written(s), asked[s])
    <3>1. CASE f = "pend"
      <4>1. Recs(file[s][f]) = Recs(Earlier[s])
        BY <1>1, <3>1
      <4>. QED BY <1>2, <2>1, <2>4, <4>1, GoodMore
    <3>2. CASE f # "pend"
      <4>1. Recs(file[s][f]) = << >>
        BY <1>1, <3>2, RecsOf
      <4>. QED BY <4>1, EmptyGood
    <3>. QED BY <3>1, <3>2
  <2>. QED BY <1>2, <2>1, <2>4, <2>5 DEF SessionOK, Fires
<1>. QED BY <1>3, <1>4, <1>5, <1>6, <1>7, <1>8, <1>9, <1>10, <1>11 DEF TypeInv

-----------------------------------------------------------------------------
(* Each hook's step keeps the types. *)

LEMMA StashOpenTyped ==
    ASSUME TypeInv, NEW h \in Hooks, StashOpen(h)
    PROVE  TypeInv'
<1>1. /\ hk[h].at = "stash" /\ hk[h].s \in Sessions /\ To(h, "stashed") /\ "stashed" \in Stages
      /\ prompt' = [prompt EXCEPT ![hk[h].s] = 0]
      /\ UNCHANGED <<asked, stops, script, file, order, age, kept, gone>>
  BY DEF TypeInv, StashOpen, HookOK, Stages, Stashing, ghosts
<1>2. /\ hk' \in [Hooks -> HookRec] /\ Others(h) /\ hk'[h].at = "stashed" /\ hk'[h].s = hk[h].s
      /\ hk'[h].ex = hk[h].ex /\ hk'[h].into = hk[h].into
  BY <1>1, ToHook
<1>3. \A g \in Hooks \ {h} : Carried(g)
  BY <1>2, OthersCarried
<1>4. Grows
  BY <1>1, <1>2, <1>3, HookCount DEF Unwritten
<1>5. HookOK(h)'
  BY Zenon, <1>1, <1>2 DEF TypeInv, HookOK, Unwritten, Stashing, Writing, Rewriting
<1>6. prompt' \in [Sessions -> Int] /\ \A s \in Sessions : prompt'[s] \in -1 .. asked[s]
  <2>1. prompt \in [Sessions -> Int] /\ \A s \in Sessions : prompt[s] \in -1 .. asked[s] /\ asked[s] \in Nat
    BY FiredType DEF TypeInv, SessionOK
  <2>. QED BY <1>1, <2>1
<1>. QED BY Zenon, <1>1, <1>2, <1>3, <1>4, <1>5, <1>6, HookTyped DEF TypeInv

LEMMA StashWriteTyped ==
    ASSUME TypeInv, NEW h \in Hooks, StashWrite(h)
    PROVE  TypeInv'
<1>1. /\ hk[h].at = "stashed" /\ hk[h].s \in Sessions /\ Ends(h) /\ hk[h].ex \in 1 .. asked[hk[h].s]
      /\ prompt' = [prompt EXCEPT ![hk[h].s] = hk[h].ex]
      /\ UNCHANGED <<asked, stops, script, file, order, age, kept, gone>>
  BY Zenon DEF TypeInv, StashWrite, HookOK, Stashing, ghosts
<1>2. hk' \in [Hooks -> HookRec] /\ Others(h) /\ hk'[h].at = "free" /\ hk'[h].into = "none"
  BY <1>1, EndsHook
<1>3. \A g \in Hooks \ {h} : Carried(g)
  BY <1>2, OthersCarried
<1>4. Grows
  BY <1>1, <1>2, <1>3, HookCount DEF Unwritten
<1>5. HookOK(h)'
  BY <1>2 DEF HookOK, Unwritten, Stashing, Writing, Rewriting
<1>6. prompt' \in [Sessions -> Int] /\ \A s \in Sessions : prompt'[s] \in -1 .. asked[s]
  <2>1. prompt \in [Sessions -> Int] /\ \A s \in Sessions : prompt[s] \in -1 .. asked[s] /\ asked[s] \in Nat
    BY FiredType DEF TypeInv, SessionOK
  <2>. QED BY <1>1, <2>1
<1>. QED BY Zenon, <1>1, <1>2, <1>3, <1>4, <1>5, <1>6, HookTyped DEF TypeInv

LEMMA TakeReadTyped ==
    ASSUME TypeInv, NEW h \in Hooks, TakeRead(h)
    PROVE  TypeInv'
<1>1. UNCHANGED <<asked, stops, script, prompt, file, order, age, kept, gone>>
  BY DEF TakeRead, ghosts
<1>2. /\ hk' \in [Hooks -> HookRec] /\ Others(h) /\ hk[h].at = "take" /\ hk[h].s \in Sessions
      /\ hk'[h].at = IF prompt[hk[h].s] = -1 THEN "records" ELSE "taken"
      /\ hk'[h].user = IF prompt[hk[h].s] = -1 THEN 0 ELSE prompt[hk[h].s]
      /\ hk'[h].s = hk[h].s /\ hk'[h].ex = hk[h].ex /\ hk'[h].into = hk[h].into
  BY TakeReadHook
<1>3. \A g \in Hooks \ {h} : Carried(g)
  BY <1>2, OthersCarried
<1>4. Grows
  BY <1>1, <1>2, <1>3, HookCount DEF Unwritten
<1>5. \A s \in Sessions : prompt[s] \in -1 .. asked[s] /\ asked[s] \in Nat
  BY FiredType DEF TypeInv, SessionOK
<1>6. hk'[h].user \in 0 .. asked[hk[h].s]
  BY <1>2, <1>5
<1>7. HookOK(h)'
  BY Zenon, <1>1, <1>2, <1>6 DEF TypeInv, HookOK, Unwritten, Stashing, Writing, Rewriting
<1>. QED BY Zenon, <1>1, <1>2, <1>3, <1>4, <1>5, <1>7, HookTyped DEF TypeInv

LEMMA TakeRemoveTyped ==
    ASSUME TypeInv, NEW h \in Hooks, TakeRemove(h)
    PROVE  TypeInv'
<1>1. /\ hk[h].at = "taken" /\ hk[h].s \in Sessions /\ To(h, "records") /\ "records" \in Stages
      /\ prompt' = [prompt EXCEPT ![hk[h].s] = -1]
      /\ UNCHANGED <<asked, stops, script, file, order, age, kept, gone>>
  BY DEF TypeInv, TakeRemove, Taken, HookOK, Stages, Unwritten, ghosts
<1>2. /\ hk' \in [Hooks -> HookRec] /\ Others(h) /\ hk'[h].at = "records" /\ hk'[h].s = hk[h].s
      /\ hk'[h].ex = hk[h].ex /\ hk'[h].user = hk[h].user /\ hk'[h].into = hk[h].into
  BY <1>1, ToHook
<1>3. \A g \in Hooks \ {h} : Carried(g)
  BY <1>2, OthersCarried
<1>4. Grows
  BY <1>1, <1>2, <1>3, HookCount DEF Unwritten
<1>5. HookOK(h)'
  BY Zenon, <1>1, <1>2 DEF TypeInv, HookOK, Unwritten, Stashing, Writing, Rewriting
<1>6. prompt' \in [Sessions -> Int] /\ \A s \in Sessions : prompt'[s] \in -1 .. asked[s]
  BY <1>1, FiredType DEF TypeInv, SessionOK
<1>. QED BY Zenon, <1>1, <1>2, <1>3, <1>4, <1>5, <1>6, HookTyped DEF TypeInv

LEMMA LatestTurnTyped ==
    ASSUME TypeInv, NEW h \in Hooks, LatestTurn(h)
    PROVE  TypeInv'
<1>1. UNCHANGED <<asked, stops, script, prompt, file, order, age, kept, gone>>
  BY DEF LatestTurn, ghosts
<1>2. /\ hk' \in [Hooks -> HookRec] /\ Others(h) /\ hk[h].at = "transcript" /\ hk[h].s \in Sessions
      /\ hk'[h].at = "records" /\ hk'[h].s = hk[h].s /\ hk'[h].ex = hk[h].ex /\ hk'[h].user = asked[hk[h].s]
      /\ hk'[h].into = hk[h].into
  BY LatestTurnHook
<1>3. \A g \in Hooks \ {h} : Carried(g)
  BY <1>2, OthersCarried
<1>4. Grows
  BY <1>1, <1>2, <1>3, HookCount DEF Unwritten
<1>5. \A s \in Sessions : prompt[s] \in -1 .. asked[s] /\ asked[s] \in Nat
  BY FiredType DEF TypeInv, SessionOK
<1>6. hk'[h].user \in 0 .. asked[hk[h].s]
  BY <1>2, <1>5
<1>7. HookOK(h)'
  BY Zenon, <1>1, <1>2, <1>6 DEF TypeInv, HookOK, Unwritten, Stashing, Writing, Rewriting
<1>. QED BY Zenon, <1>1, <1>2, <1>3, <1>4, <1>5, <1>7, HookTyped DEF TypeInv

LEMMA KillTyped ==
    ASSUME TypeInv, NEW h \in Hooks, Kill(h)
    PROVE  TypeInv'
<1>1. Ends(h) /\ UNCHANGED <<asked, stops, script, prompt, file, order, age, kept, gone>>
  BY DEF Kill, ghosts
<1>2. hk' \in [Hooks -> HookRec] /\ Others(h) /\ hk'[h].at = "free" /\ hk'[h].into = "none"
  BY <1>1, EndsHook
<1>3. \A g \in Hooks \ {h} : Carried(g)
  BY <1>2, OthersCarried
<1>4. Grows
  BY <1>1, <1>2, <1>3, HookCount DEF Unwritten
<1>5. \A s \in Sessions : prompt[s] \in -1 .. asked[s]
  BY DEF TypeInv, SessionOK
<1>6. HookOK(h)'
  BY <1>2 DEF HookOK, Unwritten, Stashing, Writing, Rewriting
<1>. QED BY Zenon, <1>1, <1>2, <1>3, <1>4, <1>5, <1>6, HookTyped DEF TypeInv

LEMMA PruneStatTyped ==
    ASSUME TypeInv, NEW h \in Hooks, PruneStat(h)
    PROVE  TypeInv'
<1>1. UNCHANGED <<asked, stops, script, prompt, file, order, age, kept, gone>>
  BY DEF PruneStat, ghosts
<1>2. /\ hk' \in [Hooks -> HookRec] /\ Others(h) /\ hk[h].at = "prune" /\ hk'[h].into = "none"
      /\ \/ hk'[h].at = "free"
         \/ /\ hk'[h].at = "remove" /\ hk'[h].s = hk[h].s
            /\ hk'[h].victim \in Sessions /\ age[hk'[h].victim] = 2
  BY PruneStatHook
<1>3. \A g \in Hooks \ {h} : Carried(g)
  BY <1>2, OthersCarried
<1>4. Grows
  BY <1>1, <1>2, <1>3, HookCount DEF Unwritten
<1>5. \A s \in Sessions : prompt[s] \in -1 .. asked[s]
  BY DEF TypeInv, SessionOK
<1>6. HookOK(h)'
  BY Zenon, <1>2 DEF TypeInv, HookOK, Unwritten, Stashing, Writing, Rewriting
<1>. QED BY Zenon, <1>1, <1>2, <1>3, <1>4, <1>5, <1>6, HookTyped DEF TypeInv

LEMMA RecordsTyped ==
    ASSUME TypeInv, NEW h \in Hooks, Records(h)
    PROVE  TypeInv'
<1>. DEFINE q == Recs(file[hk[h].s]["pend"])
<1>1. UNCHANGED <<asked, stops, script, prompt, file, order, age, kept, gone>>
  BY DEF Records, ghosts
<1>2. /\ hk' \in [Hooks -> HookRec] /\ Others(h) /\ hk[h].at = "records"
      /\ hk'[h].at = IF IsFull(q) THEN "create" ELSE "append"
      /\ hk'[h].s = hk[h].s /\ hk'[h].ex = hk[h].ex /\ hk'[h].user = hk[h].user
      /\ hk'[h].seen = q /\ hk'[h].into = hk[h].into
  BY RecordsHook
<1>3. \A g \in Hooks \ {h} : Carried(g)
  BY <1>2, OthersCarried
<1>4. Grows
  BY <1>1, <1>2, <1>3, HookCount DEF Unwritten
<1>5. \A s \in Sessions : prompt[s] \in -1 .. asked[s]
  BY DEF TypeInv, SessionOK
<1>6. PICK s \in Sessions : s = hk[h].s
  BY Zenon, <1>2 DEF TypeInv, HookOK
<1>7. GoodRecs(q, Written(s)', asked[s])
  <2>1. GoodRecs(q, Written(s), asked[s]) /\ asked[s] \in Nat /\ Written(s) \in Nat
    BY Zenon, <1>6, FiredType DEF TypeInv, SessionOK, Names
  <2>. QED BY <1>1, <1>4, <2>1, GoodMore DEF Grows
<1>8. IsFull(q) <=> Len(q) >= MaxTurns
  BY DEF IsFull
<1>. HIDE DEF q
<1>9. HookOK(h)'
  BY Zenon, <1>1, <1>2, <1>6, <1>7, <1>8 DEF TypeInv, HookOK, Unwritten, Stashing, Writing, Rewriting
<1>. QED BY Zenon, <1>1, <1>2, <1>3, <1>4, <1>5, <1>9, HookTyped DEF TypeInv

(* A written buffer is the newest. *)
LEMMA TouchTyped ==
    ASSUME TypeInv, NEW s \in Sessions, Touch(s)
    PROVE  /\ order' \in Seq(Sessions) /\ \A t \in Sessions : \E i \in DOMAIN order' : order'[i] = t
           /\ age' \in [Sessions -> 0 .. 2] /\ age' = [age EXCEPT ![s] = 0]
<1>. DEFINE p == Pick(order, Sessions \ {s})
            q == <<s>> \o p
<1>1. /\ order \in Seq(Sessions) /\ \A t \in Sessions : \E i \in DOMAIN order : order[i] = t
      /\ order' = q /\ age' = [age EXCEPT ![s] = 0] /\ age \in [Sessions -> 0 .. 2]
  BY Zenon DEF TypeInv, Touch
<1>2. /\ p \in Seq(Sessions)
      /\ \A j \in DOMAIN order : order[j] \in Sessions \ {s} => \E i \in DOMAIN p : p[i] = order[j]
  <2>1. order \in Seq(Sessions)
    BY <1>1
  <2>. QED BY <2>1, PickElements
<1>. HIDE DEF p
<1>3. q \in Seq(Sessions) /\ q[1] = s /\ 1 \in DOMAIN q /\ \A i \in DOMAIN p : i + 1 \in DOMAIN q /\ q[i + 1] = p[i]
  BY <1>2
<1>. HIDE DEF q
<1>4. ASSUME NEW t \in Sessions PROVE \E i \in DOMAIN q : q[i] = t
  <2>1. CASE t = s
    BY <1>3, <2>1
  <2>2. CASE t # s
    <3>1. PICK i \in DOMAIN p : p[i] = t
      BY <1>1, <1>2, <2>2
    <3>. QED BY <1>3, <3>1
  <2>. QED BY <2>1, <2>2
<1>. QED BY <1>1, <1>3, <1>4

(* The record a hook writes. *)
LEMMA RecordIs ==
    ASSUME TypeInv, NEW h \in Hooks, hk[h].at \in Writing
    PROVE  /\ hk[h].s \in Sessions /\ hk[h].seen \in Seq(Rec)
           /\ Record(h) \in Rec /\ Record(h)[1] \in 1 .. Written(hk[h].s) + 1
           /\ Record(h)[2] \in 0 .. asked[hk[h].s] /\ Record(h)[3] \in 1 .. asked[hk[h].s]
           /\ Record(h)[2] = hk[h].user /\ Record(h)[3] = hk[h].ex /\ Record(h)[3] # 0
           /\ \A i \in DOMAIN hk[h].seen : hk[h].seen[i][1] < Record(h)[1]
<1>1. PICK s \in Sessions : s = hk[h].s
  BY DEF TypeInv, HookOK, Writing
<1>2. /\ GoodRecs(hk[h].seen, Written(s), asked[s]) /\ Written(s) \in Nat /\ asked[s] \in Nat
      /\ hk[h].ex \in 1 .. asked[s] /\ hk[h].user \in 0 .. asked[s]
  BY Zenon, <1>1, FiredType DEF TypeInv, HookOK, Writing, Unwritten
<1>3. NextTurn(hk[h].seen) \in 1 .. Written(s) + 1 /\ \A i \in DOMAIN hk[h].seen : hk[h].seen[i][1] < NextTurn(hk[h].seen)
  BY <1>2, NextTurnIs
<1>4. NextTurn(hk[h].seen) \in Nat /\ hk[h].user \in Nat /\ hk[h].ex \in Nat /\ hk[h].ex # 0
  BY <1>2, <1>3
<1>5. /\ Record(h) \in Rec /\ Record(h)[1] = NextTurn(hk[h].seen)
      /\ Record(h)[2] = hk[h].user /\ Record(h)[3] = hk[h].ex
  BY <1>4, RecMade DEF Record
<1>6. hk[h].seen \in Seq(Rec)
  BY <1>2 DEF GoodRecs
<1>. QED BY <1>1, <1>2, <1>3, <1>4, <1>5, <1>6

LEMMA FilesMore ==
    ASSUME TypeInv, Grows, NEW s \in Sessions, NEW f \in Names
    PROVE  GoodRecs(Recs(file[s][f]), Written(s)', asked'[s])
<1>1. GoodRecs(Recs(file[s][f]), Written(s), asked[s]) /\ asked[s] \in Nat /\ Written(s) \in Nat
  BY FiredType DEF TypeInv, SessionOK
<1>. QED BY <1>1, GoodMore DEF Grows

LEMMA PutIn ==
    ASSUME NEW X, NEW F \in [Sessions -> SUBSET X], NEW s \in Sessions, NEW new, new \subseteq X
    PROVE  [F EXCEPT ![s] = @ \cup new] \in [Sessions -> SUBSET X]
OBVIOUS

LEMMA KeptTyped ==
    ASSUME TypeInv, NEW h \in Hooks, hk[h].at \in Writing, Kept(h)
    PROVE  /\ kept' \in [Sessions -> SUBSET (Nat \X Nat)]
           /\ kept' = [kept EXCEPT ![hk[h].s] = @ \cup {<<hk[h].user, hk[h].ex>>}]
<1>1. hk[h].s \in Sessions /\ hk[h].user \in Nat /\ hk[h].ex \in Nat
  BY Zenon, RecordIs DEF TypeInv, HookRec
<1>2. kept' = [kept EXCEPT ![hk[h].s] = @ \cup {<<hk[h].user, hk[h].ex>>}]
  BY DEF Kept
<1>3. {<<hk[h].user, hk[h].ex>>} \subseteq Nat \X Nat /\ kept \in [Sessions -> SUBSET (Nat \X Nat)]
  BY <1>1 DEF TypeInv
<1>. QED BY Zenon, <1>1, <1>2, <1>3, PutIn

LEMMA GoneTyped ==
    ASSUME TypeInv, NEW s \in Sessions, NEW T, T \subseteq Nat \X Nat, gone' = [gone EXCEPT ![s] = @ \cup T]
    PROVE  gone' \in [Sessions -> SUBSET (Nat \X Nat)]
<1>1. gone \in [Sessions -> SUBSET (Nat \X Nat)]
  BY DEF TypeInv
<1>. QED BY Zenon, <1>1, PutIn

LEMMA TurnsType == \A q \in Seq(Rec) : Turns(q) \subseteq Nat \X Nat
<1>1. ASSUME NEW q \in Seq(Rec), NEW t \in Turns(q) PROVE t \in Nat \X Nat
  <2>1. PICK i \in DOMAIN q : t = <<q[i][2], q[i][3]>>
    BY TurnsOf
  <2>2. q[i] \in Rec
    OBVIOUS
  <2>. QED BY <2>1, <2>2, RecType
<1>. QED BY <1>1

LEMMA ContentsType ==
    ASSUME TypeInv, NEW s \in Sessions, NEW f \in Names
    PROVE  /\ file[s][f] \in Contents /\ Recs(file[s][f]) \in Seq(Rec) /\ Turns(file[s][f]) \subseteq Nat \X Nat
           /\ Turns(file[s][f]) = Turns(Recs(file[s][f]))
<1>1. file[s][f] \in Contents
  BY DEF TypeInv
<1>. QED BY <1>1, RecsOf, TurnsRecs, TurnsType

(* A file that is renamed. *)
LEMMA MovedIs ==
    ASSUME TypeInv, NEW s \in Sessions, NEW a \in Names, NEW b \in Names, a # b
    PROVE  /\ Moved(s, a, b) \in [Sessions -> [Names -> Contents]]
           /\ Moved(s, a, b)[s][b] = file[s][a] /\ Moved(s, a, b)[s][a] = NoFile
           /\ \A t \in Sessions : \A f \in Names : (t # s \/ f \notin {a, b}) => Moved(s, a, b)[t][f] = file[t][f]
<1>1. file \in [Sessions -> [Names -> Contents]] /\ NoFile \in Contents
  BY RecsOf DEF TypeInv
<1>. QED BY <1>1 DEF Moved

LEMMA AppendLineTyped ==
    ASSUME TypeInv, NEW h \in Hooks, AppendLine(h)
    PROVE  TypeInv'
<1>1. PICK s \in Sessions : s = hk[h].s
  BY Zenon DEF TypeInv, AppendLine, HookOK
<1>2. /\ hk[h].at = "append" /\ file' = [file EXCEPT ![s]["pend"] = Append(Recs(file[s]["pend"]), Record(h))]
      /\ Touch(s) /\ Kept(h) /\ UNCHANGED <<asked, stops, script, prompt, gone>>
  BY <1>1 DEF AppendLine, LineAdded
<1>3. /\ hk' \in [Hooks -> HookRec] /\ Others(h) /\ hk'[h].at = "prune" /\ hk'[h].s = s /\ hk'[h].into = "none"
      /\ \A g \in Hooks \ {h} : Carried(g)
  BY <1>1, AppendHook, OthersCarried
<1>4. Grows /\ Written(s)' = Written(s) + 1
  BY <1>1, <1>2, <1>3, OneWrote DEF Unwritten
<1>5. /\ Record(h) \in Rec /\ Record(h)[1] \in 1 .. Written(s) + 1
      /\ Record(h)[2] \in 0 .. asked[s] /\ Record(h)[3] \in 1 .. asked[s]
  BY <1>1, <1>2, RecordIs DEF Writing
<1>6. GoodRecs(Append(Recs(file[s]["pend"]), Record(h)), Written(s)', asked'[s])
  <2>1. GoodRecs(Recs(file[s]["pend"]), Written(s)', asked'[s])
    BY <1>4, FilesMore DEF Names
  <2>. QED BY <1>2, <1>4, <1>5, <2>1, GoodAppend
<1>7. Append(Recs(file[s]["pend"]), Record(h)) \in Contents
  BY Zenon, <1>6, RecsOf DEF GoodRecs
<1>8. /\ file' \in [Sessions -> [Names -> Contents]]
      /\ \A t \in Sessions : \A f \in Names :
            file'[t][f] = file[t][f] \/ GoodRecs(Recs(file'[t][f]), Written(t)', asked'[t])
  <2>. DEFINE q == Append(Recs(file[s]["pend"]), Record(h))
  <2>1. Recs(q) = q
    BY Zenon, <1>6, RecsOf DEF GoodRecs
  <2>2. GoodRecs(Recs(q), Written(s)', asked'[s]) /\ q \in Contents /\ file' = [file EXCEPT ![s]["pend"] = q]
    BY <1>2, <1>6, <1>7, <2>1
  <2>. HIDE DEF q
  <2>3. file \in [Sessions -> [Names -> Contents]] /\ "pend" \in Names
    BY DEF TypeInv, Names
  <2>. QED BY <2>2, <2>3
<1>9. order' \in Seq(Sessions) /\ (\A t \in Sessions : \E i \in DOMAIN order' : order'[i] = t) /\ age' \in [Sessions -> 0 .. 2]
  BY <1>2, TouchTyped
<1>10. kept' \in [Sessions -> SUBSET (Nat \X Nat)] /\ gone' \in [Sessions -> SUBSET (Nat \X Nat)]
  BY Zenon, <1>2, KeptTyped DEF TypeInv, Writing
<1>11. HookOK(h)'
  BY <1>1, <1>3 DEF HookOK, Unwritten, Stashing, Writing, Rewriting
<1>12. prompt' \in [Sessions -> Int] /\ \A t \in Sessions : prompt'[t] \in -1 .. asked[t]
  BY Zenon, <1>2 DEF TypeInv, SessionOK
<1>. QED BY Zenon, <1>2, <1>3, <1>4, <1>8, <1>9, <1>10, <1>11, <1>12, HookTyped

LEMMA CreateTmpTyped ==
    ASSUME TypeInv, NEW h \in Hooks, CreateTmp(h)
    PROVE  TypeInv'
<1>1. PICK s \in Sessions : s = hk[h].s
  BY Zenon DEF TypeInv, CreateTmp, HookOK
<1>2. file' = [file EXCEPT ![s]["tmp"] = << >>] /\ UNCHANGED <<asked, stops, script, prompt, order, age, kept, gone>>
  BY <1>1 DEF CreateTmp, ghosts
<1>3. /\ hk' \in [Hooks -> HookRec] /\ Others(h) /\ hk[h].at = "create"
      /\ hk'[h].at = "flush" /\ hk'[h].s = s /\ hk'[h].ex = hk[h].ex /\ hk'[h].user = hk[h].user
      /\ hk'[h].seen = hk[h].seen /\ hk'[h].into = "tmp"
      /\ \A g \in Hooks \ {h} : Carried(g)
  BY <1>1, CreateHook, OthersCarried
<1>4. Grows
  BY <1>1, <1>2, <1>3, HookCount DEF Unwritten
<1>5. HookOK(h)'
  <2>1. GoodRecs(hk[h].seen, Written(s)', asked'[s])
    <3>1. GoodRecs(hk[h].seen, Written(s), asked[s]) /\ asked[s] \in Nat /\ Written(s) \in Nat
      BY Zenon, <1>1, <1>3, FiredType DEF TypeInv, HookOK, Writing
    <3>. QED BY <1>4, <3>1, GoodMore DEF Grows
  <2>. QED BY Zenon, <1>1, <1>2, <1>3, <2>1 DEF TypeInv, HookOK, Unwritten, Stashing, Writing, Rewriting
<1>6. /\ file' \in [Sessions -> [Names -> Contents]]
      /\ \A t \in Sessions : \A f \in Names :
            file'[t][f] = file[t][f] \/ GoodRecs(Recs(file'[t][f]), Written(t)', asked'[t])
  <2>. DEFINE q == << >>
  <2>1. q \in Contents /\ Recs(q) = << >> /\ \A n, a : GoodRecs(Recs(q), n, a)
    <3>1. q \in Seq(Rec)
      OBVIOUS
    <3>. QED BY <3>1, RecsOf, EmptyGood
  <2>2. file' = [file EXCEPT ![s]["tmp"] = q]
    BY <1>2
  <2>. HIDE DEF q
  <2>3. file \in [Sessions -> [Names -> Contents]] /\ "tmp" \in Names
    BY DEF TypeInv, Names
  <2>. QED BY <2>1, <2>2, <2>3
<1>7. \A t \in Sessions : prompt[t] \in -1 .. asked[t]
  BY DEF TypeInv, SessionOK
<1>. QED BY Zenon, <1>2, <1>3, <1>4, <1>5, <1>6, <1>7, HookTyped DEF TypeInv

LEMMA ShortenedIs ==
    ASSUME TypeInv, NEW h \in Hooks, hk[h].at \in Rewriting
    PROVE  Shortened(h) = Short(hk[h].seen, Record(h)) /\ Len(hk[h].seen) >= MaxTurns /\ hk[h].at \in Writing
BY DEF Shortened, Short, TypeInv, HookOK, Rewriting, Writing

LEMMA FlushTmpTyped ==
    ASSUME TypeInv, NEW h \in Hooks, FlushTmp(h)
    PROVE  TypeInv'
<1>1. PICK s \in Sessions : s = hk[h].s
  BY Zenon DEF TypeInv, FlushTmp, HookOK
<1>2. /\ file' = IF hk[h].into = "none" THEN file ELSE [file EXCEPT ![s][hk[h].into] = Overlay(@, Shortened(h))]
      /\ UNCHANGED <<asked, stops, script, prompt, order, age, kept, gone>>
  BY <1>1 DEF FlushTmp, ghosts
<1>3. /\ hk' \in [Hooks -> HookRec] /\ Others(h) /\ hk[h].at = "flush"
      /\ hk'[h].at = "rename" /\ hk'[h].s = s /\ hk'[h].ex = hk[h].ex /\ hk'[h].user = hk[h].user
      /\ hk'[h].seen = hk[h].seen /\ hk'[h].into = hk[h].into
      /\ \A g \in Hooks \ {h} : Carried(g)
  BY <1>1, FlushHook, OthersCarried
<1>4. Grows /\ Written(s)' = Written(s) + 1
  BY <1>1, <1>2, <1>3, OneWrote DEF Unwritten
<1>5. GoodRecs(hk[h].seen, Written(s)', asked'[s])
  <2>1. GoodRecs(hk[h].seen, Written(s), asked[s]) /\ asked[s] \in Nat /\ Written(s) \in Nat
    BY Zenon, <1>1, <1>3, FiredType DEF TypeInv, HookOK, Writing
  <2>. QED BY <1>4, <2>1, GoodMore DEF Grows
<1>6. HookOK(h)'
  BY Zenon, <1>1, <1>2, <1>3, <1>5 DEF TypeInv, HookOK, Unwritten, Stashing, Writing, Rewriting
<1>7. /\ GoodRecs(Shortened(h), Written(s)', asked'[s]) /\ Len(Shortened(h)) >= 1
  <2>1. /\ Record(h) \in Rec /\ Record(h)[1] \in 1 .. Written(s) + 1 /\ hk[h].seen \in Seq(Rec)
        /\ Record(h)[2] \in 0 .. asked[s] /\ Record(h)[3] \in 1 .. asked[s]
    BY <1>1, <1>3, RecordIs DEF Writing
  <2>2. Shortened(h) = Short(hk[h].seen, Record(h)) /\ Len(hk[h].seen) >= MaxTurns
    BY <1>3, ShortenedIs DEF Rewriting, Writing
  <2>3. GoodRecs(Short(hk[h].seen, Record(h)), Written(s)', asked'[s])
    BY <1>2, <1>4, <1>5, <2>1, <2>2, GoodShort
  <2>4. Len(Short(hk[h].seen, Record(h))) = Len(hk[h].seen) - DropOldest + 2 /\ Len(hk[h].seen) >= DropOldest
    BY <2>1, <2>2, ShortIs
  <2>. QED BY <2>1, <2>2, <2>3, <2>4, CaptureAssumption
<1>8. /\ file' \in [Sessions -> [Names -> Contents]]
      /\ \A t \in Sessions : \A f \in Names :
            file'[t][f] = file[t][f] \/ GoodRecs(Recs(file'[t][f]), Written(t)', asked'[t])
  <2>1. CASE hk[h].into = "none"
    BY <1>2, <2>1 DEF TypeInv
  <2>2. CASE hk[h].into # "none"
    <3>1. PICK f \in Names : f = hk[h].into
      BY <2>2 DEF TypeInv, HookRec, Names
    <3>. DEFINE q == Overlay(file[s][f], Shortened(h))
    <3>2. file \in [Sessions -> [Names -> Contents]] /\ file[s][f] \in Contents
      BY DEF TypeInv
    <3>3. GoodRecs(Recs(file[s][f]), Written(s)', asked'[s])
      BY <1>4, FilesMore
    <3>4. GoodRecs(q, Written(s)', asked'[s])
      BY <1>7, <3>2, <3>3, GoodOverlay
    <3>5. Recs(q) = q /\ q \in Contents
      BY <3>4, RecsOf DEF GoodRecs
    <3>6. file' = [file EXCEPT ![s][f] = q]
      BY <1>2, <2>2, <3>1
    <3>. HIDE DEF q
    <3>. QED BY <3>2, <3>4, <3>5, <3>6
  <2>. QED BY <2>1, <2>2
<1>9. \A t \in Sessions : prompt[t] \in -1 .. asked[t]
  BY DEF TypeInv, SessionOK
<1>. QED BY Zenon, <1>2, <1>3, <1>4, <1>6, <1>8, <1>9, HookTyped DEF TypeInv

LEMMA RenameTmpTyped ==
    ASSUME TypeInv, NEW h \in Hooks, RenameTmp(h)
    PROVE  TypeInv'
<1>1. PICK s \in Sessions : s = hk[h].s
  BY Zenon DEF TypeInv, RenameTmp, HookOK
<1>2. hk[h].at = "rename" /\ UNCHANGED <<asked, stops, script, prompt>>
  BY DEF RenameTmp
<1>3. \A t \in Sessions : prompt[t] \in -1 .. asked[t]
  BY DEF TypeInv, SessionOK
<1>4. CASE file[s]["tmp"] = NoFile
  <2>1. Ends(h) /\ UNCHANGED <<file, order, age, kept, gone>>
    BY <1>1, <1>4 DEF RenameTmp, ghosts
  <2>2. hk' \in [Hooks -> HookRec] /\ Others(h) /\ hk'[h].at = "free" /\ hk'[h].into = "none"
    BY <2>1, EndsHook
  <2>3. \A g \in Hooks \ {h} : Carried(g)
    BY <2>2, OthersCarried
  <2>4. Grows
    BY <1>2, <2>2, <2>3, HookCount DEF Unwritten
  <2>5. HookOK(h)'
    BY <2>2 DEF HookOK, Unwritten, Stashing, Writing, Rewriting
  <2>. QED BY Zenon, <1>2, <1>3, <2>1, <2>2, <2>3, <2>4, <2>5, HookTyped DEF TypeInv
<1>5. CASE file[s]["tmp"] # NoFile
  <2>1. /\ file' = Moved(s, "tmp", "pend") /\ Touch(s) /\ Kept(h)
        /\ gone' = [gone EXCEPT ![s] = @ \cup Dropped(h)]
    BY <1>1, <1>5 DEF RenameTmp
  <2>2. /\ hk' \in [Hooks -> HookRec]
        /\ hk'[h].at = "prune" /\ hk'[h].s = s /\ hk'[h].into = "none"
        /\ \A g \in Hooks \ {h} : Carried(g)
    BY <1>1, <1>5, RenameHook
  <2>3. Grows
    BY <1>2, <2>2, HookCount DEF Unwritten
  <2>4. HookOK(h)'
    BY <2>2 DEF HookOK, Unwritten, Stashing, Writing, Rewriting
  <2>5. /\ file' \in [Sessions -> [Names -> Contents]]
        /\ \A t \in Sessions : \A f \in Names :
              file'[t][f] = file[t][f] \/ GoodRecs(Recs(file'[t][f]), Written(t)', asked'[t])
    <3>1. /\ file' \in [Sessions -> [Names -> Contents]]
          /\ file'[s]["pend"] = file[s]["tmp"] /\ file'[s]["tmp"] = NoFile
          /\ \A t \in Sessions : \A f \in Names : (t # s \/ f \notin {"tmp", "pend"}) => file'[t][f] = file[t][f]
      BY <2>1, MovedIs DEF Names
    <3>2. GoodRecs(Recs(file[s]["tmp"]), Written(s)', asked'[s])
      BY <2>3, FilesMore DEF Names
    <3>3. GoodRecs(Recs(NoFile), Written(s)', asked'[s])
      BY RecsOf, EmptyGood
    <3>4. GoodRecs(Recs(file'[s]["pend"]), Written(s)', asked'[s]) /\ GoodRecs(Recs(file'[s]["tmp"]), Written(s)', asked'[s])
      BY <3>1, <3>2, <3>3
    <3>. QED BY <3>1, <3>4
  <2>6. order' \in Seq(Sessions) /\ (\A t \in Sessions : \E i \in DOMAIN order' : order'[i] = t) /\ age' \in [Sessions -> 0 .. 2]
    BY <2>1, TouchTyped
  <2>7. kept' \in [Sessions -> SUBSET (Nat \X Nat)]
    BY <1>2, <2>1, KeptTyped DEF Writing
  <2>8. gone' \in [Sessions -> SUBSET (Nat \X Nat)]
    <3>1. hk[h].seen \in Seq(Rec)
      BY <1>2, RecordIs DEF Writing
    <3>2. hk[h].at \in Rewriting
      BY <1>2 DEF Rewriting, Writing
    <3>3. DropOldest \in Nat /\ DropOldest <= Len(hk[h].seen)
      BY <3>1, <3>2, ShortenedIs, CaptureAssumption
    <3>4. SubSeq(hk[h].seen, 1, DropOldest) \in Seq(Rec)
      BY <3>1, <3>3
    <3>5. Dropped(h) \subseteq Nat \X Nat
      BY Zenon, <3>4, TurnsType DEF Dropped
    <3>. QED BY Zenon, <2>1, <3>5, GoneTyped
  <2>. QED BY Zenon, <1>2, <1>3, <2>2, <2>3, <2>4, <2>5, <2>6, <2>7, <2>8, HookTyped DEF TypeInv
<1>. QED BY <1>4, <1>5

LEMMA PruneRemoveTyped ==
    ASSUME TypeInv, NEW h \in Hooks, PruneRemove(h)
    PROVE  TypeInv'
<1>1. PICK s \in Sessions : s = hk[h].victim
  BY Zenon DEF TypeInv, PruneRemove, HookOK
<1>2. /\ file' = [file EXCEPT ![s]["pend"] = NoFile]
      /\ gone' = [gone EXCEPT ![s] = @ \cup IF age[s] = 2 THEN Turns(file[s]["pend"]) ELSE {}]
      /\ UNCHANGED <<asked, stops, script, prompt, order, age, kept>>
  BY <1>1 DEF PruneRemove
<1>3. /\ hk' \in [Hooks -> HookRec] /\ hk[h].at = "remove"
      /\ hk'[h].at = "prune" /\ hk'[h].s = hk[h].s /\ hk'[h].into = "none"
      /\ \A g \in Hooks \ {h} : Carried(g)
  BY RemoveHook
<1>4. Grows
  BY <1>2, <1>3, HookCount DEF Unwritten
<1>5. HookOK(h)'
  BY Zenon, <1>3 DEF TypeInv, HookOK, Unwritten, Stashing, Writing, Rewriting
<1>6. /\ file' \in [Sessions -> [Names -> Contents]]
      /\ \A t \in Sessions : \A f \in Names :
            file'[t][f] = file[t][f] \/ GoodRecs(Recs(file'[t][f]), Written(t)', asked'[t])
  <2>1. NoFile \in Contents /\ GoodRecs(Recs(NoFile), Written(s)', asked'[s])
    BY RecsOf, EmptyGood
  <2>2. file \in [Sessions -> [Names -> Contents]] /\ "pend" \in Names
    BY DEF TypeInv, Names
  <2>. QED BY <1>2, <2>1, <2>2
<1>7. gone' \in [Sessions -> SUBSET (Nat \X Nat)]
  <2>1. Turns(file[s]["pend"]) \subseteq Nat \X Nat
    BY ContentsType DEF Names
  <2>. DEFINE T == IF age[s] = 2 THEN Turns(file[s]["pend"]) ELSE {}
  <2>2. T \subseteq Nat \X Nat /\ gone' = [gone EXCEPT ![s] = @ \cup T]
    BY <1>2, <2>1
  <2>. HIDE DEF T
  <2>. QED BY Zenon, <2>2, GoneTyped
<1>8. \A t \in Sessions : prompt[t] \in -1 .. asked[t]
  BY DEF TypeInv, SessionOK
<1>. QED BY Zenon, <1>2, <1>3, <1>4, <1>5, <1>6, <1>7, <1>8, HookTyped DEF TypeInv

-----------------------------------------------------------------------------
(* The sessions' steps and the pushes keep the types. *)

LEMMA StartHook ==
    ASSUME TypeInv, NEW h \in Hooks, NEW s \in Sessions, NEW at \in Stages, NEW ex \in Nat, NEW final \in BOOLEAN,
           \/ hk' = [hk EXCEPT ![h] = [Free EXCEPT !.at = at, !.s = s, !.ex = ex]]
           \/ hk' = [hk EXCEPT ![h] = [Free EXCEPT !.at = at, !.s = s, !.ex = ex, !.final = final]]
    PROVE  /\ hk' \in [Hooks -> HookRec] /\ Others(h)
           /\ hk'[h].at = at /\ hk'[h].s = s /\ hk'[h].ex = ex /\ hk'[h].user = 0 /\ hk'[h].into = "none"
<1>. DEFINE n == [Free EXCEPT !.at = at, !.s = s, !.ex = ex, !.final = final]
            m == [Free EXCEPT !.at = at, !.s = s, !.ex = ex]
<1>1. /\ n \in HookRec /\ n.at = at /\ n.s = s /\ n.ex = ex /\ n.user = 0 /\ n.into = "none"
      /\ m \in HookRec /\ m.at = at /\ m.s = s /\ m.ex = ex /\ m.user = 0 /\ m.into = "none"
  <2>1. Free \in HookRec /\ Free.user = 0 /\ Free.into = "none"
    BY FreeHook DEF Free
  <2>. QED BY Zenon, <2>1 DEF HookRec
<1>2. hk' = [hk EXCEPT ![h] = m] \/ hk' = [hk EXCEPT ![h] = n]
  OBVIOUS
<1>. HIDE DEF n, m
<1>3. CASE hk' = [hk EXCEPT ![h] = m]
  BY Zenon, <1>1, <1>3, OneHook DEF TypeInv
<1>4. CASE hk' = [hk EXCEPT ![h] = n]
  BY Zenon, <1>1, <1>4, OneHook DEF TypeInv
<1>. QED BY <1>2, <1>3, <1>4

(* No hook's step: what a step of a session or of a push leaves typed.     *)
LEMMA BesideTyped ==
    ASSUME TypeInv, UNCHANGED <<asked, stops, prompt, hk, file, order, kept, gone>>,
           age' \in [Sessions -> 0 .. 2],
           script' \in [Sessions -> [shape : Shapes \cup {<< >>}, landed : Nat]],
           \A s \in Sessions : script'[s].shape = script[s].shape /\ script'[s].landed <= Len(script'[s].shape)
    PROVE  TypeInv'
<1>1. Grows
  BY NoneWaits
<1>2. \A s \in Sessions : Written(s)' = Written(s)
  BY DEF Written, Waiting, Fired
<1>3. ASSUME NEW h \in Hooks PROVE HookOK(h)'
  <2>1. Carried(h) /\ hk' \in [Hooks -> HookRec]
    BY DEF Carried, TypeInv
  <2>2. hk[h].at = "transcript" => script'[hk[h].s].shape \in Shapes
    BY DEF TypeInv, HookOK
  <2>. QED BY <1>1, <2>1, <2>2, HookStays
<1>4. ASSUME NEW s \in Sessions PROVE SessionOK(s)'
  <2>1. \A f \in Names : GoodRecs(Recs(file'[s][f]), Written(s)', asked'[s])
    BY <1>1, FilesMore
  <2>2. SessionOK(s) /\ Written(s)' \in Nat /\ Fires(s)' = Fires(s)
    BY <1>1 DEF TypeInv, Grows, Fires
  <2>3. asked'[s] = asked[s] /\ stops'[s] = stops[s] /\ prompt'[s] = prompt[s]
    OBVIOUS
  <2>. QED BY <2>1, <2>2, <2>3 DEF SessionOK
<1>. QED BY <1>3, <1>4 DEF TypeInv

LEMMA LandTyped ==
    ASSUME TypeInv, NEW s \in Sessions, Land(s)
    PROVE  TypeInv'
<1>1. /\ script[s].landed = Len(script[s].shape) - 1
      /\ script' = [script EXCEPT ![s].landed = @ + 1]
      /\ UNCHANGED <<asked, stops, prompt, file, order, age, hk, kept, gone>>
  BY DEF Land, ghosts
<1>2. /\ script \in [Sessions -> [shape : Shapes \cup {<< >>}, landed : Nat]] /\ age \in [Sessions -> 0 .. 2]
      /\ \A t \in Sessions : script[t].landed <= Len(script[t].shape)
  BY Zenon DEF TypeInv, SessionOK
<1>3. script' \in [Sessions -> [shape : Shapes \cup {<< >>}, landed : Nat]]
  BY <1>1, <1>2
<1>4. \A t \in Sessions : script'[t].shape = script[t].shape /\ (t # s => script'[t] = script[t])
  BY <1>1, <1>2
<1>5. script'[s].landed = script[s].landed + 1 /\ script[s].landed \in Nat
  BY <1>1, <1>2
<1>6. script'[s].landed <= Len(script'[s].shape)
  BY <1>1, <1>4, <1>5
<1>. QED BY <1>1, <1>2, <1>3, <1>4, <1>6, BesideTyped

LEMMA TimeTyped ==
    ASSUME TypeInv, TimePasses
    PROVE  TypeInv'
<1>1. /\ age' = [s \in Sessions |-> IF age[s] < 2 THEN age[s] + 1 ELSE 2]
      /\ UNCHANGED <<asked, stops, script, prompt, file, order, hk, kept, gone>>
  BY DEF TimePasses, ghosts
<1>2. \A s \in Sessions : age[s] \in 0 .. 2 /\ script[s].landed <= Len(script[s].shape)
  BY DEF TypeInv, SessionOK
<1>3. age' \in [Sessions -> 0 .. 2]
  BY <1>1, <1>2
<1>. QED BY Zenon, <1>1, <1>2, <1>3, BesideTyped DEF TypeInv

LEMMA FiresIs == \A s : Fires(s) \in 1 .. 2 /\ Fires(s)' = Fires(s)
BY DEF Fires

(* A hook that starts has a turn to write, one more than there was.        *)
LEMMA OneStarts ==
    ASSUME TypeInv, NEW s \in Sessions, NEW h \in Hooks, hk[h].at = "free", hk'[h].at \in Unwritten, hk'[h].s = s,
           \A g \in Hooks \ {h} : Carried(g),
           UNCHANGED asked, stops' = [stops EXCEPT ![s] = @ + 1]
    PROVE  Grows
<1>1. \A t \in Sessions : Waiting(t)' = IF t = s THEN Waiting(t) \cup {h} ELSE Waiting(t)
  BY DEF Waiting, Carried, Unwritten
<1>2. h \in Hooks \ Waiting(s) /\ Waiting(s) \subseteq Hooks
  BY DEF Waiting, Unwritten
<1>3. Cardinality(Waiting(s) \cup {h}) = Cardinality(Waiting(s)) + 1 /\ Cardinality(Waiting(s)) \in Nat
  BY <1>2, Counting
<1>4. stops \in [Sessions -> Nat]
  BY DEF TypeInv
<1>5. ASSUME NEW t \in Sessions
      PROVE  asked'[t] \in Nat /\ asked[t] <= asked'[t] /\ Written(t)' \in Nat /\ Written(t) <= Written(t)'
  <2>1. asked[t] \in Nat /\ stops[t] \in Nat /\ Written(t) \in Nat /\ asked'[t] = asked[t]
    BY FiredType
  <2>2. CASE t = s
    <3>1. stops'[s] = stops[s] + 1
      BY <1>4
    <3>2. Fired(s)' = Fired(s) + 1
      BY <2>1, <2>2, <3>1 DEF Fired
    <3>3. Cardinality(Waiting(s)') = Cardinality(Waiting(s)) + 1
      BY Zenon, <1>1, <1>3
    <3>4. Fired(s) \in Int
      BY FiredType
    <3>5. Written(s)' = Written(s)
      BY <1>3, <3>2, <3>3, <3>4 DEF Written
    <3>. QED BY <2>1, <2>2, <3>5
  <2>3. CASE t # s
    <3>1. stops'[t] = stops[t] /\ Waiting(t)' = Waiting(t)
      BY <1>1, <1>4, <2>3
    <3>2. Fired(t)' = Fired(t)
      BY <3>1 DEF Fired
    <3>3. Written(t)' = Written(t)
      BY <3>1, <3>2 DEF Written
    <3>. QED BY <2>1, <3>3
  <2>. QED BY <2>2, <2>3
<1>. QED BY <1>5 DEF Grows

LEMMA StopHook ==
    ASSUME TypeInv, NEW s \in Sessions, Stop(s)
    PROVE  \E h \in Hooks :
              /\ hk[h].at = "free" /\ hk' \in [Hooks -> HookRec] /\ Others(h)
              /\ hk'[h].at = (IF s \in Inline THEN "take" ELSE "transcript") /\ hk'[h].s = s
              /\ hk'[h].ex = asked[s] /\ hk'[h].user = 0 /\ hk'[h].into = "none"
<1>1. PICK h \in Hooks, final \in IF s \in Inline THEN {TRUE} ELSE BOOLEAN :
          /\ hk[h].at = "free"
          /\ hk' = [hk EXCEPT ![h] = [Free EXCEPT !.at = IF s \in Inline THEN "take" ELSE "transcript",
                                                  !.s = s, !.ex = asked[s], !.final = final]]
  BY Zenon DEF Stop
<1>2. final \in BOOLEAN /\ asked[s] \in Nat
  BY Zenon, FiredType
<1>. DEFINE at == IF s \in Inline THEN "take" ELSE "transcript"
<1>3. at \in Stages /\ hk' = [hk EXCEPT ![h] = [Free EXCEPT !.at = at, !.s = s, !.ex = asked[s], !.final = final]]
  BY <1>1 DEF Stages, Unwritten
<1>. HIDE DEF at
<1>4. /\ hk' \in [Hooks -> HookRec] /\ Others(h)
      /\ hk'[h].at = at /\ hk'[h].s = s /\ hk'[h].ex = asked[s] /\ hk'[h].user = 0 /\ hk'[h].into = "none"
  BY Zenon, <1>2, <1>3, StartHook
<1>. QED BY <1>1, <1>4 DEF at

LEMMA StopTyped ==
    ASSUME TypeInv, NEW s \in Sessions, Stop(s)
    PROVE  TypeInv'
<1>1. /\ stops[s] < Fires(s) /\ stops' = [stops EXCEPT ![s] = @ + 1]
      /\ script' = IF s \in Inline THEN script ELSE [script EXCEPT ![s].landed = Len(script[s].shape) - 1]
      /\ UNCHANGED <<asked, prompt, file, order, age, kept, gone>>
  BY DEF Stop, ghosts
<1>2. PICK h \in Hooks :
        /\ hk[h].at = "free" /\ hk' \in [Hooks -> HookRec] /\ Others(h)
        /\ hk'[h].at = (IF s \in Inline THEN "take" ELSE "transcript") /\ hk'[h].s = s
        /\ hk'[h].ex = asked[s] /\ hk'[h].user = 0 /\ hk'[h].into = "none"
  BY StopHook
<1>3. \A g \in Hooks \ {h} : Carried(g)
  BY <1>2, OthersCarried
<1>4. Grows
  BY Zenon, <1>1, <1>2, <1>3, OneStarts DEF Unwritten
<1>5. asked[s] \in Nat /\ asked[s] >= 1 /\ stops \in [Sessions -> Nat] /\ (s \notin Inline => script[s].shape \in Shapes)
  BY <1>1, FiredType DEF TypeInv, SessionOK
<1>6. script \in [Sessions -> [shape : Shapes \cup {<< >>}, landed : Nat]]
  BY DEF TypeInv
<1>7. /\ script' \in [Sessions -> [shape : Shapes \cup {<< >>}, landed : Nat]]
      /\ \A t \in Sessions : script'[t].shape = script[t].shape
      /\ \A t \in Sessions : script'[t] = script[t] \/ (t = s /\ script'[s].landed <= Len(script[s].shape))
  <2>1. CASE s \in Inline
    BY <1>1, <1>6, <2>1
  <2>2. CASE s \notin Inline
    <3>1. script[s].shape \in Shapes
      BY <1>5, <2>2
    <3>2. Len(script[s].shape) \in Nat /\ Len(script[s].shape) >= 1
      <4>1. script[s].shape \in Seq(STRING) /\ script[s].shape # << >>
        BY <3>1, CaptureAssumption
      <4>. QED BY <4>1
    <3>3. Len(script[s].shape) - 1 \in Nat
      BY <3>2
    <3>. DEFINE n == Len(script[s].shape) - 1
    <3>4. script' = [script EXCEPT ![s].landed = n] /\ n \in Nat /\ n <= Len(script[s].shape)
      BY <1>1, <2>2, <3>2, <3>3
    <3>. HIDE DEF n
    <3>. QED BY <1>6, <3>4
  <2>. QED BY <2>1, <2>2
<1>8. \A g \in Hooks \ {h} : HookOK(g)'
  <2>1. ASSUME NEW g \in Hooks \ {h} PROVE HookOK(g)'
    <3>1. hk[g].at = "transcript" => script'[hk[g].s].shape \in Shapes
      BY Zenon, <1>7 DEF TypeInv, HookOK
    <3>. QED BY <1>2, <1>3, <1>4, <3>1, HookStays
  <2>. QED BY <2>1
<1>9. HookOK(h)'
  <2>1. asked'[s] = asked[s] /\ asked[s] \in 1 .. asked[s] /\ 0 \in 0 .. asked[s]
    BY <1>1, <1>5
  <2>2. s \notin Inline => script'[s].shape \in Shapes
    BY <1>5, <1>7
  <2>. QED BY <1>2, <2>1, <2>2 DEF HookOK, Unwritten, Stashing, Writing, Rewriting
<1>10. ASSUME NEW t \in Sessions PROVE SessionOK(t)'
  <2>1. \A f \in Names : GoodRecs(Recs(file'[t][f]), Written(t)', asked'[t])
    BY <1>1, <1>4, FilesMore
  <2>2. SessionOK(t) /\ Written(t)' \in Nat /\ Fires(t)' = Fires(t) /\ Fires(t) \in 1 .. 2 /\ stops[t] \in Nat
    BY <1>4, <1>5, FiresIs DEF TypeInv, Grows
  <2>3. stops'[t] = IF t = s THEN stops[t] + 1 ELSE stops[t]
    BY <1>1, <1>5
  <2>4. stops'[t] <= Fires(t)
    BY <1>1, <2>2, <2>3 DEF SessionOK
  <2>5. stops'[t] < Fires(t) => stops[t] < Fires(t)
    BY <2>2, <2>3
  <2>6. script'[t].landed <= Len(script'[t].shape) /\ script'[t].shape = script[t].shape
    BY <1>7, <2>2 DEF SessionOK
  <2>7. asked'[t] = asked[t] /\ prompt'[t] = prompt[t]
    BY <1>1
  <2>. QED BY <2>1, <2>2, <2>4, <2>5, <2>6, <2>7 DEF SessionOK
<1>11. stops' \in [Sessions -> Nat]
  BY <1>1, <1>5
<1>12. \A g \in Hooks : HookOK(g)'
  BY <1>8, <1>9
<1>. QED BY Zenon, <1>1, <1>2, <1>7, <1>10, <1>11, <1>12 DEF TypeInv

LEMMA SubmitHook ==
    ASSUME TypeInv, NEW s \in Sessions, Submit(s)
    PROVE  /\ hk' \in [Hooks -> HookRec]
           /\ s \in Inline => \E h \in Hooks :
                 /\ hk[h].at = "free" /\ Others(h) /\ hk'[h].at = "stash" /\ hk'[h].s = s
                 /\ hk'[h].ex = asked[s] + 1 /\ hk'[h].user = 0 /\ hk'[h].into = "none"
           /\ s \notin Inline => hk' = hk
<1>1. CASE s \in Inline
  <2>1. PICK h \in Hooks : /\ hk[h].at = "free"
                           /\ hk' = [hk EXCEPT ![h] = [Free EXCEPT !.at = "stash", !.s = s, !.ex = asked[s] + 1]]
    BY <1>1 DEF Submit
  <2>2. asked[s] + 1 \in Nat /\ "stash" \in Stages /\ TRUE \in BOOLEAN
    BY FiredType DEF Stages, Stashing
  <2>. DEFINE n == asked[s] + 1
  <2>3. hk' = [hk EXCEPT ![h] = [Free EXCEPT !.at = "stash", !.s = s, !.ex = n]] /\ n \in Nat
    BY <2>1, <2>2
  <2>. HIDE DEF n
  <2>4. /\ hk' \in [Hooks -> HookRec] /\ Others(h) /\ hk'[h].at = "stash" /\ hk'[h].s = s
        /\ hk'[h].ex = n /\ hk'[h].user = 0 /\ hk'[h].into = "none"
    BY Zenon, <2>2, <2>3, StartHook
  <2>. QED BY <1>1, <2>1, <2>4 DEF n
<1>2. CASE s \notin Inline
  BY <1>2 DEF Submit, TypeInv
<1>. QED BY <1>1, <1>2

LEMMA SubmitTyped ==
    ASSUME TypeInv, NEW s \in Sessions, Submit(s)
    PROVE  TypeInv' /\ Grows
<1>1. /\ asked[s] < MaxExchanges[s] /\ asked' = [asked EXCEPT ![s] = @ + 1] /\ stops' = [stops EXCEPT ![s] = 0]
      /\ UNCHANGED <<prompt, file, order, age, kept, gone>>
  BY DEF Submit, ghosts
<1>2. /\ asked \in [Sessions -> Nat] /\ stops \in [Sessions -> Nat]
      /\ script \in [Sessions -> [shape : Shapes \cup {<< >>}, landed : Nat]]
  BY Zenon DEF TypeInv
<1>3. \A t \in Sessions : /\ asked'[t] = IF t = s THEN asked[t] + 1 ELSE asked[t]
                          /\ stops'[t] = IF t = s THEN 0 ELSE stops[t]
  BY <1>1, <1>2
<1>4. asked' \in [Sessions -> Nat] /\ stops' \in [Sessions -> Nat]
  BY <1>1, <1>2
<1>5. /\ script' \in [Sessions -> [shape : Shapes \cup {<< >>}, landed : Nat]]
      /\ \A t \in Sessions : \/ script'[t] = script[t] /\ (t = s => s \in Inline)
                             \/ t = s /\ script'[t].shape \in Shapes /\ script'[t].landed = 0
  <2>1. CASE s \in Inline
    <3>1. script' = script
      BY <2>1 DEF Submit
    <3>. QED BY <1>2, <2>1, <3>1
  <2>2. CASE s \notin Inline
    <3>1. PICK x \in Shapes : script' = [script EXCEPT ![s] = [shape |-> x, landed |-> 0]]
      BY <2>2 DEF Submit
    <3>. DEFINE r == [shape |-> x, landed |-> 0]
    <3>2. r \in [shape : Shapes \cup {<< >>}, landed : Nat] /\ r.shape = x /\ r.landed = 0
      OBVIOUS
    <3>3. script' = [script EXCEPT ![s] = r]
      BY <3>1
    <3>. HIDE DEF r
    <3>. QED BY <1>2, <3>2, <3>3
  <2>. QED BY <2>1, <2>2
<1>6. /\ hk' \in [Hooks -> HookRec]
      /\ s \in Inline => \E h \in Hooks :
            /\ hk[h].at = "free" /\ Others(h) /\ hk'[h].at = "stash" /\ hk'[h].s = s
            /\ hk'[h].ex = asked[s] + 1 /\ hk'[h].user = 0 /\ hk'[h].into = "none"
      /\ s \notin Inline => hk' = hk
  BY SubmitHook
<1>7. \A t \in Sessions : Waiting(t)' = Waiting(t)
  <2>1. CASE s \in Inline
    <3>1. PICK h \in Hooks : hk[h].at = "free" /\ Others(h) /\ hk'[h].at = "stash"
      BY <1>6, <2>1
    <3>. QED BY <3>1 DEF Waiting, Others, Unwritten
  <2>2. CASE s \notin Inline
    BY <1>6, <2>2 DEF Waiting
  <2>. QED BY <2>1, <2>2
<1>8. ASSUME NEW t \in Sessions
      PROVE  asked'[t] \in Nat /\ asked[t] <= asked'[t] /\ Written(t)' \in Nat /\ Written(t) <= Written(t)'
  <2>1. asked[t] \in Nat /\ stops[t] \in Nat /\ stops[t] <= Fires(t) /\ Fired(t) \in Int /\ Written(t) \in Nat
    BY Zenon, FiredType DEF TypeInv, SessionOK
  <2>2. Fired(t) <= Fired(t)' /\ Fired(t)' \in Int
    <3>1. CASE t = s
      <4>1. CASE s \in Twice
        BY <1>3, <2>1, <3>1, <4>1 DEF Fired, Fires
      <4>2. CASE s \notin Twice
        BY <1>3, <2>1, <3>1, <4>2 DEF Fired, Fires
      <4>. QED BY <4>1, <4>2
    <3>2. CASE t # s
      BY <1>3, <2>1, <3>2 DEF Fired
    <3>. QED BY <3>1, <3>2
  <2>3. Cardinality(Waiting(t)) \in Nat
    BY Counting DEF Waiting
  <2>4. Cardinality(Waiting(t)') = Cardinality(Waiting(t))
    BY <1>7
  <2>5. Written(t)' = Fired(t)' - Cardinality(Waiting(t)) /\ Written(t) = Fired(t) - Cardinality(Waiting(t))
    BY <2>4 DEF Written
  <2>. QED BY <1>3, <2>1, <2>2, <2>3, <2>5
<1>9. Grows
  BY <1>8 DEF Grows
<1>10. ASSUME NEW g \in Hooks, Carried(g) PROVE HookOK(g)'
  <2>1. hk[g].at = "transcript" => script'[hk[g].s].shape \in Shapes
    BY Zenon, <1>5 DEF TypeInv, HookOK
  <2>. QED BY <1>6, <1>9, <1>10, <2>1, HookStays
<1>11. \A g \in Hooks : HookOK(g)'
  <2>1. CASE s \in Inline
    <3>1. PICK h \in Hooks :
            /\ hk[h].at = "free" /\ Others(h) /\ hk'[h].at = "stash" /\ hk'[h].s = s
            /\ hk'[h].ex = asked[s] + 1 /\ hk'[h].user = 0 /\ hk'[h].into = "none"
      BY <1>6, <2>1
    <3>2. asked'[s] = asked[s] + 1 /\ asked[s] \in Nat
      BY <1>2, <1>3
    <3>3. HookOK(h)'
      BY <2>1, <3>1, <3>2 DEF HookOK, Unwritten, Stashing, Writing, Rewriting
    <3>. QED BY <1>10, <3>1, <3>3, OthersCarried
  <2>2. CASE s \notin Inline
    BY <1>6, <1>10, <2>2 DEF Carried
  <2>. QED BY <2>1, <2>2
<1>12. ASSUME NEW t \in Sessions PROVE SessionOK(t)'
  <2>1. \A f \in Names : GoodRecs(Recs(file'[t][f]), Written(t)', asked'[t])
    BY <1>1, <1>9, FilesMore
  <2>2. /\ SessionOK(t) /\ Written(t)' \in Nat /\ Fires(t)' = Fires(t) /\ Fires(t) \in 1 .. 2
        /\ asked[t] \in Nat /\ stops[t] \in Nat /\ MaxExchanges[t] \in Nat
    BY <1>2, <1>9, FiresIs, CaptureAssumption DEF TypeInv, Grows
  <2>3. asked'[t] <= MaxExchanges[t] /\ stops'[t] <= Fires(t) /\ (t = s => asked'[t] >= 1)
    BY <1>1, <1>3, <2>2 DEF SessionOK
  <2>4. prompt'[t] \in -1 .. asked'[t]
    BY <1>1, <1>3, <2>2 DEF SessionOK
  <2>5. script'[t].landed <= Len(script'[t].shape)
    <3>1. CASE script'[t] = script[t]
      BY <2>2, <3>1 DEF SessionOK
    <3>2. CASE t = s /\ script'[t].shape \in Shapes /\ script'[t].landed = 0
      <4>1. script'[t].shape \in Seq(STRING)
        BY <3>2, CaptureAssumption
      <4>. QED BY <3>2, <4>1
    <3>. QED BY <1>5, <3>1, <3>2
  <2>6. stops'[t] < Fires(t) => asked'[t] >= 1 /\ (t \notin Inline => script'[t].shape \in Shapes)
    <3>1. CASE t = s
      BY <1>5, <2>3, <3>1
    <3>2. CASE t # s
      BY <1>3, <1>5, <2>2, <3>2 DEF SessionOK
    <3>. QED BY <3>1, <3>2
  <2>. QED BY <2>1, <2>2, <2>3, <2>4, <2>5, <2>6 DEF SessionOK
<1>. QED BY Zenon, <1>1, <1>4, <1>5, <1>6, <1>9, <1>11, <1>12 DEF TypeInv

LEMMA ArchiveTyped ==
    ASSUME TypeInv, PushInv, Archive
    PROVE  TypeInv' /\ Grows /\ hk' \in [Hooks -> HookRec] /\ \A g \in Hooks : Carried(g)
<1>1. PICK s \in Sessions : s = push.victim
  BY DEF Archive, PushInv
<1>2. UNCHANGED <<asked, stops, script, prompt, order, age, kept>>
  BY DEF Archive
<1>3. hk' \in [Hooks -> HookRec] /\ \A g \in Hooks : Carried(g)
  <2>1. CASE hk' = hk
    BY <2>1 DEF Carried, TypeInv
  <2>2. CASE hk' = Follow(s, "pend", "arch")
    BY <2>2, ArchiveHooks
  <2>. QED BY <1>1, <2>1, <2>2 DEF Archive
<1>4. Grows
  BY <1>2, <1>3, NoneWaits DEF Carried
<1>5. ASSUME NEW g \in Hooks PROVE HookOK(g)'
  <2>1. hk[g].at = "transcript" => script'[hk[g].s].shape \in Shapes
    BY Zenon, <1>2 DEF TypeInv, HookOK
  <2>. QED BY <1>3, <1>4, <2>1, HookStays
<1>6. /\ file' \in [Sessions -> [Names -> Contents]]
      /\ \A t \in Sessions : \A f \in Names :
            file'[t][f] = file[t][f] \/ GoodRecs(Recs(file'[t][f]), Written(t)', asked'[t])
      /\ gone' \in [Sessions -> SUBSET (Nat \X Nat)]
  <2>1. CASE file[s]["pend"] = NoFile
    BY Zenon, <1>1, <2>1 DEF Archive, TypeInv
  <2>2. CASE file[s]["pend"] # NoFile
    <3>1. file' = Moved(s, "pend", "arch") /\ gone' = [gone EXCEPT ![s] = @ \cup Turns(file[s]["arch"])]
      BY <1>1, <2>2 DEF Archive
    <3>2. /\ file' \in [Sessions -> [Names -> Contents]]
          /\ file'[s]["arch"] = file[s]["pend"] /\ file'[s]["pend"] = NoFile
          /\ \A t \in Sessions : \A f \in Names : (t # s \/ f \notin {"pend", "arch"}) => file'[t][f] = file[t][f]
      BY <3>1, MovedIs DEF Names
    <3>3. GoodRecs(Recs(file[s]["pend"]), Written(s)', asked'[s]) /\ GoodRecs(Recs(NoFile), Written(s)', asked'[s])
      BY <1>4, FilesMore, RecsOf, EmptyGood DEF Names
    <3>4. GoodRecs(Recs(file'[s]["arch"]), Written(s)', asked'[s]) /\ GoodRecs(Recs(file'[s]["pend"]), Written(s)', asked'[s])
      BY <3>2, <3>3
    <3>5. gone' \in [Sessions -> SUBSET (Nat \X Nat)]
      <4>1. Turns(file[s]["arch"]) \subseteq Nat \X Nat
        BY ContentsType DEF Names
      <4>. QED BY Zenon, <3>1, <4>1, GoneTyped
    <3>. QED BY <3>2, <3>4, <3>5
  <2>. QED BY <2>1, <2>2
<1>7. ASSUME NEW t \in Sessions PROVE SessionOK(t)'
  <2>1. prompt'[t] \in -1 .. asked[t]
    BY <1>2 DEF TypeInv, SessionOK
  <2>. QED BY <1>2, <1>4, <1>6, <2>1, SessionStays
<1>. QED BY Zenon, <1>2, <1>3, <1>4, <1>5, <1>6, <1>7 DEF TypeInv

LEMMA UnchangedTyped == ASSUME TypeInv, UNCHANGED captureVars PROVE TypeInv'
<1>1. /\ UNCHANGED <<asked, stops, script, prompt, file, order, age, hk, kept, gone>>
  BY DEF captureVars
<1>2. \A s \in Sessions : script[s].landed <= Len(script[s].shape)
  BY DEF TypeInv, SessionOK
<1>. QED BY Zenon, <1>1, <1>2, BesideTyped DEF TypeInv

LEMMA TypeStep == ASSUME TypeInv, PushInv, DistillNext PROVE TypeInv'
<1>1. ASSUME NEW s \in Sessions, Submit(s) \/ Stop(s) \/ Land(s) PROVE TypeInv'
  BY <1>1, SubmitTyped, StopTyped, LandTyped
<1>2. ASSUME NEW h \in Hooks, HookStep(h) PROVE TypeInv'
  BY <1>2, StashOpenTyped, StashWriteTyped, TakeReadTyped, TakeRemoveTyped, LatestTurnTyped, RecordsTyped,
     AppendLineTyped, CreateTmpTyped, FlushTmpTyped, RenameTmpTyped, PruneStatTyped, PruneRemoveTyped, KillTyped
     DEF HookStep
<1>3. ASSUME CaptureStep PROVE TypeInv'
  BY <1>1, <1>2, <1>3, TimeTyped DEF CaptureStep
<1>4. ASSUME PushStep PROVE TypeInv'
  <2>1. CASE Archive
    BY <2>1, ArchiveTyped
  <2>2. CASE ~Archive
    <3>1. UNCHANGED captureVars
      BY <1>4, <2>2 DEF PushStep, Call, GuardList, GuardStat, GuardRead, GuardDone, Direct, Link, Sent, MostRecent, Buffers
    <3>. QED BY <3>1, UnchangedTyped
  <2>. QED BY <2>1, <2>2
<1>. QED BY <1>3, <1>4 DEF DistillNext

-----------------------------------------------------------------------------
(* The guard *)

LEMMA ListIs ==
    ASSUME TypeInv
    PROVE  /\ List \in Seq(Sessions)
           /\ \A s \in Sessions : file[s]["pend"] # NoFile => \E i \in DOMAIN List : List[i] = s
<1>. DEFINE S == {s \in Sessions : file[s]["pend"] # NoFile}
<1>1. order \in Seq(Sessions) /\ \A s \in Sessions : \E i \in DOMAIN order : order[i] = s
  BY DEF TypeInv
<1>2. /\ Pick(order, S) \in Seq(Sessions)
      /\ \A j \in DOMAIN order : order[j] \in S => \E i \in DOMAIN Pick(order, S) : Pick(order, S)[i] = order[j]
  <2>. HIDE DEF S
  <2>1. order \in Seq(Sessions)
    BY <1>1
  <2>. QED BY <2>1, PickElements
<1>3. List = Pick(order, S) /\ \A s \in Sessions : file[s]["pend"] # NoFile => s \in S
  BY DEF List
<1>. HIDE DEF S
<1>. QED BY <1>1, <1>2, <1>3

LEMMA TailIs ==
    ASSUME NEW q \in Seq(Sessions), q # << >>
    PROVE  /\ q[1] \in Sessions /\ Tail(q) \in Seq(Sessions)
           /\ \A i \in DOMAIN q : q[i] = q[1] \/ \E j \in DOMAIN Tail(q) : Tail(q)[j] = q[i]
<1>1. Len(q) >= 1 /\ Len(Tail(q)) = Len(q) - 1 /\ q[1] \in Sessions /\ Tail(q) \in Seq(Sessions)
      /\ \A j \in 1 .. Len(q) - 1 : Tail(q)[j] = q[j + 1]
  OBVIOUS
<1>2. ASSUME NEW i \in DOMAIN q, i # 1 PROVE i - 1 \in DOMAIN Tail(q) /\ Tail(q)[i - 1] = q[i]
  BY <1>1, <1>2
<1>. QED BY Zenon, <1>1, <1>2

PushRec == [at : {"idle", "guard", "stat", "read", "direct", "link", "send", "find", "archive"},
            list : Seq(Sessions), fresh : SUBSET Sessions, done : BOOLEAN, checked : BOOLEAN,
            victim : Sessions \cup {"none"}]

LEMMA NoPushIs ==
    /\ NoPush \in PushRec /\ NoPush.at = "idle" /\ ~NoPush.checked /\ NoPush.fresh = {}
    /\ NoPush.list = << >> /\ NoPush.victim = "none"
<1>1. << >> \in Seq(Sessions)
  OBVIOUS
<1>. QED BY <1>1 DEF NoPush, PushRec

LEMMA PushInitial == ASSUME DistillInit PROVE PushInv /\ GuardInv
BY NoPushIs DEF DistillInit, PushInv, PushRec, GuardInv

LEMMA PushBeside ==
    ASSUME PushInv, UNCHANGED push
    PROVE  PushInv'
BY DEF PushInv

LEMMA CallKeeps == ASSUME PushInv, Call PROVE PushInv' /\ push'.at \notin {"stat", "read"} /\ (push'.at = "send" => ~push'.checked)
<1>1. /\ NoPush \in PushRec /\ NoPush.at = "idle" /\ ~NoPush.checked /\ NoPush.fresh = {}
  BY NoPushIs
<1>2. CASE push' = [NoPush EXCEPT !.at = "guard", !.checked = TRUE]
  BY Zenon, <1>1, <1>2 DEF PushInv, PushRec
<1>3. CASE push' = [NoPush EXCEPT !.at = "send"]
  BY <1>1, <1>3 DEF PushInv, PushRec
<1>4. CASE push' = [NoPush EXCEPT !.at = "link", !.done = TRUE]
  BY Zenon, <1>1, <1>4 DEF PushInv, PushRec
<1>. QED BY <1>2, <1>3, <1>4 DEF Call

(* What the guard's steps do to the call in progress.                      *)
LEMMA GuardListIs ==
    ASSUME PushInv, TypeInv, GuardList
    PROVE  push'.at = "stat" /\ push'.list = List /\ push'.fresh = {} /\ push'.checked /\ push.at = "guard" /\ PushInv'
<1>1. push \in PushRec /\ List \in Seq(Sessions) /\ push.at = "guard" /\ push.checked /\ push.fresh = {}
  BY ListIs DEF PushInv, PushRec, GuardList
<1>2. push' = [push EXCEPT !.at = "stat", !.list = List]
  BY DEF GuardList, Scanned
<1>. QED BY Zenon, <1>1, <1>2 DEF PushInv, PushRec

LEMMA GuardStatIs ==
    ASSUME PushInv, GuardStat
    PROVE  /\ push.at = "stat" /\ push.checked /\ push.list # << >> /\ PushInv' /\ push'.checked /\ push'.fresh = push.fresh
           /\ \/ push'.at = "read" /\ push'.list = push.list
              \/ push'.at = "stat" /\ push'.list = Tail(push.list) /\ ~Fresh(Cur)
<1>1. push \in PushRec /\ push.at = "stat" /\ push.checked /\ push.list # << >>
  BY DEF PushInv, PushRec, GuardStat
<1>2. CASE Fresh(Cur)
  <2>1. push' = [push EXCEPT !.at = "read"]
    BY <1>2 DEF GuardStat, At
  <2>. QED BY <1>1, <2>1 DEF PushInv, PushRec
<1>3. CASE ~Fresh(Cur)
  <2>1. push' = [push EXCEPT !.at = "stat", !.list = Tail(push.list)] /\ Tail(push.list) \in Seq(Sessions)
    BY <1>1, <1>3, TailIs DEF GuardStat, Skip, PushRec
  <2>. QED BY Zenon, <1>1, <1>3, <2>1 DEF PushInv, PushRec
<1>. QED BY <1>2, <1>3

LEMMA GuardReadIs ==
    ASSUME PushInv, GuardRead
    PROVE  /\ push.at = "read" /\ push.checked /\ push.list # << >> /\ PushInv' /\ push'.checked /\ push'.at = "stat"
           /\ push'.list = Tail(push.list) /\ push.fresh \subseteq push'.fresh
           /\ Recs(file[Cur]["pend"]) # << >> => Cur \in push'.fresh
<1>1. push \in PushRec /\ push.at = "read" /\ push.checked /\ push.list # << >>
  BY DEF PushInv, PushRec, GuardRead
<1>2. Cur \in Sessions /\ Tail(push.list) \in Seq(Sessions)
  BY <1>1, TailIs DEF Cur, PushRec
<1>. DEFINE f == push.fresh \cup IF Recs(file[Cur]["pend"]) # << >> THEN {Cur} ELSE {}
<1>3. push' = [push EXCEPT !.at = "stat", !.list = Tail(push.list), !.fresh = f] /\ f \in SUBSET Sessions
  BY <1>1, <1>2 DEF GuardRead, PushRec
<1>4. push.fresh \subseteq f /\ (Recs(file[Cur]["pend"]) # << >> => Cur \in f)
  OBVIOUS
<1>. HIDE DEF f
<1>. QED BY Zenon, <1>1, <1>2, <1>3, <1>4 DEF PushInv, PushRec

LEMMA GuardDoneIs ==
    ASSUME PushInv, GuardDone
    PROVE  /\ push.at = "stat" /\ push.list = << >> /\ push.checked /\ PushInv' /\ push'.checked
           /\ push'.list = << >> /\ push'.fresh = push.fresh
           /\ push'.at = IF push.fresh = {} THEN "send" ELSE "direct"
<1>1. push \in PushRec /\ push.at = "stat" /\ push.checked /\ push.list = << >>
  BY DEF PushInv, PushRec, GuardDone
<1>. DEFINE at == IF push.fresh = {} THEN "send" ELSE "direct"
<1>2. push' = [push EXCEPT !.at = at] /\ at \in {"send", "direct"}
  BY DEF GuardDone, At
<1>. HIDE DEF at
<1>3. PushInv' /\ push'.at = at /\ push'.checked = push.checked /\ push'.list = push.list /\ push'.fresh = push.fresh
  BY Zenon, <1>1, <1>2 DEF PushInv, PushRec
<1>. QED BY <1>1, <1>3 DEF at

(* The steps that are not the guard's.                                     *)
LEMMA OtherPushSteps ==
    ASSUME PushInv, TypeInv, Direct \/ Link \/ Sent \/ MostRecent \/ Archive
    PROVE  /\ PushInv' /\ push'.at \notin {"stat", "read", "guard"} /\ (push'.at = "send" => ~push'.checked)
           /\ push.at # "idle"
<1>1. push \in PushRec /\ List \in Seq(Sessions)
  BY ListIs DEF PushInv, PushRec
<1>2. CASE push' = NoPush
  <2>1. push.at # "idle"
    BY DEF Direct, Link, Sent, MostRecent, Archive
  <2>. QED BY <1>2, <2>1, NoPushIs DEF PushInv, PushRec
<1>3. CASE push' = [push EXCEPT !.at = "send"] /\ push.at = "link"
  BY <1>1, <1>3 DEF PushInv, PushRec
<1>4. CASE push' = [push EXCEPT !.at = "find", !.list = List] /\ push.at = "send"
  BY Zenon, <1>1, <1>4 DEF PushInv, PushRec
<1>5. CASE MostRecent /\ push' # NoPush
  <2>1. push.at = "find" /\ push.list # << >>
    BY <1>5 DEF MostRecent
  <2>2. Cur \in Sessions /\ Tail(push.list) \in Seq(Sessions)
    BY <1>1, <2>1, TailIs DEF PushRec, Cur
  <2>3. CASE push' = [push EXCEPT !.at = "archive", !.victim = Cur]
    BY Zenon, <1>1, <2>1, <2>2, <2>3 DEF PushInv, PushRec
  <2>4. CASE push' = [push EXCEPT !.list = Tail(push.list)]
    BY Zenon, <1>1, <2>1, <2>2, <2>4 DEF PushInv, PushRec
  <2>. QED BY <1>5, <2>1, <2>3, <2>4 DEF MostRecent
<1>6. CASE Direct \/ Archive
  BY <1>2, <1>6 DEF Direct, Archive
<1>7. CASE Link
  BY <1>2, <1>3, <1>7 DEF Link, At
<1>8. CASE Sent
  BY <1>2, <1>4, <1>8 DEF Sent
<1>. QED BY <1>2, <1>5, <1>6, <1>7, <1>8

LEMMA PushStepKeeps == ASSUME TypeInv, PushInv, DistillNext PROVE PushInv'
<1>1. CASE UNCHANGED pushVars
  BY <1>1, PushBeside DEF pushVars
<1>2. CASE PushStep
  BY <1>2, CallKeeps, GuardListIs, GuardStatIs, GuardReadIs, GuardDoneIs, OtherPushSteps DEF PushStep
<1>. QED BY <1>1, <1>2 DEF DistillNext

LEMMA QuietGrows ==
    ASSUME DistillNext, push'.checked, quiet \subseteq Sessions
    PROVE  /\ push.at # "idle" => quiet \subseteq quiet'
           /\ quiet' \subseteq Sessions /\ \A s \in Sessions : ~Pending(s)' => s \in quiet'
<1>1. quiet' = (IF push.at = "idle" THEN {} ELSE quiet) \cup {s \in Sessions : ~Pending(s)'}
  BY DEF DistillNext
<1>. QED BY <1>1

LEMMA GuardStep == ASSUME TypeInv, PushInv, GuardInv, DistillNext PROVE GuardInv'
<1>. DEFINE Seen(s) == s \in push.fresh \cup quiet \/ \E i \in DOMAIN push.list : push.list[i] = s
<1>1. quiet' \subseteq Sessions
  BY DEF DistillNext, GuardInv
<1>2. CASE UNCHANGED pushVars
  <2>1. push' = push
    BY <1>2 DEF pushVars
  <2>2. push.checked /\ push.at # "idle" => quiet \subseteq quiet'
    BY <2>1, QuietGrows DEF GuardInv
  <2>. QED BY <1>1, <2>1, <2>2 DEF GuardInv
<1>3. CASE Call \/ Direct \/ Link \/ Sent \/ MostRecent \/ Archive
  BY <1>1, <1>3, CallKeeps, OtherPushSteps DEF GuardInv
<1>4. CASE GuardList
  <2>1. push'.at = "stat" /\ push'.list = List /\ push'.checked /\ push.at = "guard" /\ file' = file
    BY <1>4, GuardListIs DEF GuardList, Buffers, captureVars
  <2>2. ASSUME NEW s \in Sessions PROVE s \in quiet' \/ \E i \in DOMAIN List : List[i] = s
    <3>1. CASE file[s]["pend"] = NoFile
      <4>1. ~Pending(s)'
        BY <2>1, <3>1 DEF Pending, Fresh
      <4>. QED BY <2>1, <4>1, QuietGrows DEF GuardInv
    <3>. QED BY <3>1, ListIs
  <2>. QED BY <1>1, <2>1, <2>2 DEF GuardInv
<1>5. CASE GuardStat
  <2>1. /\ push.at = "stat" /\ push.checked /\ push.list # << >> /\ push'.checked /\ push'.fresh = push.fresh
        /\ \/ push'.at = "read" /\ push'.list = push.list
           \/ push'.at = "stat" /\ push'.list = Tail(push.list) /\ ~Fresh(Cur)
        /\ UNCHANGED <<file, age>> /\ push.list \in Seq(Sessions)
    BY <1>5, GuardStatIs DEF GuardStat, Buffers, captureVars, PushInv
  <2>2. \A s \in Sessions : Seen(s)
    BY <2>1 DEF GuardInv
  <2>3. quiet \subseteq quiet' /\ \A s \in Sessions : ~Pending(s)' => s \in quiet'
    BY <2>1, QuietGrows DEF GuardInv
  <2>4. \A i \in DOMAIN push.list : push.list[i] = Cur \/ \E j \in DOMAIN Tail(push.list) : Tail(push.list)[j] = push.list[i]
    BY <2>1, TailIs DEF Cur
  <2>5. Cur \in Sessions
    BY <2>1, TailIs DEF Cur
  <2>6. ~Fresh(Cur) => Cur \in quiet'
    <3>1. PICK c \in Sessions : c = Cur
      BY <2>5
    <3>2. ~Fresh(c) => ~Pending(c)'
      BY <2>1 DEF Fresh, Pending
    <3>. QED BY <2>3, <3>1, <3>2
  <2>7. CASE push'.at = "read" /\ push'.list = push.list
    BY <1>1, <2>1, <2>2, <2>3, <2>7 DEF GuardInv
  <2>8. CASE push'.at = "stat" /\ push'.list = Tail(push.list) /\ ~Fresh(Cur)
    <3>1. ASSUME NEW s \in Sessions
          PROVE  s \in push'.fresh \cup quiet' \/ \E i \in DOMAIN push'.list : push'.list[i] = s
      BY <2>1, <2>2, <2>3, <2>4, <2>6, <2>8
    <3>. QED BY <1>1, <2>8, <3>1 DEF GuardInv
  <2>. QED BY <2>1, <2>7, <2>8
<1>6. CASE GuardRead
  <2>1. /\ push.at = "read" /\ push.checked /\ push.list # << >> /\ push'.checked /\ push'.at = "stat"
        /\ push'.list = Tail(push.list) /\ push.fresh \subseteq push'.fresh
        /\ Recs(file[Cur]["pend"]) # << >> => Cur \in push'.fresh
        /\ UNCHANGED <<file, age>> /\ push.list \in Seq(Sessions)
    BY <1>6, GuardReadIs DEF GuardRead, Buffers, captureVars, PushInv
  <2>2. \A s \in Sessions : Seen(s)
    BY <2>1 DEF GuardInv
  <2>3. quiet \subseteq quiet' /\ \A s \in Sessions : ~Pending(s)' => s \in quiet'
    BY <2>1, QuietGrows DEF GuardInv
  <2>4. \A i \in DOMAIN push.list : push.list[i] = Cur \/ \E j \in DOMAIN Tail(push.list) : Tail(push.list)[j] = push.list[i]
    BY <2>1, TailIs DEF Cur
  <2>5. Cur \in Sessions
    BY <2>1, TailIs DEF Cur
  <2>6. Cur \in push'.fresh \cup quiet'
    <3>1. PICK c \in Sessions : c = Cur
      BY <2>5
    <3>2. Recs(file[c]["pend"]) = << >> => ~Pending(c)'
      BY <2>1 DEF Fresh, Pending
    <3>. QED BY <2>1, <2>3, <3>1, <3>2
  <2>. QED BY <1>1, <2>1, <2>2, <2>3, <2>4, <2>6 DEF GuardInv
<1>7. CASE GuardDone
  <2>1. /\ push.at = "stat" /\ push.list = << >> /\ push.checked /\ push'.checked
        /\ push'.list = << >> /\ push'.fresh = push.fresh
        /\ push'.at = IF push.fresh = {} THEN "send" ELSE "direct"
    BY <1>7, GuardDoneIs
  <2>2. \A s \in Sessions : Seen(s)
    BY <2>1 DEF GuardInv
  <2>3. quiet \subseteq quiet'
    BY <2>1, QuietGrows DEF GuardInv
  <2>. QED BY <1>1, <2>1, <2>2, <2>3 DEF GuardInv
<1>. QED BY <1>2, <1>3, <1>4, <1>5, <1>6, <1>7 DEF DistillNext, PushStep

(* GuardSound: the guard's list, its fresh sessions and those that had no  *)
(* fresh turn at a moment of the check have every session between them; a  *)
(* push it lets pass has an empty list and no fresh session.               *)
THEOREM GuardHolds == DistillSpec => []GuardSound
<1>. DEFINE IInv == TypeInv /\ PushInv /\ GuardInv
<1>1. DistillInit => IInv
  BY TypeInitial, PushInitial
<1>2. IInv /\ [DistillNext]_distillVars => IInv'
  <2>. SUFFICES ASSUME IInv, [DistillNext]_distillVars PROVE IInv'
    OBVIOUS
  <2>1. CASE DistillNext
    BY <2>1, TypeStep, PushStepKeeps, GuardStep
  <2>2. CASE UNCHANGED distillVars
    <3>1. UNCHANGED captureVars /\ push' = push /\ quiet' = quiet
      BY <2>2 DEF distillVars, pushVars
    <3>. QED BY <3>1, UnchangedTyped, PushBeside DEF GuardInv
  <2>. QED BY <2>1, <2>2
<1>3. IInv => GuardSound
  <2>. SUFFICES ASSUME GuardInv, push.at = "send", push.checked PROVE quiet = Sessions
    BY DEF GuardSound
  <2>1. push.fresh = {} /\ push.list = << >> /\ quiet \subseteq Sessions
    BY DEF GuardInv
  <2>2. DOMAIN push.list = {}
    BY <2>1
  <2>. QED BY Zenon, <2>1, <2>2 DEF GuardInv
<1>. QED BY <1>1, <1>2, <1>3, PTL DEF DistillSpec
=============================================================================
