----------------------------- MODULE ReadsProofs -----------------------------
(***************************************************************************)
(* Proofs about ServerReads, for any pages, contents, history and caps.    *)
(* ReadsInvariant (module ReadsInv) is inductive; the four properties of   *)
(* the reads run follow from it.                                           *)
(***************************************************************************)
EXTENDS ReadsInv, FiniteSetTheorems, WellFoundedInduction, TLAPS

-----------------------------------------------------------------------------
(* Least and greatest members of sets of numbers.                          *)

LEMMA LessThan == ASSUME NEW x \in Nat, NEW y \in Nat, x < y PROVE <<x, y>> \in OpToRel(<, Nat)
BY DEF OpToRel

LEMMA MinExists ==
    ASSUME NEW S, S # {}, S \subseteq Nat
    PROVE  FS!Min(S) \in S /\ \A c \in S : FS!Min(S) <= c
<1>. DEFINE R == OpToRel(<, Nat)
<1>1. IsWellFoundedOn(R, Nat)
  BY NatLessThanWellFounded
<1>2. \A x \in Nat, y \in Nat : x < y => <<x, y>> \in R
  BY LessThan
<1>. HIDE DEF R
<1>3. PICK x \in S : \A y \in S : ~(<<y, x>> \in R)
  BY <1>1, WFMin
<1>4. ASSUME NEW y \in S PROVE x <= y
  <2>1. x \in Nat /\ y \in Nat
    OBVIOUS
  <2>2. ~(y < x)
    BY <1>2, <1>3, <2>1
  <2>. QED BY <2>1, <2>2
<1>. QED BY <1>4 DEF FS!Min

LEMMA MaxExists ==
    ASSUME NEW S, S # {}, NEW n \in Nat, S \subseteq 0 .. n
    PROVE  FS!Max(S) \in S /\ \A c \in S : c <= FS!Max(S)
<1>. DEFINE T == {n - c : c \in S}
<1>1. T # {} /\ T \subseteq Nat
  <2>1. \A c \in S : n - c \in Nat
    OBVIOUS
  <2>2. PICK c : c \in S
    OBVIOUS
  <2>3. n - c \in T
    BY <2>2
  <2>. QED BY <2>1, <2>3
<1>. DEFINE m == FS!Min(T)
<1>2. m \in T /\ \A t \in T : m <= t
  BY <1>1, MinExists
<1>. HIDE DEF m
<1>3. PICK x \in S : m = n - x
  BY <1>2
<1>4. \A c \in S : n - x <= n - c
  BY <1>2, <1>3
<1>5. \A c \in S : c <= x
  BY <1>4
<1>6. \A c \in S : x >= c
  BY <1>5
<1>. HIDE DEF T
<1>. QED BY <1>6 DEF FS!Max

LEMMA NewestIs ==
    ASSUME NEW n \in Nat, NEW S, S \subseteq 1 .. n
    PROVE  /\ Newest(S) \in 0 .. n
           /\ S = {} <=> Newest(S) = 0
           /\ S # {} => Newest(S) \in S /\ \A c \in S : c <= Newest(S)
<1>1. CASE S = {}
  BY <1>1 DEF Newest
<1>2. CASE S # {}
  <2>1. S \subseteq 0 .. n
    OBVIOUS
  <2>2. FS!Max(S) \in S /\ \A c \in S : c <= FS!Max(S)
    BY <2>1, <1>2, MaxExists
  <2>3. Newest(S) = FS!Max(S)
    BY <1>2 DEF Newest
  <2>4. FS!Max(S) \in 1 .. n
    BY <2>2
  <2>. QED BY <2>2, <2>3, <2>4, <1>2
<1>. QED BY <1>1, <1>2

(* A greatest member is the newest one. *)
LEMMA NewestUnique ==
    ASSUME NEW n \in Nat, NEW S, S \subseteq 1 .. n, NEW c \in S, \A e \in S : e <= c
    PROVE  Newest(S) = c
<1>1. ASSUME NEW m \in S, c <= m PROVE m = c
  <2>1. m <= c
    OBVIOUS
  <2>2. m \in Int /\ c \in Int
    OBVIOUS
  <2>. QED BY <2>1, <2>2, <1>1
<1>2. Newest(S) \in S /\ c <= Newest(S)
  BY NewestIs
<1>. QED BY <1>1, <1>2

-----------------------------------------------------------------------------
(* The history of a page.                                                  *)

LEMMA TouchingIs ==
    ASSUME NEW p, NEW s, NEW c
    PROVE  c \in Touching(p, s) <=> c \in 1 .. s /\ c > born /\ log[c].page = p
BY DEF Touching

LEMMA TouchingRange == ASSUME NEW p, NEW s PROVE Touching(p, s) \subseteq 1 .. s
BY DEF Touching

LEMMA LastTouchIs ==
    ASSUME NEW p, NEW s \in Nat
    PROVE  /\ LastTouch(p, s) \in 0 .. s
           /\ LastTouch(p, s) = 0 <=> Touching(p, s) = {}
           /\ LastTouch(p, s) # 0 => /\ LastTouch(p, s) \in Touching(p, s)
                                     /\ \A c \in Touching(p, s) : c <= LastTouch(p, s)
BY TouchingRange, NewestIs DEF LastTouch

LEMMA LastTouchUnique ==
    ASSUME NEW p, NEW s \in Nat, NEW c \in Touching(p, s), \A e \in Touching(p, s) : e <= c
    PROVE  LastTouch(p, s) = c
BY TouchingRange, NewestUnique DEF LastTouch

(* A commit is the last touch of its page in its own tree. *)
LEMMA OwnTouch ==
    ASSUME NEW s \in Nat \ {0}, s > born
    PROVE  LastTouch(log[s].page, s) = s /\ s \in Touching(log[s].page, s)
<1>1. s \in Touching(log[s].page, s)
  BY TouchingIs
<1>2. \A e \in Touching(log[s].page, s) : e <= s
  BY TouchingRange
<1>. QED BY <1>1, <1>2, LastTouchUnique

LEMMA ParentIs ==
    ASSUME NEW p, NEW s \in Nat
    PROVE  /\ Parent(p, s) \in 0 .. s
           /\ Parent(p, s) # 0 => /\ Parent(p, s) \in Touching(p, s) \ {LastTouch(p, s)}
           /\ \A c \in Touching(p, s) \ {LastTouch(p, s)} : c <= Parent(p, s) /\ Parent(p, s) # 0
<1>. DEFINE S == Touching(p, s) \ {LastTouch(p, s)}
<1>1. S \subseteq 1 .. s
  BY TouchingRange
<1>2. Parent(p, s) = Newest(S)
  BY DEF Parent
<1>. HIDE DEF S
<1>3. Newest(S) \in 0 .. s /\ (S = {} <=> Newest(S) = 0) /\ (S # {} => Newest(S) \in S /\ \A c \in S : c <= Newest(S))
  BY <1>1, NewestIs
<1>4. /\ Parent(p, s) \in 0 .. s
      /\ Parent(p, s) # 0 => Parent(p, s) \in S
      /\ \A c \in S : c <= Parent(p, s) /\ Parent(p, s) # 0
  BY <1>2, <1>3
<1>. QED BY <1>4 DEF S

(* What a history says of its tips. *)
LEMMA TipIsLast ==
    ASSUME StoreTypeOK, History, NEW p \in Pages
    PROVE  LastTouch(p, Len(log)) = tip[p] /\ tip[p] \in 0 .. Len(log)
<1>1. Len(log) \in Nat
  BY DEF StoreTypeOK
<1>2. CASE tip[p] = 0
  <2>1. Touching(p, Len(log)) = {}
    BY <1>2 DEF History
  <2>. QED BY <2>1, <1>1, <1>2, LastTouchIs
<1>3. CASE tip[p] # 0
  <2>1. tip[p] \in Touching(p, Len(log)) /\ \A e \in Touching(p, Len(log)) : e <= tip[p]
    BY <1>3 DEF History, IsLast
  <2>2. LastTouch(p, Len(log)) = tip[p]
    BY <2>1, <1>1, LastTouchUnique
  <2>. QED BY <2>2, <1>1, LastTouchIs
<1>. QED BY <1>2, <1>3

LEMMA StoreTypes ==
    ASSUME StoreTypeOK, History
    PROVE  /\ Len(log) \in Nat /\ Len(log) <= MaxCommits /\ MaxCommits \in Nat
           /\ Len(log) \in Sha /\ born \in Nat /\ born \in Sha /\ born <= Len(log)
           /\ 0 \in Sha /\ \A s \in 0 .. Len(log) : s \in Sha /\ s \in Nat
           /\ \A c \in 1 .. Len(log) : log[c].page \in Pages /\ log[c].content \in Contents
           /\ \A p \in Pages : tip[p] \in Sha
<1>1. MaxCommits \in Nat
  BY MaxCommitsAssumption
<1>2. \A c \in 1 .. Len(log) : log[c] \in Commit
  BY DEF StoreTypeOK
<1>3. \A c \in 1 .. Len(log) : log[c].page \in Pages /\ log[c].content \in Contents
  BY <1>2 DEF Commit
<1>4. Len(log) \in Nat /\ Len(log) <= MaxCommits /\ born \in Nat /\ Len(log) \in Sha /\ born \in Sha /\ \A p \in Pages : tip[p] \in Sha
  BY <1>1 DEF StoreTypeOK, Sha
<1>5. born <= Len(log)
  BY DEF History
<1>6. 0 \in Sha /\ \A s \in 0 .. Len(log) : s \in Sha /\ s \in Nat
  BY <1>1, <1>4 DEF Sha
<1>. QED BY <1>1, <1>3, <1>4, <1>5, <1>6

(* The bytes of a page are those of the commit that last touched it. *)
LEMMA BlobIs ==
    ASSUME StoreTypeOK, History, NEW p, NEW s \in 0 .. Len(log)
    PROVE  /\ BlobAt(p, s) \in Contents \cup {NoContent}
           /\ BlobAt(p, s) # NoContent <=> LastTouch(p, s) # 0
           /\ BlobAt(p, s) # NoContent => /\ BlobAt(p, s) = log[LastTouch(p, s)].content
                                       /\ LastTouch(p, s) \in 1 .. Len(log)
                                       /\ log[LastTouch(p, s)].page = p
<1>1. s \in Nat /\ Len(log) \in Nat
  BY StoreTypes
<1>2. CASE LastTouch(p, s) = 0
  BY <1>2 DEF BlobAt
<1>3. CASE LastTouch(p, s) # 0
  <2>1. LastTouch(p, s) \in Touching(p, s)
    BY <1>1, <1>3, LastTouchIs
  <2>2. LastTouch(p, s) \in 1 .. s /\ log[LastTouch(p, s)].page = p
    BY <2>1, TouchingIs
  <2>3. LastTouch(p, s) \in 1 .. Len(log)
    BY <2>2, <1>1
  <2>4. log[LastTouch(p, s)].content \in Contents
    BY <2>3, StoreTypes
  <2>5. log[LastTouch(p, s)].content # NoContent
    BY <2>4, AbsentContent
  <2>6. BlobAt(p, s) = log[LastTouch(p, s)].content
    BY <1>3 DEF BlobAt
  <2>. QED BY <2>2, <2>3, <2>4, <2>5, <2>6, <1>3
<1>. QED BY <1>2, <1>3

-----------------------------------------------------------------------------
(* What a step may do to the repository.                                   *)

(* Commits are added, or the repository is deleted with all of them. *)
Grows == /\ StoreTypeOK' /\ History'
         /\ Len(log) <= Len(log')
         /\ \A c \in 1 .. Len(log) : log'[c] = log[c]
         /\ \/ born' = born /\ \A p \in Pages : tip[p] <= tip'[p]
            \/ born' = Len(log) /\ born < born'

LEMMA SameHistory ==
    ASSUME StoreTypeOK, History, Grows, born' = born, NEW p, NEW s \in 0 .. Len(log)
    PROVE  /\ Touching(p, s)' = Touching(p, s) /\ LastTouch(p, s)' = LastTouch(p, s)
           /\ Parent(p, s)' = Parent(p, s) /\ BlobAt(p, s)' = BlobAt(p, s)
           /\ Resolves(s)' <=> Resolves(s)
<1>1. Len(log) \in Nat
  BY StoreTypes
<1>2. \A c \in 1 .. s : log'[c] = log[c]
  BY <1>1 DEF Grows
<1>3. Touching(p, s)' = Touching(p, s)
  BY <1>2 DEF Touching
<1>4. LastTouch(p, s)' = LastTouch(p, s)
  BY <1>3 DEF LastTouch
<1>5. Parent(p, s)' = Parent(p, s)
  BY <1>3, <1>4 DEF Parent
<1>6. LastTouch(p, s) \in 0 .. s
  BY <1>1, LastTouchIs
<1>7. BlobAt(p, s)' = BlobAt(p, s)
  BY <1>4, <1>6, <1>2 DEF BlobAt
<1>8. Len(log') \in Nat /\ Len(log) <= Len(log') /\ s \in Nat /\ s <= Len(log)
  BY <1>1 DEF Grows, StoreTypeOK, Sha
<1>9. Resolves(s)' <=> Resolves(s)
  BY <1>8, <1>1 DEF Resolves
<1>. QED BY <1>3, <1>4, <1>5, <1>7, <1>9

LEMMA MoreTouching ==
    ASSUME StoreTypeOK, History, Grows, born' = born, NEW p
    PROVE  /\ Touching(p, Len(log)) \subseteq Touching(p, Len(log))'
           /\ \A c \in Touching(p, Len(log))' : c <= Len(log) => c \in Touching(p, Len(log))
           /\ IsFiniteSet(Touching(p, Len(log))')
<1>1. Len(log) \in Nat /\ Len(log') \in Nat /\ Len(log) <= Len(log')
  BY StoreTypes DEF Grows, StoreTypeOK
<1>2. \A c \in 1 .. Len(log) : log'[c] = log[c] /\ c \in 1 .. Len(log')
  BY <1>1 DEF Grows
<1>3. Touching(p, Len(log)) \subseteq Touching(p, Len(log))'
  BY <1>2 DEF Touching
<1>4. \A c \in Touching(p, Len(log))' : c <= Len(log) => c \in Touching(p, Len(log))
  BY <1>1, <1>2 DEF Touching
<1>5. Touching(p, Len(log))' \subseteq 1 .. Len(log')
  BY DEF Touching
<1>6. IsFiniteSet(1 .. Len(log'))
  BY <1>1, FS_Interval
<1>7. IsFiniteSet(Touching(p, Len(log))')
  BY <1>5, <1>6, FS_Subset
<1>. QED BY <1>3, <1>4, <1>7

(* A commit of an earlier life does not resolve. *)
LEMMA Buried ==
    ASSUME StoreTypeOK, History, Grows, born' # born, NEW r \in Reading, r.life <= born
    PROVE  /\ ~Fresh(r)' /\ r.life <= born'
           /\ \A s \in 0 .. Len(log) : ~Resolves(s)'
<1>1. born' = Len(log) /\ born < born' /\ born \in Nat /\ Len(log) \in Nat
  BY StoreTypes DEF Grows
<1>2. r.life \in Nat
  BY StoreTypes DEF Reading, Sha
<1>3. ~Fresh(r)' /\ r.life <= born'
  BY <1>1, <1>2 DEF Fresh
<1>4. \A s \in 0 .. Len(log) : ~Resolves(s)'
  BY <1>1 DEF Resolves
<1>. QED BY <1>3, <1>4

LEMMA StaysPaired ==
    ASSUME StoreTypeOK, History, Grows, NEW v, Paired(v)
    PROVE  Paired(v)'
<1>1. Len(log) \in Nat /\ Len(log') \in Nat /\ Len(log) <= Len(log')
  BY StoreTypes DEF Grows, StoreTypeOK
<1>2. v[2] \in 1 .. Len(log) /\ log'[v[2]] = log[v[2]] /\ v[2] \in 1 .. Len(log')
  BY <1>1 DEF Grows, Paired
<1>. QED BY <1>2 DEF Paired

LEMMA StaysFound ==
    ASSUME StoreTypeOK, History, Grows, NEW r \in Reading, r.life <= born, Found(r)
    PROVE  Found(r)' /\ r.life <= born'
<1>1. Len(log) \in Nat /\ Len(log') \in Nat /\ Len(log) <= Len(log') /\ born \in Nat /\ born' \in Nat
  BY StoreTypes DEF Grows, StoreTypeOK, Sha
<1>2. r.life <= born' /\ (Fresh(r)' => born' = born /\ Fresh(r))
  <2>1. r.life \in Nat
    BY StoreTypes DEF Reading, Sha
  <2>2. born' = born \/ born < born'
    BY DEF Grows
  <2>. QED BY <1>1, <2>1, <2>2 DEF Fresh
<1>3. r.at = "blob" => r.sha \in 1 .. Len(log) /\ log[r.sha].page = r.page
  BY DEF Found
<1>4. r.at = "blob" => r.sha \in 1 .. Len(log') /\ log'[r.sha].page = r.page
  BY <1>1, <1>3 DEF Grows
<1>. QED BY <1>2, <1>4 DEF Found

LEMMA TipsGrow ==
    ASSUME StoreTypeOK, History, Grows, born' = born, NEW p \in Pages, NEW l \in Nat, l <= tip[p]
    PROVE  l <= tip'[p]
<1>1. tip[p] \in Nat /\ tip'[p] \in Nat
  BY MaxCommitsAssumption DEF Grows, StoreTypeOK, Sha
<1>2. tip[p] <= tip'[p]
  BY StoreTypes DEF Grows
<1>. QED BY <1>1, <1>2

-----------------------------------------------------------------------------
(* What an operation has, it keeps while the repository moves on.          *)

LEMMA ReadingTypes ==
    ASSUME StoreTypeOK, History, NEW r \in Reading
    PROVE  /\ r.page \in Pages \cup {"none"} /\ r.back \in {"done", "batch", "missing"} /\ r.at \in Spots
           /\ r.from \in Nat /\ r.to \in Nat /\ r.sha \in Nat /\ r.life \in Nat /\ r.low \in Nat /\ r.head \in Nat
           /\ \A p \in Pages : r.list[p] \in Nat /\ r.list[p] \in Sha
           /\ r.got \in Answers /\ Len(r.got) \in Nat /\ DOMAIN r.got = 1 .. Len(r.got)
           /\ \A i \in DOMAIN r.got : r.got[i][1] \in Pages /\ r.got[i][2] \in Sha /\ r.got[i][2] \in Nat
<1>1. \A s \in Sha : s \in Nat
  BY StoreTypes DEF Sha
<1>2. r.got \in Answers
  BY DEF Reading
<1>3. Len(r.got) \in Nat /\ DOMAIN r.got = 1 .. Len(r.got) /\ \A i \in DOMAIN r.got : r.got[i] \in Pages \X Sha \X (Contents \cup {NoContent})
  BY <1>2 DEF Answers
<1>4. \A i \in DOMAIN r.got : r.got[i][1] \in Pages /\ r.got[i][2] \in Sha /\ r.got[i][2] \in Nat
  BY <1>1, <1>3
<1>5. r.list \in [Pages -> Sha]
  BY DEF Reading
<1>6. \A p \in Pages : r.list[p] \in Nat /\ r.list[p] \in Sha
  BY <1>1, <1>5
<1>7. r.from \in Sha /\ r.to \in Sha /\ r.sha \in Sha /\ r.life \in Sha /\ r.low \in Sha /\ r.head \in Sha
  BY DEF Reading
<1>8. r.page \in Pages \cup {"none"} /\ r.back \in {"done", "batch", "missing"} /\ r.at \in Spots
  BY DEF Reading
<1>. QED BY <1>1, <1>2, <1>3, <1>4, <1>6, <1>7, <1>8

LEMMA PageStays ==
    ASSUME StoreTypeOK, History, Grows, NEW r \in Reading, r.page \in Pages, r.life <= born, PageOK(r)
    PROVE  PageOK(r)'
<1>1. \A i \in DOMAIN r.got : Paired(r.got[i])'
  BY StaysPaired DEF PageOK
<1>2. CASE born' = born
  <2>1. Fresh(r)' => Fresh(r)
    BY <1>2 DEF Fresh
  <2>2. r.low <= tip[r.page] => r.low <= tip'[r.page]
    BY <1>2, TipsGrow, ReadingTypes
  <2>. QED BY <1>1, <2>1, <2>2 DEF PageOK
<1>3. CASE born' # born
  BY <1>1, <1>3, Buried DEF PageOK
<1>. QED BY <1>2, <1>3

LEMMA AtStays ==
    ASSUME StoreTypeOK, History, Grows, NEW r \in Reading, r.life <= born, AtOK(r)
    PROVE  AtOK(r)'
<1>1. Len(log) \in Nat /\ Len(log') \in Nat /\ Len(log) <= Len(log')
  BY StoreTypes DEF Grows, StoreTypeOK
<1>2. r.to \in 1 .. Len(log) /\ r.to \in 1 .. Len(log') /\ r.to \in 0 .. Len(log)
  BY <1>1 DEF AtOK
<1>3. Paired(r.got[1]) => Paired(r.got[1])'
  BY StaysPaired
<1>4. CASE born' = born
  <2>1. Fresh(r)' => Fresh(r)
    BY <1>4 DEF Fresh
  <2>2. LastTouch(r.page, r.to)' = LastTouch(r.page, r.to) /\ BlobAt(r.page, r.to)' = BlobAt(r.page, r.to)
        /\ (Resolves(r.to)' <=> Resolves(r.to))
    BY <1>4, <1>2, SameHistory
  <2>. QED BY <1>2, <1>3, <2>1, <2>2 DEF AtOK
<1>5. CASE born' # born
  <2>1. ~Fresh(r)' /\ ~Resolves(r.to)'
    BY <1>5, <1>2, Buried
  <2>. QED BY <1>2, <1>3, <2>1 DEF AtOK
<1>. QED BY <1>4, <1>5

LEMMA FirstStays ==
    ASSUME StoreTypeOK, History, Grows, born' = born, NEW p, NEW x, FirstWith(p, x)
    PROVE  FirstWith(p, x)'
<1>1. Len(log) \in Nat /\ Len(log') \in Nat /\ Len(log) <= Len(log')
  BY StoreTypes DEF Grows, StoreTypeOK
<1>2. x[2] \in 1 .. Len(log)
  BY DEF FirstWith
<1>3. x[2] \in 1 .. Len(log') /\ log'[x[2]] = log[x[2]] /\ x[2] - 1 \in 0 .. Len(log)
  BY <1>1, <1>2 DEF Grows
<1>4. Touching(p, x[2] - 1)' = Touching(p, x[2] - 1)
  BY <1>3, SameHistory
<1>5. \A c \in Touching(p, x[2] - 1) : log'[c] = log[c]
  BY <1>1, <1>3, TouchingRange DEF Grows
<1>. QED BY <1>3, <1>4, <1>5 DEF FirstWith

LEMMA DiffStays ==
    ASSUME StoreTypeOK, History, Grows, NEW r \in Reading, r.life <= born, DiffOK(r)
    PROVE  DiffOK(r)'
<1>1. Len(log) \in Nat /\ Len(log') \in Nat /\ Len(log) <= Len(log')
  BY StoreTypes DEF Grows, StoreTypeOK
<1>2. r.to \in 0 .. Len(log) /\ r.to \in 0 .. Len(log') /\ r.from \in 0 .. Len(log')
  BY <1>1 DEF DiffOK
<1>3. CASE born' = born
  <2>1. Fresh(r)' => Fresh(r)
    BY <1>3 DEF Fresh
  <2>2. Parent(r.page, r.to)' = Parent(r.page, r.to) /\ BlobAt(r.page, r.to)' = BlobAt(r.page, r.to)
    BY <1>3, <1>2, SameHistory
  <2>3. r.sha \in 1 .. Len(log) => r.sha \in 1 .. Len(log') /\ BlobAt(r.page, r.sha)' = BlobAt(r.page, r.sha)
    <3>1. r.sha \in 1 .. Len(log) => r.sha \in 0 .. Len(log) /\ r.sha \in 1 .. Len(log')
      BY <1>1
    <3>. QED BY <1>3, <3>1, SameHistory
  <2>4. r.at \notin {"to", "from"} => r.sha \in 1 .. Len(log)
    BY DEF DiffOK
  <2>5. Cardinality(Touching(r.page, Len(log))') <= BlameCap => Cardinality(Touching(r.page, Len(log))) <= BlameCap
    <3>1. /\ Touching(r.page, Len(log)) \subseteq Touching(r.page, Len(log))'
          /\ IsFiniteSet(Touching(r.page, Len(log))')
      BY <1>3, MoreTouching
    <3>2. /\ Cardinality(Touching(r.page, Len(log))) <= Cardinality(Touching(r.page, Len(log))')
          /\ IsFiniteSet(Touching(r.page, Len(log)))
      BY <3>1, FS_Subset
    <3>3. Cardinality(Touching(r.page, Len(log))) \in Nat /\ Cardinality(Touching(r.page, Len(log))') \in Nat
      BY <3>1, <3>2, FS_CardinalityType
    <3>4. BlameCap \in Nat
      BY ReadsAssumption
    <3>. QED BY <3>2, <3>3, <3>4
  <2>6. \A x : FirstWith(r.page, x) => FirstWith(r.page, x)'
    BY <1>3, FirstStays
  <2>7. r.at = "done" /\ Fresh(r)' /\ Cardinality(Touching(r.page, Len(log))') <= BlameCap =>
          \A x \in r.todo : FirstWith(r.page, x)'
    BY <2>1, <2>5, <2>6 DEF DiffOK
  <2>. QED BY <1>2, <2>1, <2>2, <2>3, <2>4, <2>7 DEF DiffOK
<1>4. CASE born' # born
  <2>1. ~Fresh(r)'
    BY <1>4, Buried
  <2>2. r.sha \in 1 .. Len(log) => r.sha \in 1 .. Len(log')
    BY <1>1
  <2>. QED BY <1>2, <2>1, <2>2 DEF DiffOK
<1>. QED BY <1>3, <1>4

LEMMA EvolutionStays ==
    ASSUME StoreTypeOK, History, Grows, NEW r \in Reading, r.page \in Pages, r.life <= born, EvolutionOK(r)
    PROVE  EvolutionOK(r)'
<1>1. Len(log) \in Nat /\ Len(log') \in Nat /\ Len(log) <= Len(log')
  BY StoreTypes DEF Grows, StoreTypeOK
<1>2. r.need \subseteq 1 .. Len(log) => r.need \subseteq 1 .. Len(log')
  BY <1>1
<1>3. CASE born' # born
  <2>1. ~Fresh(r)'
    BY <1>3, Buried
  <2>. QED BY <2>1, <1>2 DEF EvolutionOK
<1>4. CASE born' = born
  <2>1. Fresh(r)' => Fresh(r)
    BY <1>4 DEF Fresh
  <2>2. r.low <= tip[r.page] => r.low <= tip'[r.page]
    BY <1>4, TipsGrow, ReadingTypes
  <2>3. ASSUME Fresh(r), r.at \in {"entry", "done"}
        PROVE  /\ Walked(r) \subseteq Touching(r.page, Len(log))'
               /\ \A k, m \in Walked(r), c \in Touching(r.page, Len(log))' : k <= c /\ c <= m => c \in Walked(r)
               /\ \A x \in r.todo : x[1] = Parent(r.page, x[2])'
    <3>1. Walked(r) \subseteq Touching(r.page, Len(log)) /\ \A x \in r.todo : x[1] = Parent(r.page, x[2])
      BY <2>3 DEF EvolutionOK
    <3>2. Walked(r) \subseteq 1 .. Len(log)
      BY <3>1, TouchingRange
    <3>3. Walked(r) \subseteq Touching(r.page, Len(log))'
      BY <1>4, <3>1, MoreTouching
    <3>4. ASSUME NEW k \in Walked(r), NEW m \in Walked(r), NEW c \in Touching(r.page, Len(log))', k <= c, c <= m
          PROVE  c \in Walked(r)
      <4>1. c \in 1 .. Len(log')
        BY DEF Touching
      <4>2. c <= Len(log)
        BY <1>1, <3>2, <3>4, <4>1
      <4>3. c \in Touching(r.page, Len(log))
        BY <4>2, <1>4, MoreTouching
      <4>. QED BY <2>3, <3>4, <4>3 DEF EvolutionOK
    <3>5. ASSUME NEW x \in r.todo PROVE x[1] = Parent(r.page, x[2])'
      <4>1. x[2] \in Walked(r)
        BY DEF Walked
      <4>2. x[2] \in 0 .. Len(log)
        BY <4>1, <3>2, <1>1
      <4>. QED BY <4>2, <1>4, <3>1, SameHistory
    <3>. QED BY <3>3, <3>4, <3>5
  <2>4. Walked(r)' = Walked(r)
    BY DEF Walked
  <2>. QED BY <1>2, <2>1, <2>2, <2>3, <2>4 DEF EvolutionOK
<1>. QED BY <1>3, <1>4

LEMMA PullStays ==
    ASSUME StoreTypeOK, History, Grows, NEW r \in Reading, r.life <= born, PullOK(r)
    PROVE  PullOK(r)'
<1>1. \A i \in DOMAIN r.got : Paired(r.got[i])'
  BY StaysPaired DEF PullOK
<1>2. Taken(r)' = Taken(r)
  BY DEF Taken
<1>3. CASE born' # born
  <2>1. ~Fresh(r)'
    BY <1>3, Buried
  <2>. QED BY <2>1, <1>1, <1>2 DEF PullOK
<1>4. CASE born' = born
  <2>1. Fresh(r)' => Fresh(r)
    BY <1>4 DEF Fresh
  <2>2. \A p \in Pages : r.list[p] <= tip[p] => r.list[p] <= tip'[p]
    BY <1>4, TipsGrow, ReadingTypes
  <2>3. \A p \in Pages : tip[p] # 0 => tip'[p] # 0
    <3>1. \A p \in Pages : tip[p] \in Nat /\ tip'[p] \in Nat
      BY MaxCommitsAssumption DEF Grows, StoreTypeOK, Sha
    <3>2. \A p \in Pages : tip[p] <= tip'[p]
      BY <1>4, StoreTypes DEF Grows
    <3>. QED BY <3>1, <3>2
  <2>. QED BY <1>1, <1>2, <2>1, <2>2, <2>3 DEF PullOK
<1>. QED BY <1>3, <1>4

LEMMA ReadStays ==
    ASSUME StoreTypeOK, History, Grows, NEW r \in Reading, ReadOK(r)
    PROVE  ReadOK(r)'
<1>1. r.life <= born /\ Found(r) /\ Course(r)
  BY DEF ReadOK
<1>2. Course(r)' /\ Found(r)' /\ r.life <= born'
  BY <1>1, StaysFound DEF Course
<1>3. r.op \in {"page", "evolution"} => r.page \in Pages
  BY <1>1 DEF Course
<1>4. r.op = "page" => PageOK(r)'
  BY <1>1, <1>3, PageStays DEF ReadOK
<1>5. r.op = "at" => AtOK(r)'
  BY <1>1, AtStays DEF ReadOK
<1>6. r.op = "diff" => DiffOK(r)'
  BY <1>1, DiffStays DEF ReadOK
<1>7. r.op = "evolution" => EvolutionOK(r)'
  BY <1>1, <1>3, EvolutionStays DEF ReadOK
<1>8. r.op = "pull" => PullOK(r)'
  BY <1>1, PullStays DEF ReadOK
<1>. QED BY <1>2, <1>4, <1>5, <1>6, <1>7, <1>8 DEF ReadOK

-----------------------------------------------------------------------------
(* Commits, and a deletion.                                                *)

LEMMA StayGrows ==
    ASSUME StoreTypeOK, History, UNCHANGED storeVars
    PROVE  Grows
<1>1. log' = log /\ tip' = tip /\ born' = born
  BY DEF storeVars
<1>2. StoreTypeOK'
  BY <1>1 DEF StoreTypeOK
<1>3. \A p, s : Touching(p, s)' = Touching(p, s)
  BY <1>1 DEF Touching
<1>4. \A p, s, c : IsLast(p, s, c)' <=> IsLast(p, s, c)
  BY <1>3 DEF IsLast
<1>5. \A b, c : Successive(b, c)' <=> Successive(b, c)
  BY <1>1 DEF Successive
<1>6. History'
  BY <1>1, <1>3, <1>4, <1>5 DEF History
<1>7. Len(log) \in Nat /\ Len(log) <= Len(log')
  BY <1>1 DEF StoreTypeOK
<1>8. \A p \in Pages : tip[p] <= tip'[p]
  BY <1>1, StoreTypes DEF Sha
<1>. QED BY <1>1, <1>2, <1>6, <1>7, <1>8 DEF Grows

LEMMA WriteGrows ==
    ASSUME StoreTypeOK, History, NEW w \in Peers, NEW p \in Pages, NEW d \in Contents, StorePeerWrite(w, p, d)
    PROVE  Grows
<1>. DEFINE it == [by |-> w, page |-> p, content |-> d, parent |-> 0, absent |-> FALSE]
            rec == [page |-> p, content |-> d, by |-> w]
            n == Len(log) + 1
<1>1. CASE Refused(it) \/ NoOp(it)
  <2>1. UNCHANGED storeVars
    BY <1>1 DEF StorePeerWrite, StoreWrite, storeVars
  <2>. QED BY <2>1, StayGrows
<1>2. CASE ~(Refused(it) \/ NoOp(it))
  <2>1. /\ Len(log) < MaxCommits /\ log' = Append(log, rec) /\ tip' = [tip EXCEPT ![p] = n] /\ born' = born
        /\ ~(tip[p] # 0 /\ log[tip[p]].content = d)
    BY <1>2 DEF StorePeerWrite, StoreWrite, NoOp
  <2>2. rec \in Commit /\ rec.page = p /\ rec.content = d
    BY DEF Commit
  <2>. HIDE DEF rec, it
  <2>3. /\ log \in Seq(Commit) /\ Len(log) \in Nat /\ born \in Nat /\ born <= Len(log) /\ MaxCommits \in Nat
        /\ tip \in [Pages -> Sha]
    BY StoreTypes DEF StoreTypeOK
  <2>4. /\ log' \in Seq(Commit) /\ Len(log') = n /\ log'[n] = rec
        /\ \A c \in 1 .. Len(log) : log'[c] = log[c]
    BY <2>1, <2>2, <2>3
  <2>5. n \in Sha /\ n \in Nat /\ n \in 1 .. n
    BY <2>1, <2>3 DEF Sha
  <2>6. StoreTypeOK'
    BY <2>1, <2>3, <2>4, <2>5, StoreTypes DEF StoreTypeOK
  <2>7. \A x \in Pages : tip[x] \in 0 .. Len(log)
    BY TipIsLast
  <2>8. \A x \in Pages : tip[x] <= tip'[x]
    BY <2>1, <2>3, <2>7
  <2>9. ASSUME NEW x \in Pages, x # p
        PROVE  IF tip'[x] = 0 THEN Touching(x, Len(log))' = {} ELSE IsLast(x, Len(log), tip[x])'
    <3>1. Touching(x, Len(log))' = Touching(x, Len(log))
      BY <2>9, <2>1, <2>2, <2>3, <2>4 DEF Touching
    <3>2. tip'[x] = tip[x]
      BY <2>9, <2>1, <2>3
    <3>. QED BY <3>1, <3>2 DEF History, IsLast
  <2>10. tip'[p] = n /\ n # 0 /\ IsLast(p, Len(log), tip[p])'
    <3>1. tip'[p] = n /\ n # 0
      BY <2>1, <2>3
    <3>2. n \in Touching(p, Len(log))'
      BY <2>1, <2>2, <2>3, <2>4, <2>5 DEF Touching
    <3>3. \A e \in Touching(p, Len(log))' : e <= n
      BY <2>3, <2>4 DEF Touching
    <3>. QED BY <3>1, <3>2, <3>3 DEF IsLast
  <2>11. ASSUME NEW b \in 1 .. n, NEW c \in 1 .. n, Successive(b, c)'
         PROVE  log'[b].content # log'[c].content
    <3>1. /\ born < b /\ b < c /\ log'[b].page = log'[c].page
          /\ \A e \in 1 .. n : b < e /\ e < c => log'[e].page # log'[b].page
      BY <2>1, <2>4, <2>11 DEF Successive
    <3>2. b \in 1 .. Len(log) /\ log'[b] = log[b]
      BY <2>3, <2>4, <3>1
    <3>3. CASE c \in 1 .. Len(log)
      <4>1. log'[c] = log[c] /\ \A e \in 1 .. Len(log) : e \in 1 .. n /\ log'[e] = log[e]
        BY <3>3, <2>3, <2>4
      <4>2. Successive(b, c)
        BY <3>1, <3>2, <4>1 DEF Successive
      <4>3. log[b].content # log[c].content
        BY <4>2, <3>2, <3>3 DEF History
      <4>. QED BY <4>1, <4>3, <3>2
    <3>4. CASE c = n
      <4>1. log'[c] = rec
        BY <3>4, <2>4
      <4>2. b \in Touching(p, Len(log))
        BY <3>1, <3>2, <4>1, <2>2 DEF Touching
      <4>3. tip[p] # 0 /\ tip[p] \in Touching(p, Len(log)) /\ b <= tip[p]
        BY <4>2 DEF History, IsLast
      <4>4. tip[p] \in 1 .. Len(log) /\ log[tip[p]].page = p
        BY <4>3 DEF Touching
      <4>5. tip[p] \in 1 .. n /\ log'[tip[p]].page = p /\ tip[p] < n
        BY <4>4, <2>3, <2>4
      <4>6. ~(b < tip[p])
        BY <4>5, <3>1, <3>4, <4>1, <2>2
      <4>7. b = tip[p]
        BY <4>3, <4>4, <4>6, <3>2
      <4>8. log[b].content # d
        BY <4>3, <4>7, <2>1
      <4>. QED BY <4>8, <4>1, <2>2, <3>2
    <3>. QED BY <3>3, <3>4, <2>3
  <2>12. History'
    <3>1. born' <= Len(log')
      BY <2>1, <2>3, <2>4
    <3>. QED BY <3>1, <2>4, <2>9, <2>10, <2>11 DEF History
  <2>13. Len(log) <= Len(log')
    BY <2>3, <2>4
  <2>. QED BY <2>1, <2>4, <2>6, <2>8, <2>12, <2>13 DEF Grows
<1>. QED BY <1>1, <1>2

LEMMA WipeGrows ==
    ASSUME StoreTypeOK, History, StoreWipe
    PROVE  Grows
<1>1. born < Len(log) /\ born' = Len(log) /\ tip' = [p \in Pages |-> 0] /\ log' = log
  BY DEF StoreWipe
<1>2. Len(log) \in Nat /\ Len(log) \in Sha /\ 0 \in Sha
  BY StoreTypes
<1>3. StoreTypeOK'
  BY <1>1, <1>2 DEF StoreTypeOK
<1>4. \A p \in Pages : tip'[p] = 0 /\ Touching(p, Len(log))' = {}
  BY <1>1, <1>2 DEF Touching
<1>5. \A b, c \in 1 .. Len(log') : ~Successive(b, c)'
  BY <1>1, <1>2 DEF Successive
<1>6. born' <= Len(log')
  BY <1>1, <1>2
<1>7. History'
  BY <1>4, <1>5, <1>6 DEF History
<1>8. Len(log) <= Len(log')
  BY <1>1, <1>2
<1>. QED BY <1>1, <1>3, <1>7, <1>8 DEF Grows

(* Neither moves the reader. *)
LEMMA Around ==
    ASSUME ReadsInvariant, Grows, UNCHANGED <<have, lastPull, rd>>
    PROVE  ReadsInvariant'
<1>1. StoreTypeOK /\ History /\ rd \in Reading /\ ReadOK(rd) /\ have \in [Pages -> Sha] /\ lastPull \in Sha
  BY DEF ReadsInvariant
<1>2. \A r \in Reading : ReadOK(r) => ReadOK(r)'
  BY <1>1, ReadStays
<1>3. PICK r \in Reading : r = rd /\ ReadOK(r)
  BY <1>1
<1>4. ReadOK(r)' /\ rd' = r
  BY <1>2, <1>3
<1>5. ReadOK(rd)'
  BY <1>4
<1>. QED BY <1>1, <1>4, <1>5 DEF ReadsInvariant, Grows

(* A step of the reader: what it has then must be right. *)
LEMMA ReaderStep ==
    ASSUME ReadsInvariant, UNCHANGED storeVars, have' \in [Pages -> Sha], lastPull' \in Sha,
           NEW r \in Reading, rd' = r, ReadOK(r)
    PROVE  ReadsInvariant'
<1>1. StoreTypeOK /\ History
  BY DEF ReadsInvariant
<1>2. Grows
  BY <1>1, StayGrows
<1>3. ReadOK(r)'
  BY <1>1, <1>2, ReadStays
<1>4. ReadOK(rd)'
  BY <1>3
<1>. QED BY <1>2, <1>4 DEF ReadsInvariant, Grows

LEMMA ReaderMoves ==
    ASSUME ReadsInvariant, Reader, NEW r \in Reading, rd' = r, ReadOK(r)
    PROVE  ReadsInvariant'
<1>1. UNCHANGED storeVars /\ have' = have /\ lastPull' = lastPull
  BY DEF Reader
<1>2. have' \in [Pages -> Sha] /\ lastPull' \in Sha
  BY <1>1 DEF ReadsInvariant
<1>. QED BY <1>1, <1>2, ReaderStep

-----------------------------------------------------------------------------
(* The operations.                                                         *)

LEMMA SpotsAre ==
    /\ "find" \in Spots /\ "blob" \in Spots /\ "blobAt" \in Spots /\ "pathSHA" \in Spots /\ "head" \in Spots
    /\ "refused" \in Spots /\ "from" \in Spots /\ "left" \in Spots /\ "right" \in Spots /\ "blame" \in Spots
    /\ "entry" \in Spots /\ "batchHead" \in Spots /\ "changed" \in Spots /\ "batch" \in Spots
    /\ "missing" \in Spots /\ "done" \in Spots
BY DEF Spots

LEMMA Knows ==
    ASSUME ReadsInvariant
    PROVE  /\ StoreTypeOK /\ History /\ rd \in Reading /\ rd.at \in Spots /\ ReadOK(rd)
           /\ Course(rd) /\ Found(rd) /\ rd.life <= born
BY DEF ReadsInvariant, ReadOK, Reading

LEMMA Rest == ASSUME ReadsInvariant PROVE Resting \in Reading /\ ReadOK(Resting)
<1>1. 0 \in Sha /\ born \in Nat /\ StoreTypeOK
  BY StoreTypes DEF ReadsInvariant
<1>2. << >> \in Answers /\ NoShas \in [Pages -> Sha] /\ "idle" \in Spots
  BY <1>1 DEF Answers, NoShas, Spots
<1>3. Resting \in Reading
  BY <1>1, <1>2 DEF Resting, Reading
<1>4. Resting.at = "idle" /\ Resting.op = "none" /\ Resting.life = 0
  BY DEF Resting
<1>. HIDE DEF Resting
<1>5. Course(Resting) /\ Found(Resting) /\ Resting.life <= born
  BY <1>1, <1>4 DEF Course, Found
<1>. QED BY <1>3, <1>4, <1>5 DEF ReadOK

LEMMA Fails == ASSUME ReadsInvariant, Reader, rd' = Resting PROVE ReadsInvariant'
<1>1. PICK r \in Reading : r = Resting /\ ReadOK(r)
  BY Rest
<1>. QED BY <1>1, ReaderMoves

LEMMA FindStep == ASSUME ReadsInvariant, Find PROVE ReadsInvariant'
<1>1. /\ StoreTypeOK /\ History /\ rd \in Reading /\ ReadOK(rd) /\ Course(rd) /\ rd.life <= born
  BY Knows
<1>2. rd.at = "find" /\ Reader /\ rd.op \in {"page", "pull"}
  BY <1>1 DEF Find, Course
<1>. DEFINE s == LastTouch(rd.page, Len(log))
<1>3. rd' = IF s = 0 THEN IF rd.op = "pull" THEN [rd EXCEPT !.at = rd.back] ELSE Resting
            ELSE [rd EXCEPT !.at = "blob", !.sha = s]
  BY DEF Find, PageGone, Go, Fail
<1>4. Len(log) \in Nat /\ s \in 0 .. Len(log) /\ s \in Sha
  BY <1>1, StoreTypes, LastTouchIs
<1>5. s # 0 => s \in 1 .. Len(log) /\ s > born /\ log[s].page = rd.page
  BY <1>4, LastTouchIs, TouchingIs
<1>6. rd.page \in Pages => s = tip[rd.page]
  BY <1>1, TipIsLast
<1>7. rd.op = "pull" => PullOK(rd) /\ rd.page \in Pages
  BY <1>1, <1>2 DEF ReadOK, PullOK
<1>8. rd.op = "page" => PageOK(rd) /\ rd.page \in Pages
  BY <1>1, <1>2 DEF ReadOK, Course
<1>. HIDE DEF s
<1>9. CASE s # 0
  <2>. DEFINE r == [rd EXCEPT !.at = "blob", !.sha = s]
  <2>1. r \in Reading
    BY <1>1, <1>4, SpotsAre DEF Reading
  <2>2. /\ r.at = "blob" /\ r.sha = s /\ r.op = rd.op /\ r.page = rd.page /\ r.life = rd.life /\ r.low = rd.low
        /\ r.got = rd.got /\ r.back = rd.back /\ r.need = rd.need /\ r.todo = rd.todo /\ r.list = rd.list /\ r.from = rd.from
    BY <1>1 DEF Reading
  <2>3. rd' = r
    BY <1>3, <1>9
  <2>. HIDE DEF r
  <2>4. Course(r) /\ Found(r) /\ r.life <= born
    BY <1>1, <1>2, <1>5, <1>9, <2>2 DEF Course, Found
  <2>5. r.op = "page" => PageOK(r)
    BY <1>2, <1>6, <1>8, <2>2 DEF PageOK, Fresh
  <2>6. r.op = "pull" => PullOK(r)
    BY <1>2, <1>6, <1>7, <2>2 DEF PullOK, Fresh, Taken
  <2>7. ReadOK(r)
    BY <1>2, <2>2, <2>4, <2>5, <2>6 DEF ReadOK
  <2>. QED BY <1>2, <2>1, <2>3, <2>7, ReaderMoves
<1>10. CASE s = 0 /\ rd.op = "pull"
  <2>. DEFINE r == [rd EXCEPT !.at = rd.back]
  <2>1. r \in Reading
    BY <1>1, SpotsAre DEF Reading
  <2>2. /\ r.at = rd.back /\ r.sha = rd.sha /\ r.op = rd.op /\ r.page = rd.page /\ r.life = rd.life
        /\ r.got = rd.got /\ r.back = rd.back /\ r.need = rd.need /\ r.todo = rd.todo /\ r.list = rd.list /\ r.from = rd.from
    BY <1>1 DEF Reading
  <2>3. rd' = r
    BY <1>3, <1>10
  <2>. HIDE DEF r
  <2>4. rd.back \in {"batch", "missing"}
    BY <1>1, <1>2, <1>7, <1>10 DEF PullOK, Reading
  <2>5. Course(r) /\ Found(r) /\ r.life <= born
    BY <1>1, <1>10, <2>2, <2>4 DEF Course, Found
  <2>6. ~Fresh(rd)
    <3>1. rd.page \in rd.need /\ (Fresh(rd) => \A p \in rd.need : tip[p] # 0)
      BY <1>2, <1>7, <1>10 DEF PullOK
    <3>. QED BY <3>1, <1>6, <1>7, <1>10
  <2>7. PullOK(r)
    BY <1>2, <1>7, <1>10, <2>2, <2>4, <2>6 DEF PullOK, Fresh, Taken
  <2>8. ReadOK(r)
    BY <1>10, <2>2, <2>5, <2>7 DEF ReadOK
  <2>. QED BY <1>2, <2>1, <2>3, <2>8, ReaderMoves
<1>11. CASE s = 0 /\ rd.op # "pull"
  <2>1. rd' = Resting
    BY <1>3, <1>11
  <2>. QED BY <1>2, <2>1, Fails
<1>. QED BY <1>9, <1>10, <1>11

LEMMA BlobStep == ASSUME ReadsInvariant, Blob PROVE ReadsInvariant'
<1>1. /\ StoreTypeOK /\ History /\ rd \in Reading /\ ReadOK(rd) /\ Course(rd) /\ Found(rd) /\ rd.life <= born
  BY Knows
<1>2. rd.at = "blob" /\ Reader /\ rd.op \in {"page", "pull"}
  BY <1>1 DEF Blob, Course
<1>. DEFINE d == IF Resolves(rd.sha) THEN BlobAt(rd.page, rd.sha) ELSE NoContent
            g == Append(rd.got, <<rd.page, rd.sha, d>>)
<1>3. rd' = IF d = NoContent THEN IF rd.op = "pull" THEN [rd EXCEPT !.at = rd.back] ELSE Resting
            ELSE [rd EXCEPT !.at = rd.back, !.got = g]
  BY DEF Blob, PageGone, Go, Fail, Deliver, BlobRev
<1>4. rd.sha \in 1 .. Len(log) /\ rd.sha \in 0 .. Len(log) /\ log[rd.sha].page = rd.page /\ Len(log) \in Nat /\ born \in Nat
  BY <1>1, <1>2, StoreTypes DEF Found
<1>5. rd.sha \in Sha /\ log[rd.sha].content \in Contents
  BY <1>1, <1>4, StoreTypes
<1>6. Resolves(rd.sha) => d = log[rd.sha].content
  <2>1. Resolves(rd.sha) => LastTouch(rd.page, rd.sha) = rd.sha
    BY <1>4, OwnTouch DEF Resolves
  <2>. QED BY <2>1, <1>4 DEF BlobAt
<1>7. d # NoContent => d = log[rd.sha].content
  BY <1>6
<1>8. Fresh(rd) => d # NoContent
  <2>1. Fresh(rd) => Resolves(rd.sha)
    BY <1>1, <1>2, <1>4 DEF Found, Resolves
  <2>. QED BY <2>1, <1>5, <1>6, AbsentContent
<1>9. rd.op = "pull" => PullOK(rd) /\ rd.page \in Pages /\ rd.back \in {"batch", "missing"}
  BY <1>1, <1>2 DEF ReadOK, PullOK, Reading
<1>10. rd.op = "page" => PageOK(rd) /\ rd.page \in Pages
  BY <1>1, <1>2 DEF ReadOK, Course
<1>. HIDE DEF d
<1>11. CASE d # NoContent
  <2>1. rd.got \in Answers /\ Len(rd.got) \in Nat
    BY <1>1, ReadingTypes
  <2>2. <<rd.page, rd.sha, d>> \in Pages \X Sha \X (Contents \cup {NoContent})
    BY <1>2, <1>5, <1>7, <1>9, <1>10, <1>11
  <2>3. g \in Answers /\ Len(g) = Len(rd.got) + 1
    BY <2>1, <2>2 DEF Answers
  <2>4. /\ \A i \in DOMAIN rd.got : g[i] = rd.got[i] /\ i \in DOMAIN g
        /\ g[Len(rd.got) + 1] = <<rd.page, rd.sha, d>>
        /\ \A i \in DOMAIN g : i \in DOMAIN rd.got \/ i = Len(rd.got) + 1
        /\ Len(rd.got) + 1 \in DOMAIN g
    BY <2>1, <2>2 DEF Answers
  <2>5. Paired(<<rd.page, rd.sha, d>>)
    BY <1>4, <1>7, <1>11 DEF Paired
  <2>. HIDE DEF g
  <2>. DEFINE r == [rd EXCEPT !.at = rd.back, !.got = g]
  <2>6. r \in Reading
    BY <1>1, <2>3, SpotsAre DEF Reading
  <2>7. /\ r.at = rd.back /\ r.sha = rd.sha /\ r.op = rd.op /\ r.page = rd.page /\ r.life = rd.life /\ r.low = rd.low
        /\ r.got = g /\ r.back = rd.back /\ r.need = rd.need /\ r.todo = rd.todo /\ r.list = rd.list /\ r.from = rd.from
    BY <1>1 DEF Reading
  <2>8. rd' = r
    BY <1>3, <1>11
  <2>. HIDE DEF r
  <2>9. r.at \in {"done", "batch", "missing"} /\ (r.op = "page" => r.at = "done")
        /\ (r.op = "pull" => r.at # "done")
    BY <1>1, <1>2, <1>9, <1>10, <2>7 DEF PageOK, Reading
  <2>10. Course(r) /\ Found(r) /\ r.life <= born
    BY <1>1, <1>2, <1>10, <2>7, <2>9 DEF Course, Found
  <2>11. ASSUME r.op = "page" PROVE PageOK(r)
    <3>1. PageOK(rd) /\ rd.got = << >> /\ Len(rd.got) = 0
      BY <1>2, <1>10, <2>7, <2>11 DEF PageOK
    <3>2. Len(g) = 1 /\ g[1] = <<rd.page, rd.sha, d>> /\ DOMAIN g = {1}
      BY <3>1, <2>3, <2>4 DEF Answers
    <3>3. \A i \in DOMAIN g : Paired(g[i])
      BY <2>5, <3>2
    <3>4. Fresh(rd) => g[1][2] >= rd.low
      BY <1>2, <3>1, <3>2 DEF PageOK
    <3>. QED BY <2>7, <2>9, <2>11, <3>1, <3>2, <3>3, <3>4 DEF PageOK, Fresh
  <2>12. ASSUME r.op = "pull" PROVE PullOK(r)
    <3>1. PullOK(rd)
      BY <1>9, <2>7, <2>12
    <3>2. \A i \in DOMAIN g : Paired(g[i])
      BY <2>4, <2>5, <3>1 DEF PullOK
    <3>3. Taken(rd) \subseteq Taken(r) /\ rd.page \in Taken(r)
      <4>1. \A i \in DOMAIN rd.got : rd.got[i][1] \in Taken(r)
        BY <2>4, <2>7 DEF Taken
      <4>2. rd.page \in Taken(r)
        BY <2>4, <2>7 DEF Taken
      <4>. QED BY <4>1, <4>2 DEF Taken
    <3>4. Fresh(rd) => \A i \in DOMAIN g : g[i][2] >= rd.list[g[i][1]]
      BY <1>2, <2>4, <3>1 DEF PullOK
    <3>5. Fresh(rd) /\ (rd.back = "missing" \/ rd.from = 0) => rd.need \subseteq Taken(r) \cup rd.todo
      BY <1>2, <3>1, <3>3 DEF PullOK
    <3>. QED BY <2>7, <2>9, <2>12, <3>1, <3>2, <3>4, <3>5 DEF PullOK, Fresh
  <2>13. ReadOK(r)
    BY <1>2, <2>7, <2>10, <2>11, <2>12 DEF ReadOK
  <2>. QED BY <1>2, <2>6, <2>8, <2>13, ReaderMoves
<1>12. CASE d = NoContent /\ rd.op = "pull"
  <2>. DEFINE r == [rd EXCEPT !.at = rd.back]
  <2>1. r \in Reading
    BY <1>1, SpotsAre DEF Reading
  <2>2. /\ r.at = rd.back /\ r.sha = rd.sha /\ r.op = rd.op /\ r.page = rd.page /\ r.life = rd.life
        /\ r.got = rd.got /\ r.back = rd.back /\ r.need = rd.need /\ r.todo = rd.todo /\ r.list = rd.list /\ r.from = rd.from
    BY <1>1 DEF Reading
  <2>3. rd' = r
    BY <1>3, <1>12
  <2>. HIDE DEF r
  <2>5. Course(r) /\ Found(r) /\ r.life <= born
    BY <1>1, <1>9, <1>12, <2>2 DEF Course, Found
  <2>7. PullOK(r)
    BY <1>2, <1>8, <1>9, <1>12, <2>2 DEF PullOK, Fresh, Taken
  <2>8. ReadOK(r)
    BY <1>12, <2>2, <2>5, <2>7 DEF ReadOK
  <2>. QED BY <1>2, <2>1, <2>3, <2>8, ReaderMoves
<1>13. CASE d = NoContent /\ rd.op # "pull"
  <2>1. rd' = Resting
    BY <1>3, <1>13
  <2>. QED BY <1>2, <2>1, Fails
<1>. QED BY <1>11, <1>12, <1>13

LEMMA AskStep == ASSUME ReadsInvariant, Ask PROVE ReadsInvariant'
<1>1. /\ StoreTypeOK /\ History /\ rd \in Reading
      /\ Len(log) \in Nat /\ born \in Sha /\ born \in Nat /\ 0 \in Sha /\ \A s \in 0 .. Len(log) : s \in Sha
      /\ \A p \in Pages : tip[p] \in Sha /\ tip[p] \in Nat
  BY Knows, StoreTypes DEF Sha
<1>2. Reader
  BY DEF Ask
<1>3. PICK op \in Ops, p \in Pages \cup {"none"}, f \in 0 .. Len(log), t \in 0 .. Len(log), l \in Sha, a \in Spots :
          /\ rd' = [Resting EXCEPT !.op = op, !.page = p, !.from = f, !.to = t, !.life = born, !.low = l, !.at = a]
          /\ op # "pull" => p \in Pages
          /\ op = "at" => t \in 1 .. Len(log)
          /\ op \in {"page", "evolution"} => l = tip[p]
          /\ a = CASE op = "page" -> "find" [] op = "at" -> "resolve" [] op = "pull" -> "list"
                   [] op = "diff" -> "to" [] op = "evolution" -> "log"
  <2>1. PICK op \in Ops : \E p \in IF op = "pull" THEN {"none"} ELSE Pages,
                          f \in IF op = "diff" THEN 0 .. Len(log) ELSE {0},
                          t \in CASE op = "diff" -> 0 .. Len(log) [] op = "at" -> 1 .. Len(log) [] OTHER -> {0} :
        rd' = [Resting EXCEPT !.op = op, !.page = p, !.from = f, !.to = t, !.life = born,
                    !.low = IF op \in {"page", "evolution"} THEN tip[p] ELSE 0,
                    !.at = CASE op = "page" -> "find" [] op = "at" -> "resolve" [] op = "pull" -> "list"
                             [] op = "diff" -> "to" [] op = "evolution" -> "log"]
    BY DEF Ask
  <2>. DEFINE l(p) == IF op \in {"page", "evolution"} THEN tip[p] ELSE 0
              a == CASE op = "page" -> "find" [] op = "at" -> "resolve" [] op = "pull" -> "list"
                     [] op = "diff" -> "to" [] op = "evolution" -> "log"
  <2>2. PICK p \in IF op = "pull" THEN {"none"} ELSE Pages,
             f \in IF op = "diff" THEN 0 .. Len(log) ELSE {0},
             t \in CASE op = "diff" -> 0 .. Len(log) [] op = "at" -> 1 .. Len(log) [] OTHER -> {0} :
          rd' = [Resting EXCEPT !.op = op, !.page = p, !.from = f, !.to = t, !.life = born, !.low = l(p), !.at = a]
    BY <2>1
  <2>3. op \in {"page", "at", "pull", "diff", "evolution"}
    BY ReadsAssumption
  <2>4. a \in Spots
    BY <2>3 DEF Spots
  <2>5. p \in Pages \cup {"none"} /\ (op # "pull" => p \in Pages)
    BY <2>2
  <2>6. l(p) \in Sha /\ (op \in {"page", "evolution"} => l(p) = tip[p])
    BY <1>1, <2>5
  <2>7. f \in 0 .. Len(log) /\ t \in 0 .. Len(log) /\ (op = "at" => t \in 1 .. Len(log))
    BY <1>1, <2>2, <2>3
  <2>. HIDE DEF l
  <2>. QED BY <2>2, <2>4, <2>5, <2>6, <2>7
<1>4. op \in {"page", "at", "pull", "diff", "evolution"}
  BY ReadsAssumption
<1>5. Resting \in Reading /\ Resting.got = << >> /\ Resting.back = "done" /\ Resting.need = {} /\ Resting.todo = {}
      /\ Resting.list = NoShas
  BY Rest DEF Resting
<1>. DEFINE r == [Resting EXCEPT !.op = op, !.page = p, !.from = f, !.to = t, !.life = born, !.low = l, !.at = a]
<1>6. r \in Reading
  BY <1>1, <1>4, <1>5 DEF Reading
<1>7. /\ r.op = op /\ r.page = p /\ r.from = f /\ r.to = t /\ r.life = born /\ r.low = l /\ r.at = a
      /\ r.got = << >> /\ r.back = "done" /\ r.need = {} /\ r.todo = {} /\ r.list = NoShas
  BY <1>5 DEF Reading
<1>8. rd' = r
  BY <1>3
<1>. HIDE DEF r
<1>9. a \notin {"blob", "done", "pathSHA", "left", "right", "blame", "entry"} /\ (op = "diff" => a = "to")
      /\ (op = "pull" => a = "list") /\ (op = "page" => a = "find")
  BY <1>3, <1>4
<1>10. Course(r)
  BY <1>3, <1>4, <1>7 DEF Course
<1>11. Found(r) /\ r.life <= born
  BY <1>1, <1>7, <1>9 DEF Found
<1>12. op = "page" => PageOK(r)
  BY <1>1, <1>3, <1>7, <1>9 DEF PageOK
<1>13. op = "at" => AtOK(r)
  BY <1>3, <1>7, <1>9 DEF AtOK
<1>14. op = "diff" => DiffOK(r)
  BY <1>3, <1>7, <1>9 DEF DiffOK
<1>15. op = "evolution" => EvolutionOK(r)
  BY <1>1, <1>3, <1>7, <1>9 DEF EvolutionOK
<1>16. op = "pull" => PullOK(r)
  BY <1>1, <1>7, <1>9 DEF PullOK, NoShas
<1>17. ReadOK(r)
  BY <1>7, <1>10, <1>11, <1>12, <1>13, <1>14, <1>15, <1>16 DEF ReadOK
<1>. QED BY <1>2, <1>6, <1>8, <1>17, ReaderMoves

LEMMA ResolveStep == ASSUME ReadsInvariant, Resolve PROVE ReadsInvariant'
<1>1. rd \in Reading /\ ReadOK(rd) /\ Course(rd) /\ rd.life <= born /\ rd.at = "resolve" /\ Reader /\ rd.op = "at"
  BY Knows DEF Resolve, Course
<1>2. AtOK(rd)
  BY <1>1 DEF ReadOK
<1>3. ASSUME NEW a \in {"head", "blobAt"}, rd' = [rd EXCEPT !.at = a]
      PROVE  ReadsInvariant'
  <2>. DEFINE r == [rd EXCEPT !.at = a]
  <2>1. r \in Reading
    BY <1>1, SpotsAre DEF Reading
  <2>2. r.at = a /\ r.op = "at" /\ r.page = rd.page /\ r.life = rd.life /\ r.to = rd.to
    BY <1>1 DEF Reading
  <2>3. rd' = r
    BY <1>3
  <2>. HIDE DEF r
  <2>4. ReadOK(r)
    BY <1>1, <1>2, <2>2 DEF ReadOK, AtOK, Course, Found
  <2>. QED BY <1>1, <2>1, <2>3, <2>4, ReaderMoves
<1>4. rd' = [rd EXCEPT !.at = "head"] \/ rd' = [rd EXCEPT !.at = "blobAt"] \/ rd' = Resting
  BY DEF Resolve, Go, Fail
<1>. QED BY <1>1, <1>3, <1>4, Fails

LEMMA BlobOfCommitStep == ASSUME ReadsInvariant, BlobOfCommit PROVE ReadsInvariant'
<1>1. /\ StoreTypeOK /\ History /\ rd \in Reading /\ ReadOK(rd) /\ Course(rd) /\ rd.life <= born
      /\ rd.at = "blobAt" /\ Reader /\ rd.op = "at" /\ rd.page \in Pages
  BY Knows DEF BlobOfCommit, Course
<1>2. AtOK(rd) /\ rd.to \in 1 .. Len(log) /\ Len(log) \in Nat /\ 0 \in Sha
  BY <1>1, StoreTypes DEF ReadOK, AtOK
<1>. DEFINE d == IF Resolves(rd.to) THEN BlobAt(rd.page, rd.to) ELSE NoContent
            g == <<<<rd.page, 0, d>>>>
            r == [rd EXCEPT !.at = "pathSHA", !.got = g]
<1>3. rd' = IF d = NoContent THEN Resting ELSE r
  BY DEF BlobOfCommit, Fail
<1>4. rd.to \in 0 .. Len(log)
  BY <1>2
<1>5. d \in Contents \cup {NoContent} /\ (d # NoContent => d = BlobAt(rd.page, rd.to) /\ LastTouch(rd.page, rd.to) # 0)
  BY <1>1, <1>4, BlobIs
<1>. HIDE DEF d
<1>6. <<rd.page, 0, d>> \in Pages \X Sha \X (Contents \cup {NoContent})
  BY <1>1, <1>2, <1>5
<1>7. g \in Answers /\ Len(g) = 1 /\ g[1] = <<rd.page, 0, d>>
  BY <1>6 DEF Answers
<1>. HIDE DEF g
<1>8. r \in Reading
  BY <1>1, <1>7, SpotsAre DEF Reading
<1>9. r.at = "pathSHA" /\ r.op = "at" /\ r.page = rd.page /\ r.life = rd.life /\ r.to = rd.to /\ r.got = g
  BY <1>1 DEF Reading
<1>. HIDE DEF r
<1>10. CASE d # NoContent
  <2>1. AtOK(r)
    BY <1>2, <1>5, <1>7, <1>9, <1>10 DEF AtOK
  <2>2. ReadOK(r)
    BY <1>1, <1>9, <2>1 DEF ReadOK, Course, Found
  <2>. QED BY <1>1, <1>3, <1>8, <1>10, <2>2, ReaderMoves
<1>. QED BY <1>1, <1>3, <1>10, Fails

LEMMA PathSHAStep == ASSUME ReadsInvariant, PathSHA PROVE ReadsInvariant'
<1>1. /\ StoreTypeOK /\ History /\ rd \in Reading /\ ReadOK(rd) /\ Course(rd) /\ rd.life <= born
      /\ rd.at = "pathSHA" /\ Reader /\ rd.op = "at" /\ rd.page \in Pages
  BY Knows DEF PathSHA, Course
<1>2. AtOK(rd) /\ rd.to \in 1 .. Len(log) /\ Len(log) \in Nat
  BY <1>1, StoreTypes DEF ReadOK, AtOK
<1>. DEFINE s == LastTouch(rd.page, rd.to)
<1>3. rd' = IF Resolves(rd.to) THEN [rd EXCEPT !.at = "done", !.got[1][2] = s] ELSE Resting
  BY DEF PathSHA, Fail
<1>4. rd.to \in 0 .. Len(log)
  BY <1>2
<1>5. s \in 0 .. Len(log)
  BY <1>2, LastTouchIs
<1>6. s \in Sha
  BY <1>1, <1>5, StoreTypes
<1>7. CASE Resolves(rd.to)
  <2>. DEFINE g == [rd.got EXCEPT ![1][2] = s]
              r == [rd EXCEPT !.at = "done", !.got = g]
  <2>1. Len(rd.got) = 1 /\ s # 0 /\ rd.got[1] = <<rd.page, 0, BlobAt(rd.page, rd.to)>>
    BY <1>1, <1>2, <1>7 DEF AtOK
  <2>2. BlobAt(rd.page, rd.to) \in Contents \cup {NoContent} /\ BlobAt(rd.page, rd.to) = log[s].content
        /\ s \in 1 .. Len(log) /\ log[s].page = rd.page
    BY <1>1, <1>4, <2>1, BlobIs
  <2>3. rd.got \in Answers /\ DOMAIN rd.got = 1 .. 1
    BY <1>1, <2>1, ReadingTypes
  <2>. HIDE DEF s
  <2>4. [rd.got[1] EXCEPT ![2] = s] = <<rd.page, s, BlobAt(rd.page, rd.to)>>
    BY <2>1
  <2>5. g = [rd.got EXCEPT ![1] = <<rd.page, s, BlobAt(rd.page, rd.to)>>]
    BY <2>4, <2>3
  <2>6. <<rd.page, s, BlobAt(rd.page, rd.to)>> \in Pages \X Sha \X (Contents \cup {NoContent})
    BY <1>1, <1>6, <2>2
  <2>7. g \in Answers /\ Len(g) = 1 /\ g[1] = <<rd.page, s, BlobAt(rd.page, rd.to)>>
    <3>. DEFINE T == Pages \X Sha \X (Contents \cup {NoContent})
                v == <<rd.page, s, BlobAt(rd.page, rd.to)>>
    <3>1. rd.got \in Seq(T) /\ v \in T
      BY <2>3, <2>6 DEF Answers
    <3>. HIDE DEF T, v
    <3>2. [rd.got EXCEPT ![1] = v] \in Seq(T) /\ Len([rd.got EXCEPT ![1] = v]) = 1 /\ [rd.got EXCEPT ![1] = v][1] = v
      BY <3>1, <2>1, <2>3
    <3>3. g = [rd.got EXCEPT ![1] = v]
      BY <2>5 DEF v
    <3>. QED BY <3>2, <3>3 DEF Answers, T, v
  <2>8. rd' = r
    BY <1>1, <1>3, <1>7 DEF Reading
  <2>. HIDE DEF g
  <2>9. r \in Reading
    BY <1>1, <2>7, SpotsAre DEF Reading
  <2>10. r.at = "done" /\ r.op = "at" /\ r.page = rd.page /\ r.life = rd.life /\ r.to = rd.to /\ r.got = g
    BY <1>1 DEF Reading
  <2>. HIDE DEF r
  <2>11. Paired(g[1]) /\ g[1][2] = s
    BY <2>2, <2>7 DEF Paired
  <2>12. s = LastTouch(r.page, r.to)
    BY <2>10 DEF s
  <2>13. AtOK(r)
    BY <1>2, <2>7, <2>10, <2>11, <2>12 DEF AtOK
  <2>14. ReadOK(r)
    BY <1>1, <2>10, <2>13 DEF ReadOK, Course, Found
  <2>. QED BY <1>1, <2>8, <2>9, <2>14, ReaderMoves
<1>. QED BY <1>1, <1>3, <1>7, Fails

LEMMA HeadInsteadStep == ASSUME ReadsInvariant, HeadInstead PROVE ReadsInvariant'
<1>1. /\ StoreTypeOK /\ History /\ rd \in Reading /\ ReadOK(rd) /\ Course(rd) /\ rd.life <= born
      /\ rd.at = "head" /\ Reader /\ rd.op = "at" /\ rd.page \in Pages
  BY Knows DEF HeadInstead, Course
<1>2. AtOK(rd) /\ rd.to \in 1 .. Len(log) /\ Len(log) \in Nat
  BY <1>1, StoreTypes DEF ReadOK, AtOK
<1>. DEFINE s == LastTouch(rd.page, Len(log))
            g == <<<<rd.page, s, log[s].content>>>>
            r == [rd EXCEPT !.at = "refused", !.got = g]
<1>3. rd' = IF s = 0 THEN Resting ELSE r
  BY DEF HeadInstead, Fail, EchoMissing
<1>4. s \in 0 .. Len(log)
  BY <1>2, LastTouchIs
<1>. HIDE DEF s
<1>5. CASE s # 0
  <2>1. s \in 1 .. Len(log) /\ s \in Sha /\ log[s].content \in Contents
    BY <1>1, <1>4, <1>5, <1>2, StoreTypes
  <2>2. <<rd.page, s, log[s].content>> \in Pages \X Sha \X (Contents \cup {NoContent})
    BY <1>1, <2>1
  <2>3. g \in Answers
    BY <2>2 DEF Answers
  <2>. HIDE DEF g
  <2>4. r \in Reading
    BY <1>1, <2>3, SpotsAre DEF Reading
  <2>5. r.at = "refused" /\ r.op = "at" /\ r.page = rd.page /\ r.life = rd.life /\ r.to = rd.to
    BY <1>1 DEF Reading
  <2>. HIDE DEF r
  <2>6. ReadOK(r)
    BY <1>1, <1>2, <2>5 DEF ReadOK, AtOK, Course, Found
  <2>. QED BY <1>1, <1>3, <1>5, <2>4, <2>6, ReaderMoves
<1>. QED BY <1>1, <1>3, <1>5, Fails

(* What a step of a diff needs, and what it must leave. *)
LEMMA Diffing ==
    ASSUME ReadsInvariant, rd.at \in {"to", "from", "left", "right", "blame"}
    PROVE  /\ StoreTypeOK /\ History /\ rd \in Reading /\ Course(rd) /\ rd.op = "diff" /\ rd.page \in Pages
           /\ DiffOK(rd) /\ rd.to \in 0 .. Len(log) /\ rd.from \in 0 .. Len(log) /\ Len(log) \in Nat
           /\ \A s \in 0 .. Len(log) : s \in Sha
           /\ rd.life <= born
BY Knows, StoreTypes DEF Course, ReadOK, DiffOK

LEMMA DiffMoves ==
    ASSUME ReadsInvariant, Reader, NEW r \in Reading, rd' = r, r.op = "diff", r.page \in Pages, r.life <= born,
           r.at \in {"from", "left", "right", "blame", "done"}, DiffOK(r)
    PROVE  ReadsInvariant'
<1>1. Course(r) /\ Found(r)
  BY DEF Course, Found
<1>2. ReadOK(r)
  BY <1>1 DEF ReadOK
<1>. QED BY <1>2, ReaderMoves

LEMMA DiffToStep == ASSUME ReadsInvariant, DiffTo PROVE ReadsInvariant'
<1>1. rd.at = "to" /\ Reader
  BY DEF DiffTo
<1>2. /\ StoreTypeOK /\ History /\ rd \in Reading /\ rd.op = "diff" /\ rd.page \in Pages /\ DiffOK(rd)
      /\ rd.to \in 0 .. Len(log) /\ rd.from \in 0 .. Len(log) /\ Len(log) \in Nat
      /\ (\A s \in 0 .. Len(log) : s \in Sha) /\ rd.life <= born
  BY <1>1, Diffing
<1>. DEFINE t == IF rd.to # 0 THEN rd.to ELSE LastTouch(rd.page, Len(log))
            r == [rd EXCEPT !.at = "from", !.to = t]
<1>3. rd' = IF t = 0 THEN Resting ELSE r
  BY DEF DiffTo, Fail
<1>4. t \in 0 .. Len(log)
  BY <1>2, LastTouchIs
<1>. HIDE DEF t
<1>5. r \in Reading
  BY <1>2, <1>4, SpotsAre DEF Reading
<1>6. r.at = "from" /\ r.op = "diff" /\ r.page = rd.page /\ r.life = rd.life /\ r.to = t /\ r.from = rd.from /\ r.got = rd.got
  BY <1>2 DEF Reading
<1>. HIDE DEF r
<1>7. t # 0 => DiffOK(r)
  BY <1>1, <1>2, <1>4, <1>6 DEF DiffOK
<1>. QED BY <1>1, <1>2, <1>3, <1>5, <1>6, <1>7, DiffMoves, Fails

LEMMA DiffFromStep == ASSUME ReadsInvariant, DiffFrom PROVE ReadsInvariant'
<1>1. rd.at = "from" /\ Reader
  BY DEF DiffFrom
<1>2. /\ StoreTypeOK /\ History /\ rd \in Reading /\ rd.op = "diff" /\ rd.page \in Pages /\ DiffOK(rd)
      /\ rd.to \in 0 .. Len(log) /\ rd.from \in 0 .. Len(log) /\ Len(log) \in Nat
      /\ (\A s \in 0 .. Len(log) : s \in Sha) /\ rd.life <= born
  BY <1>1, Diffing
<1>. DEFINE f == IF rd.from # 0 THEN rd.from ELSE IF Resolves(rd.to) THEN Parent(rd.page, rd.to) ELSE 0
            r == [rd EXCEPT !.at = "left", !.sha = f]
<1>3. rd' = IF f = 0 THEN Resting ELSE r
  BY DEF DiffFrom, Fail
<1>4. f \in 0 .. Len(log)
  <2>1. Parent(rd.page, rd.to) \in 0 .. rd.to
    BY <1>2, ParentIs
  <2>. QED BY <2>1, <1>2
<1>5. f # 0 /\ rd.from = 0 => f = Parent(rd.page, rd.to)
  OBVIOUS
<1>. HIDE DEF f
<1>6. r \in Reading
  BY <1>2, <1>4, SpotsAre DEF Reading
<1>7. r.at = "left" /\ r.op = "diff" /\ r.page = rd.page /\ r.life = rd.life /\ r.to = rd.to /\ r.from = rd.from
      /\ r.sha = f /\ r.got = rd.got
  BY <1>2 DEF Reading
<1>. HIDE DEF r
<1>8. CASE f # 0
  <2>1. rd.got = << >> /\ rd.to # 0
    BY <1>1, <1>2 DEF DiffOK
  <2>2. DiffOK(r)
    BY <1>2, <1>4, <1>5, <1>7, <1>8, <2>1 DEF DiffOK
  <2>. QED BY <1>1, <1>2, <1>3, <1>6, <1>7, <1>8, <2>2, DiffMoves
<1>. QED BY <1>1, <1>3, <1>8, Fails

LEMMA DiffLeftStep == ASSUME ReadsInvariant, DiffLeft PROVE ReadsInvariant'
<1>1. rd.at = "left" /\ Reader
  BY DEF DiffLeft
<1>2. /\ StoreTypeOK /\ History /\ rd \in Reading /\ rd.op = "diff" /\ rd.page \in Pages /\ DiffOK(rd)
      /\ rd.to \in 0 .. Len(log) /\ rd.from \in 0 .. Len(log) /\ Len(log) \in Nat
      /\ (\A s \in 0 .. Len(log) : s \in Sha) /\ rd.life <= born
  BY <1>1, Diffing
<1>3. rd.sha \in 1 .. Len(log) /\ rd.sha \in 0 .. Len(log) /\ rd.got = << >> /\ rd.to # 0
  BY <1>1, <1>2 DEF DiffOK
<1>. DEFINE d == BlobAt(rd.page, rd.sha)
            g == Append(rd.got, <<rd.page, rd.sha, d>>)
            r == [rd EXCEPT !.at = "right", !.got = g]
<1>4. rd' = IF Resolves(rd.sha) THEN r ELSE Resting
  BY DEF DiffLeft, Fail, Deliver
<1>5. d \in Contents \cup {NoContent}
  BY <1>2, <1>3, BlobIs
<1>6. <<rd.page, rd.sha, d>> \in Pages \X Sha \X (Contents \cup {NoContent})
  BY <1>2, <1>3, <1>5
<1>. HIDE DEF d
<1>7. g \in Answers /\ Len(g) = 1 /\ g[1] = <<rd.page, rd.sha, d>>
  BY <1>3, <1>6 DEF Answers
<1>. HIDE DEF g
<1>8. r \in Reading
  BY <1>2, <1>7, SpotsAre DEF Reading
<1>9. r.at = "right" /\ r.op = "diff" /\ r.page = rd.page /\ r.life = rd.life /\ r.to = rd.to /\ r.from = rd.from
      /\ r.sha = rd.sha /\ r.got = g
  BY <1>2 DEF Reading
<1>. HIDE DEF r
<1>10. g[1] = <<r.page, r.sha, BlobAt(r.page, r.sha)>>
  BY <1>7, <1>9 DEF d
<1>11. DiffOK(r)
  BY <1>1, <1>2, <1>3, <1>7, <1>9, <1>10 DEF DiffOK, Fresh
<1>. QED BY <1>1, <1>2, <1>4, <1>8, <1>9, <1>11, DiffMoves, Fails

LEMMA DiffRightStep == ASSUME ReadsInvariant, DiffRight PROVE ReadsInvariant'
<1>1. rd.at = "right" /\ Reader
  BY DEF DiffRight
<1>2. /\ StoreTypeOK /\ History /\ rd \in Reading /\ rd.op = "diff" /\ rd.page \in Pages /\ DiffOK(rd)
      /\ rd.to \in 0 .. Len(log) /\ rd.from \in 0 .. Len(log) /\ Len(log) \in Nat
      /\ (\A s \in 0 .. Len(log) : s \in Sha) /\ rd.life <= born
  BY <1>1, Diffing
<1>3. /\ rd.sha \in 1 .. Len(log) /\ Len(rd.got) = 1 /\ rd.to # 0
      /\ Fresh(rd) => rd.got[1] = <<rd.page, rd.sha, BlobAt(rd.page, rd.sha)>>
      /\ Fresh(rd) /\ rd.from = 0 => rd.sha = Parent(rd.page, rd.to)
  BY <1>1, <1>2 DEF DiffOK
<1>. DEFINE d == BlobAt(rd.page, rd.to)
            g == Append(rd.got, <<rd.page, rd.to, d>>)
            r == [rd EXCEPT !.at = "blame", !.got = g]
<1>4. rd' = IF Resolves(rd.to) /\ (d # NoContent \/ rd.got[1][3] # NoContent) THEN r ELSE Resting
  BY DEF DiffRight, Fail, Deliver
<1>5. d \in Contents \cup {NoContent}
  BY <1>2, BlobIs
<1>6. <<rd.page, rd.to, d>> \in Pages \X Sha \X (Contents \cup {NoContent})
  BY <1>2, <1>5
<1>. HIDE DEF d
<1>7. g \in Answers /\ Len(g) = 2 /\ g[1] = rd.got[1] /\ g[2] = <<rd.page, rd.to, d>>
  <2>1. rd.got \in Answers
    BY <1>2, ReadingTypes
  <2>. DEFINE T == Pages \X Sha \X (Contents \cup {NoContent})
              v == <<rd.page, rd.to, d>>
  <2>2. rd.got \in Seq(T) /\ v \in T
    BY <2>1, <1>6 DEF Answers
  <2>. HIDE DEF T, v
  <2>3. Append(rd.got, v) \in Seq(T) /\ Len(Append(rd.got, v)) = 2 /\ Append(rd.got, v)[1] = rd.got[1]
        /\ Append(rd.got, v)[2] = v
    <3>1. /\ Append(rd.got, v) \in Seq(T) /\ Len(Append(rd.got, v)) = Len(rd.got) + 1
          /\ \A i \in 1 .. Len(rd.got) : Append(rd.got, v)[i] = rd.got[i]
          /\ Append(rd.got, v)[Len(rd.got) + 1] = v
      BY <2>2
    <3>2. 1 \in 1 .. Len(rd.got) /\ Len(rd.got) + 1 = 2
      BY <1>3
    <3>. QED BY <3>1, <3>2
  <2>. QED BY <2>3 DEF Answers, T, v
<1>. HIDE DEF g
<1>8. r \in Reading
  BY <1>2, <1>7, SpotsAre DEF Reading
<1>9. r.at = "blame" /\ r.op = "diff" /\ r.page = rd.page /\ r.life = rd.life /\ r.to = rd.to /\ r.from = rd.from
      /\ r.sha = rd.sha /\ r.got = g
  BY <1>2 DEF Reading
<1>. HIDE DEF r
<1>10. g[2] = <<r.page, r.to, BlobAt(r.page, r.to)>>
  BY <1>7, <1>9 DEF d
<1>11. Fresh(r) <=> Fresh(rd)
  BY <1>9 DEF Fresh
<1>12. Fresh(r) => g[1] = <<r.page, r.sha, BlobAt(r.page, r.sha)>>
  BY <1>3, <1>7, <1>9, <1>11
<1>13. Fresh(r) /\ r.from = 0 => r.sha = Parent(r.page, r.to)
  BY <1>3, <1>9, <1>11
<1>14. DiffOK(r)
  BY <1>2, <1>3, <1>7, <1>9, <1>10, <1>12, <1>13 DEF DiffOK
<1>. QED BY <1>1, <1>2, <1>4, <1>8, <1>9, <1>14, DiffMoves, Fails

(* A small set is all newest; the newest of a set are closed upwards. *)
LEMMA NewestOfAll ==
    ASSUME NEW n \in Nat, NEW S, IsFiniteSet(S), S \subseteq Nat, Cardinality(S) <= n
    PROVE  NewestOf(S, n) = S
<1>1. ASSUME NEW c \in S PROVE Cardinality({e \in S : e > c}) < n
  <2>. DEFINE U == {e \in S : e > c}
  <2>1. U \subseteq S /\ c \notin U
    OBVIOUS
  <2>2. U # S
    BY <2>1
  <2>. HIDE DEF U
  <2>3. IsFiniteSet(U) /\ Cardinality(U) <= Cardinality(S) /\ (Cardinality(U) = Cardinality(S) => U = S)
    BY <2>1, FS_Subset
  <2>4. Cardinality(U) \in Nat /\ Cardinality(S) \in Nat
    BY <2>3, FS_CardinalityType
  <2>5. Cardinality(U) < n
    BY <2>2, <2>3, <2>4
  <2>. QED BY <2>5 DEF U
<1>. QED BY <1>1 DEF NewestOf

LEMMA NewestOfUp ==
    ASSUME NEW n \in Nat, NEW S, IsFiniteSet(S), S \subseteq Nat, NEW k \in NewestOf(S, n), NEW c \in S, k <= c
    PROVE  c \in NewestOf(S, n)
<1>. DEFINE U(x) == {e \in S : e > x}
<1>1. k \in S /\ Cardinality(U(k)) < n
  BY DEF NewestOf
<1>2. U(c) \subseteq U(k) /\ U(k) \subseteq S
  <2>1. k \in Nat /\ c \in Nat
    BY <1>1
  <2>2. ASSUME NEW e \in S, e > c PROVE e > k
    <3>1. e \in Nat
      OBVIOUS
    <3>. QED BY <2>1, <2>2, <3>1
  <2>. QED BY <2>2
<1>3. U(c) \in SUBSET S
  OBVIOUS
<1>. HIDE DEF U
<1>4. IsFiniteSet(U(k))
  BY <1>2, FS_Subset
<1>5. IsFiniteSet(U(c)) /\ Cardinality(U(c)) <= Cardinality(U(k))
  BY <1>2, <1>4, FS_Subset
<1>6. Cardinality(U(c)) \in Nat /\ Cardinality(U(k)) \in Nat
  BY <1>4, <1>5, FS_CardinalityType
<1>7. Cardinality(U(c)) < n
  BY <1>1, <1>5, <1>6
<1>. QED BY <1>7 DEF NewestOf, U

LEMMA TouchingFinite ==
    ASSUME NEW p, NEW s \in Nat
    PROVE  IsFiniteSet(Touching(p, s)) /\ Touching(p, s) \subseteq Nat
<1>1. Touching(p, s) \subseteq 1 .. s /\ IsFiniteSet(1 .. s)
  BY TouchingRange, FS_Interval
<1>. QED BY <1>1, FS_Subset

(* The introducer of a heading, among commits that have it. *)
LEMMA IntroducerIs ==
    ASSUME NEW n \in Nat, NEW cs, cs \subseteq 1 .. n, NEW h
    PROVE  /\ Introducer(cs, h) \in 0 .. n
           /\ (\E c \in cs : h \in Headings[log[c].content]) =>
                 /\ Introducer(cs, h) \in cs
                 /\ h \in Headings[log[Introducer(cs, h)].content]
                 /\ \A c \in cs : c < Introducer(cs, h) => h \notin Headings[log[c].content]
<1>. DEFINE with == {c \in cs : h \in Headings[log[c].content]}
<1>1. Introducer(cs, h) = IF with = {} THEN 0 ELSE FS!Min(with)
  BY DEF Introducer
<1>2. with \subseteq cs /\ with \subseteq Nat
  <2>1. \A c \in cs : c \in Nat
    OBVIOUS
  <2>. QED BY <2>1
<1>3. with # {} => FS!Min(with) \in with /\ \A c \in with : FS!Min(with) <= c
  BY <1>2, MinExists
<1>4. CASE with = {}
  BY <1>1, <1>4
<1>5. CASE with # {}
  <2>. DEFINE m == FS!Min(with)
  <2>1. m \in cs /\ h \in Headings[log[m].content] /\ m \in 1 .. n
    BY <1>3, <1>5
  <2>2. ASSUME NEW c \in cs, c < m PROVE h \notin Headings[log[c].content]
    <3>1. c \in with => m <= c
      BY <1>3, <1>5
    <3>2. ~(m <= c)
      <4>1. c \in 1 .. n
        OBVIOUS
      <4>. QED BY <2>1, <2>2, <4>1
    <3>. QED BY <3>1, <3>2
  <2>3. Introducer(cs, h) = m
    BY <1>1, <1>5
  <2>. HIDE DEF m, with
  <2>. QED BY <2>1, <2>2, <2>3
<1>. QED BY <1>4, <1>5

(* Headings of a version that the history has. *)
LEMMA HeadingsShown ==
    ASSUME StoreTypeOK, History, NEW p \in Pages, NEW s \in 0 .. Len(log), BlobAt(p, s) # NoContent,
           NEW h \in Headings[BlobAt(p, s)]
    PROVE  h \in Heads /\ \E c \in Touching(p, Len(log)) : h \in Headings[log[c].content]
<1>1. Len(log) \in Nat /\ s \in Nat
  BY StoreTypes
<1>2. /\ BlobAt(p, s) = log[LastTouch(p, s)].content /\ LastTouch(p, s) # 0
      /\ BlobAt(p, s) \in Contents
  BY BlobIs
<1>3. LastTouch(p, s) \in Touching(p, s)
  BY <1>1, <1>2, LastTouchIs
<1>4. LastTouch(p, s) \in Touching(p, Len(log))
  BY <1>1, <1>3, TouchingIs
<1>. QED BY <1>2, <1>4 DEF Heads

LEMMA DiffBlameStep == ASSUME ReadsInvariant, DiffBlame PROVE ReadsInvariant'
<1>1. rd.at = "blame" /\ Reader
  BY DEF DiffBlame
<1>2. /\ StoreTypeOK /\ History /\ rd \in Reading /\ rd.op = "diff" /\ rd.page \in Pages /\ DiffOK(rd)
      /\ rd.to \in 0 .. Len(log) /\ rd.from \in 0 .. Len(log) /\ Len(log) \in Nat
      /\ (\A s \in 0 .. Len(log) : s \in Sha) /\ rd.life <= born
  BY <1>1, Diffing
<1>3. /\ rd.sha \in 1 .. Len(log) /\ rd.sha \in 0 .. Len(log) /\ Len(rd.got) = 2 /\ rd.to # 0
      /\ Fresh(rd) => /\ rd.got[1] = <<rd.page, rd.sha, BlobAt(rd.page, rd.sha)>>
                      /\ rd.got[2] = <<rd.page, rd.to, BlobAt(rd.page, rd.to)>>
  BY <1>1, <1>2 DEF DiffOK
<1>. DEFINE T == Touching(rd.page, Len(log))
            cs == NewestOf(T, BlameCap)
            ds == {rd.got[1][3], rd.got[2][3]} \ {NoContent}
            hs == UNION {Headings[d] : d \in ds}
            td == {<<h, Introducer(cs, h)>> : h \in hs}
            r == [rd EXCEPT !.at = "done", !.todo = td]
<1>4. rd' = r
  BY DEF DiffBlame
<1>5. T \subseteq 1 .. Len(log) /\ IsFiniteSet(T) /\ T \subseteq Nat
  BY <1>2, TouchingRange, TouchingFinite
<1>6. ds \subseteq Contents
  <2>1. rd.got \in Answers /\ 1 \in DOMAIN rd.got /\ 2 \in DOMAIN rd.got
    BY <1>2, <1>3, ReadingTypes
  <2>2. rd.got[1] \in Pages \X Sha \X (Contents \cup {NoContent}) /\ rd.got[2] \in Pages \X Sha \X (Contents \cup {NoContent})
    BY <2>1 DEF Answers
  <2>. QED BY <2>2
<1>7. hs \subseteq Heads
  BY <1>6 DEF Heads
<1>8. cs \subseteq T
  BY DEF NewestOf
<1>9. \A h \in hs : <<h, Introducer(cs, h)>> \in Heads \X Sha
  <2>1. cs \subseteq 1 .. Len(log)
    BY <1>5, <1>8
  <2>. HIDE DEF cs
  <2>2. \A h : Introducer(cs, h) \in 0 .. Len(log)
    BY <1>2, <2>1, IntroducerIs
  <2>. QED BY <1>2, <1>7, <2>2
<1>10. Fresh(rd) => \A h \in hs : \E c \in T : h \in Headings[log[c].content]
  <2>1. ASSUME Fresh(rd), NEW h \in hs PROVE \E c \in T : h \in Headings[log[c].content]
    <3>1. PICK d \in ds : h \in Headings[d]
      OBVIOUS
    <3>2. d # NoContent /\ (d = BlobAt(rd.page, rd.sha) \/ d = BlobAt(rd.page, rd.to))
      BY <1>3, <2>1
    <3>. HIDE DEF hs, ds
    <3>. QED BY <1>2, <1>3, <3>1, <3>2, HeadingsShown
  <2>. QED BY <2>1
<1>. HIDE DEF hs, ds
<1>11. td \in SUBSET (Heads \X Sha)
  BY <1>9
<1>12. ASSUME Fresh(rd), Cardinality(T) <= BlameCap, NEW x \in td PROVE FirstWith(rd.page, x)
  <2>1. PICK h \in hs : x = <<h, Introducer(cs, h)>>
    OBVIOUS
  <2>2. cs = T
    BY <1>5, <1>12, NewestOfAll, ReadsAssumption
  <2>. DEFINE k == Introducer(T, h)
  <2>3. x = <<h, k>>
    BY <2>1, <2>2
  <2>4. k \in T /\ h \in Headings[log[k].content] /\ \A c \in T : c < k => h \notin Headings[log[c].content]
    <3>1. \E c \in T : h \in Headings[log[c].content]
      BY <1>10, <1>12
    <3>. HIDE DEF T, cs
    <3>2. /\ Introducer(T, h) \in T
          /\ h \in Headings[log[Introducer(T, h)].content]
          /\ \A c \in T : c < Introducer(T, h) => h \notin Headings[log[c].content]
      BY <3>1, <1>2, <1>5, IntroducerIs
    <3>. QED BY <3>2
  <2>. HIDE DEF k, cs
  <2>5. k \in 1 .. Len(log)
    BY <2>4, <1>5
  <2>6. \A c \in Touching(rd.page, k - 1) : c \in T /\ c < k
    BY <2>5, <1>2, TouchingIs
  <2>. HIDE DEF T
  <2>. QED BY <2>3, <2>4, <2>5, <2>6 DEF FirstWith
<1>. HIDE DEF td
<1>13. r \in Reading
  BY <1>2, <1>11, SpotsAre DEF Reading
<1>14. r.at = "done" /\ r.op = "diff" /\ r.page = rd.page /\ r.life = rd.life /\ r.to = rd.to /\ r.from = rd.from
      /\ r.sha = rd.sha /\ r.got = rd.got /\ r.todo = td
  BY <1>2 DEF Reading
<1>. HIDE DEF r
<1>15. Fresh(r) <=> Fresh(rd)
  BY <1>14 DEF Fresh
<1>16. Fresh(r) /\ r.from = 0 => r.sha = Parent(r.page, r.to)
  BY <1>1, <1>2, <1>14, <1>15 DEF DiffOK
<1>17. Fresh(r) /\ Cardinality(Touching(r.page, Len(log))) <= BlameCap => \A x \in r.todo : FirstWith(r.page, x)
  BY <1>12, <1>14, <1>15
<1>18. DiffOK(r)
  BY <1>2, <1>3, <1>14, <1>15, <1>16, <1>17 DEF DiffOK
<1>. QED BY <1>1, <1>2, <1>4, <1>13, <1>14, <1>18, DiffMoves

(* What a step of an evolution needs, and what it must leave. *)
LEMMA Evolving ==
    ASSUME ReadsInvariant, rd.at \in {"log", "entry"}
    PROVE  /\ StoreTypeOK /\ History /\ rd \in Reading /\ rd.op = "evolution" /\ rd.page \in Pages
           /\ EvolutionOK(rd) /\ Len(log) \in Nat /\ (\A s \in 0 .. Len(log) : s \in Sha) /\ rd.life <= born
BY Knows, StoreTypes DEF Course, ReadOK

LEMMA EvolutionMoves ==
    ASSUME ReadsInvariant, Reader, NEW r \in Reading, rd' = r, r.op = "evolution", r.page \in Pages, r.life <= born,
           r.at \in {"entry", "done"}, EvolutionOK(r)
    PROVE  ReadsInvariant'
<1>1. Course(r) /\ Found(r)
  BY DEF Course, Found
<1>2. ReadOK(r)
  BY <1>1 DEF ReadOK
<1>. QED BY <1>2, ReaderMoves

LEMMA LogPathStep == ASSUME ReadsInvariant, LogPath PROVE ReadsInvariant'
<1>1. rd.at = "log" /\ Reader
  BY DEF LogPath
<1>2. /\ StoreTypeOK /\ History /\ rd \in Reading /\ rd.op = "evolution" /\ rd.page \in Pages
      /\ EvolutionOK(rd) /\ Len(log) \in Nat /\ (\A s \in 0 .. Len(log) : s \in Sha) /\ rd.life <= born
  BY <1>1, Evolving
<1>. DEFINE T == Touching(rd.page, Len(log))
            cs == NewestOf(T, Limit)
            r == [rd EXCEPT !.at = "entry", !.need = cs]
<1>3. rd' = IF cs = {} THEN Resting ELSE r
  BY DEF LogPath, Fail
<1>4. cs \subseteq T /\ T \subseteq 1 .. Len(log) /\ IsFiniteSet(T) /\ T \subseteq Nat
  BY <1>2, TouchingRange, TouchingFinite DEF NewestOf
<1>5. cs \subseteq Sha /\ cs \subseteq 1 .. Len(log)
  BY <1>2, <1>4
<1>6. \A k \in cs, c \in T : k <= c => c \in cs
  BY <1>4, NewestOfUp, ReadsAssumption
<1>7. cs # {} => tip[rd.page] \in cs
  <2>. DEFINE t == tip[rd.page]
  <2>1. ASSUME cs # {} PROVE t \in T /\ \A e \in T : e <= t
    <3>1. T # {}
      BY <2>1, <1>4
    <3>. QED BY <3>1, <1>2 DEF History, IsLast
  <2>2. ASSUME cs # {} PROVE t \in cs
    <3>1. PICK k \in cs : TRUE
      BY <2>2
    <3>2. k \in T /\ t \in T /\ k <= t
      BY <1>4, <2>1, <2>2
    <3>. QED BY <1>6, <3>2
  <2>. QED BY <2>2
<1>. HIDE DEF cs
<1>8. r \in Reading
  BY <1>2, <1>5, SpotsAre DEF Reading
<1>9. r.at = "entry" /\ r.op = "evolution" /\ r.page = rd.page /\ r.life = rd.life /\ r.need = cs /\ r.todo = rd.todo
      /\ r.low = rd.low /\ rd.todo = {}
  BY <1>1, <1>2 DEF Reading, EvolutionOK
<1>. HIDE DEF r
<1>10. Walked(r) = cs
  BY <1>9 DEF Walked
<1>11. Fresh(r) => rd.low <= tip[rd.page]
  BY <1>2, <1>9 DEF EvolutionOK, Fresh
<1>12. ASSUME cs # {} PROVE EvolutionOK(r)
  <2>1. Fresh(r) => \E k \in cs : k >= rd.low
    <3>1. tip[rd.page] \in Nat /\ rd.low \in Nat
      BY <1>2, StoreTypes, ReadingTypes DEF Sha
    <3>. QED BY <1>7, <1>11, <1>12, <3>1
  <2>2. \A k, m \in cs, c \in T : k <= c /\ c <= m => c \in cs
    BY <1>6
  <2>. QED BY <1>4, <1>5, <1>9, <1>10, <1>11, <2>1, <2>2 DEF EvolutionOK
<1>. QED BY <1>1, <1>2, <1>3, <1>8, <1>9, <1>12, EvolutionMoves, Fails

LEMMA EntryStep == ASSUME ReadsInvariant, Entry PROVE ReadsInvariant'
<1>1. rd.at = "entry" /\ rd.need # {} /\ Reader
  BY DEF Entry
<1>2. /\ StoreTypeOK /\ History /\ rd \in Reading /\ rd.op = "evolution" /\ rd.page \in Pages
      /\ EvolutionOK(rd) /\ Len(log) \in Nat /\ (\A s \in 0 .. Len(log) : s \in Sha) /\ rd.life <= born
  BY <1>1, Evolving
<1>. DEFINE c == Newest(rd.need)
            e == <<Parent(rd.page, c), c>>
            r == [rd EXCEPT !.need = @ \ {c}, !.todo = @ \cup {e}]
<1>3. rd' = IF Resolves(c) THEN r ELSE Resting
  BY DEF Entry, Fail
<1>4. rd.need \subseteq 1 .. Len(log) /\ rd.todo \subseteq Sha \X Sha
  BY <1>1, <1>2 DEF EvolutionOK
<1>5. c \in rd.need /\ c \in 1 .. Len(log)
  BY <1>1, <1>2, <1>4, NewestIs
<1>. HIDE DEF c
<1>6. e \in Sha \X Sha
  <2>1. Parent(rd.page, c) \in 0 .. c
    BY <1>5, ParentIs
  <2>2. Parent(rd.page, c) \in 0 .. Len(log) /\ c \in 0 .. Len(log)
    BY <2>1, <1>2, <1>5
  <2>. QED BY <2>2, <1>2
<1>7. e[1] = Parent(rd.page, c) /\ e[2] = c
  OBVIOUS
<1>. HIDE DEF e
<1>8. r \in Reading
  BY <1>2, <1>6 DEF Reading
<1>9. r.at = "entry" /\ r.op = "evolution" /\ r.page = rd.page /\ r.life = rd.life /\ r.need = rd.need \ {c}
      /\ r.todo = rd.todo \cup {e} /\ r.low = rd.low
  BY <1>1, <1>2 DEF Reading
<1>. HIDE DEF r
<1>10. Walked(r) = Walked(rd)
  BY <1>5, <1>7, <1>9 DEF Walked
<1>11. Fresh(r) => Fresh(rd)
  BY <1>9 DEF Fresh
<1>12. Fresh(r) => \A x \in r.todo : x[1] = Parent(r.page, x[2])
  BY <1>1, <1>2, <1>7, <1>9, <1>11 DEF EvolutionOK
<1>13. EvolutionOK(r)
  BY <1>1, <1>2, <1>4, <1>6, <1>9, <1>10, <1>11, <1>12 DEF EvolutionOK
<1>. QED BY <1>1, <1>2, <1>3, <1>8, <1>9, <1>13, EvolutionMoves, Fails

LEMMA EntriesDoneStep == ASSUME ReadsInvariant, EntriesDone PROVE ReadsInvariant'
<1>1. rd.at = "entry" /\ rd.need = {} /\ Reader
  BY DEF EntriesDone
<1>2. /\ rd \in Reading /\ rd.op = "evolution" /\ rd.page \in Pages /\ EvolutionOK(rd) /\ rd.life <= born
  BY <1>1, Evolving
<1>. DEFINE r == [rd EXCEPT !.at = "done"]
<1>3. rd' = r
  BY DEF EntriesDone, Go
<1>4. r \in Reading
  BY <1>2, SpotsAre DEF Reading
<1>5. r.at = "done" /\ r.op = "evolution" /\ r.page = rd.page /\ r.life = rd.life /\ r.need = rd.need
      /\ r.todo = rd.todo /\ r.low = rd.low
  BY <1>2 DEF Reading
<1>. HIDE DEF r
<1>6. EvolutionOK(r)
  BY <1>1, <1>2, <1>5 DEF EvolutionOK, Walked, Fresh
<1>. QED BY <1>1, <1>2, <1>3, <1>4, <1>5, <1>6, EvolutionMoves

(* What a step of a pull needs, and what it must leave. *)
LEMMA Pulling ==
    ASSUME ReadsInvariant, rd.at \in {"list", "batchHead", "changed", "batch", "missing"}
    PROVE  /\ StoreTypeOK /\ History /\ rd \in Reading /\ rd.op = "pull"
           /\ PullOK(rd) /\ Len(log) \in Nat /\ (\A s \in 0 .. Len(log) : s \in Sha) /\ rd.life <= born
           /\ lastPull \in Sha /\ born \in Nat /\ tip \in [Pages -> Sha]
           /\ \A p \in Pages : LastTouch(p, Len(log)) = tip[p]
BY Knows, StoreTypes, TipIsLast DEF Course, ReadOK, ReadsInvariant, StoreTypeOK

LEMMA PullMoves ==
    ASSUME ReadsInvariant, Reader, NEW r \in Reading, rd' = r, r.op = "pull", r.life <= born,
           r.at \in {"list", "batchHead", "changed", "batch", "missing", "find", "done"}, PullOK(r)
    PROVE  ReadsInvariant'
<1>1. Course(r) /\ Found(r)
  BY DEF Course, Found
<1>2. ReadOK(r)
  BY <1>1 DEF ReadOK
<1>. QED BY <1>2, ReaderMoves

LEMMA ListStep == ASSUME ReadsInvariant, List PROVE ReadsInvariant'
<1>1. rd.at = "list" /\ Reader
  BY DEF List
<1>2. /\ StoreTypeOK /\ History /\ rd \in Reading /\ rd.op = "pull" /\ PullOK(rd) /\ Len(log) \in Nat
      /\ rd.life <= born /\ lastPull \in Sha /\ tip \in [Pages -> Sha]
  BY <1>1, Pulling
<1>3. PICK need \in SUBSET {p \in Pages : tip[p] \notin {0, have[p]}} :
        rd' = [rd EXCEPT !.at = "batchHead", !.list = tip, !.need = need, !.from = lastPull]
  BY DEF List
<1>4. need \subseteq Pages /\ \A p \in need : tip[p] # 0
  OBVIOUS
<1>. DEFINE r == [rd EXCEPT !.at = "batchHead", !.list = tip, !.need = need, !.from = lastPull]
<1>5. r \in Reading
  BY <1>2, <1>4, SpotsAre DEF Reading
<1>6. r.at = "batchHead" /\ r.op = "pull" /\ r.life = rd.life /\ r.need = need /\ r.list = tip /\ r.got = rd.got
      /\ r.todo = rd.todo
  BY <1>2 DEF Reading
<1>7. rd' = r
  BY <1>3
<1>. HIDE DEF r
<1>8. r.got = << >> /\ r.todo = {}
  BY <1>1, <1>2, <1>6 DEF PullOK
<1>9. \A p \in Pages : r.list[p] <= tip[p]
  <2>1. \A p \in Pages : tip[p] \in Nat
    BY <1>2, StoreTypes DEF Sha
  <2>. QED BY <2>1, <1>6
<1>10. PullOK(r)
  BY <1>4, <1>6, <1>8, <1>9 DEF PullOK
<1>. QED BY <1>1, <1>2, <1>5, <1>6, <1>7, <1>10, PullMoves

LEMMA BatchHeadStep == ASSUME ReadsInvariant, BatchHead PROVE ReadsInvariant'
<1>1. rd.at = "batchHead" /\ Reader
  BY DEF BatchHead
<1>2. /\ StoreTypeOK /\ History /\ rd \in Reading /\ rd.op = "pull" /\ PullOK(rd) /\ Len(log) \in Nat
      /\ (\A s \in 0 .. Len(log) : s \in Sha) /\ rd.life <= born /\ born \in Nat
      /\ \A p \in Pages : LastTouch(p, Len(log)) = tip[p]
  BY <1>1, Pulling
<1>. DEFINE a == IF HeadSHA = 0 THEN "batch" ELSE "changed"
            h == IF rd.head = 0 THEN HeadSHA ELSE rd.head
            r == [rd EXCEPT !.at = a, !.sha = HeadSHA, !.head = h]
<1>3. rd' = r
  BY DEF BatchHead
<1>4. HeadSHA \in Sha /\ h \in Sha /\ a \in Spots
  BY <1>2 DEF HeadSHA, Reading, Spots
<1>5. a \in {"batch", "changed"} /\ (a = "batch" => Len(log) <= born)
  BY <1>2 DEF HeadSHA
<1>. HIDE DEF a, h
<1>6. r \in Reading
  BY <1>2, <1>4 DEF Reading
<1>7. r.at = a /\ r.op = "pull" /\ r.life = rd.life /\ r.need = rd.need /\ r.list = rd.list /\ r.got = rd.got
      /\ r.todo = rd.todo /\ r.from = rd.from
  BY <1>2 DEF Reading
<1>. HIDE DEF r
<1>8. a = "batch" /\ Fresh(rd) => rd.need = {}
  <2>1. ASSUME a = "batch", NEW p \in Pages PROVE tip[p] = 0
    <3>1. Touching(p, Len(log)) = {}
      BY <1>2, <1>5, <2>1 DEF Touching
    <3>. QED BY <3>1, <1>2, LastTouchIs
  <2>. QED BY <2>1, <1>2 DEF PullOK
<1>9. PullOK(r)
  BY <1>1, <1>2, <1>5, <1>7, <1>8 DEF PullOK, Fresh, Taken
<1>. QED BY <1>1, <1>2, <1>3, <1>5, <1>6, <1>7, <1>9, PullMoves

LEMMA ChangedStep == ASSUME ReadsInvariant, Changed PROVE ReadsInvariant'
<1>1. rd.at = "changed" /\ Reader
  BY DEF Changed
<1>2. /\ StoreTypeOK /\ History /\ rd \in Reading /\ rd.op = "pull" /\ PullOK(rd) /\ Len(log) \in Nat
      /\ rd.life <= born /\ rd.todo = {} /\ rd.need \subseteq Pages /\ 0 \in Sha
      /\ \A p \in Pages : LastTouch(p, Len(log)) = tip[p]
  BY <1>1, Pulling, StoreTypes DEF PullOK
<1>3. ASSUME NEW td \in SUBSET rd.need, rd' = [rd EXCEPT !.at = "batch", !.todo = td],
             rd.from = 0 /\ Fresh(rd) => rd.need \subseteq td
      PROVE  ReadsInvariant'
  <2>. DEFINE r == [rd EXCEPT !.at = "batch", !.todo = td]
  <2>1. td \subseteq Pages
    BY <1>2
  <2>2. r \in Reading
    BY <1>2, <2>1, SpotsAre DEF Reading
  <2>3. r.at = "batch" /\ r.op = "pull" /\ r.life = rd.life /\ r.need = rd.need /\ r.list = rd.list /\ r.got = rd.got
        /\ r.todo = td /\ r.from = rd.from
    BY <1>2 DEF Reading
  <2>4. rd' = r
    BY <1>3
  <2>. HIDE DEF r
  <2>5. PullOK(r)
    BY <1>2, <1>3, <2>3 DEF PullOK, Fresh, Taken
  <2>. QED BY <1>1, <1>2, <2>2, <2>3, <2>4, <2>5, PullMoves
<1>4. ASSUME rd' = [rd EXCEPT !.at = "batchHead", !.from = 0, !.head = 0]
      PROVE  ReadsInvariant'
  <2>. DEFINE r == [rd EXCEPT !.at = "batchHead", !.from = 0, !.head = 0]
  <2>2. r \in Reading
    BY <1>2, SpotsAre DEF Reading
  <2>3. r.at = "batchHead" /\ r.op = "pull" /\ r.life = rd.life /\ r.need = rd.need /\ r.list = rd.list /\ r.got = rd.got
        /\ r.todo = rd.todo
    BY <1>2 DEF Reading
  <2>4. rd' = r
    BY <1>4
  <2>. HIDE DEF r
  <2>5. PullOK(r)
    BY <1>2, <2>3 DEF PullOK, Fresh
  <2>. QED BY <1>1, <1>2, <2>2, <2>3, <2>4, <2>5, PullMoves
<1>5. CASE rd.from = 0
  <2>. DEFINE td == {p \in rd.need : LastTouch(p, Len(log)) # 0}
  <2>1. rd' = IF HeadSHA = 0 THEN Resting ELSE [rd EXCEPT !.at = "batch", !.todo = td]
    BY <1>5 DEF Changed
  <2>2. td \in SUBSET rd.need
    OBVIOUS
  <2>3. Fresh(rd) => rd.need \subseteq td
    BY <1>2 DEF PullOK
  <2>. HIDE DEF td
  <2>. QED BY <1>1, <1>3, <2>1, <2>2, <2>3, Fails
<1>6. CASE rd.from # 0 /\ rd.from = rd.sha
  <2>1. rd' = [rd EXCEPT !.at = "batch"]
    BY <1>6 DEF Changed
  <2>2. rd' = [rd EXCEPT !.at = "batch", !.todo = {}]
    BY <1>2, <2>1 DEF Reading
  <2>3. {} \in SUBSET rd.need
    OBVIOUS
  <2>4. ~(rd.from = 0)
    BY <1>6
  <2>. QED BY <1>3, <2>2, <2>3, <2>4
<1>7. CASE rd.from # 0 /\ rd.from # rd.sha
  <2>. DEFINE td == ChangedBetween(rd.from, rd.sha) \cap rd.need
  <2>1. \/ rd' = [rd EXCEPT !.at = "batch", !.todo = td]
        \/ rd' = [rd EXCEPT !.at = "batchHead", !.from = 0, !.head = 0]
    BY <1>7 DEF Changed
  <2>2. td \in SUBSET rd.need
    OBVIOUS
  <2>. HIDE DEF td
  <2>. QED BY <1>3, <1>4, <1>7, <2>1, <2>2
<1>. QED BY <1>5, <1>6, <1>7

LEMMA ReadNextStep == ASSUME ReadsInvariant, ReadNext PROVE ReadsInvariant'
<1>1. rd.at \in {"batch", "missing"} /\ Reader
  BY DEF ReadNext
<1>2. /\ rd \in Reading /\ rd.op = "pull" /\ PullOK(rd) /\ rd.life <= born
      /\ rd.need \subseteq Pages /\ rd.todo \subseteq rd.need
  BY <1>1, Pulling DEF PullOK
<1>3. PICK p \in rd.todo : rd' = [rd EXCEPT !.at = "find", !.page = p, !.todo = @ \ {p}, !.back = rd.at]
  BY DEF ReadNext
<1>. DEFINE r == [rd EXCEPT !.at = "find", !.page = p, !.todo = rd.todo \ {p}, !.back = rd.at]
<1>4. r \in Reading
  <2>1. p \in Pages \cup {"none"} /\ rd.at \in {"done", "batch", "missing"}
    BY <1>1, <1>2
  <2>2. rd.todo \ {p} \in SUBSET (Pages \cup (Heads \X Sha) \cup (Sha \X Sha))
    BY <1>2
  <2>3. "find" \in Spots
    BY DEF Spots
  <2>. QED BY <1>2, <2>1, <2>2, <2>3 DEF Reading
<1>5. r.at = "find" /\ r.op = "pull" /\ r.life = rd.life /\ r.need = rd.need /\ r.list = rd.list /\ r.got = rd.got
      /\ r.todo = rd.todo \ {p} /\ r.from = rd.from /\ r.page = p /\ r.back = rd.at
  BY <1>2 DEF Reading
<1>6. rd' = r
  BY <1>2, <1>3 DEF Reading
<1>. HIDE DEF r
<1>7. Fresh(r) /\ (r.back = "missing" \/ r.from = 0) => r.need \subseteq Taken(r) \cup r.todo \cup {r.page}
  <2>1. Fresh(r) => Fresh(rd)
    BY <1>5 DEF Fresh
  <2>2. Fresh(rd) /\ (rd.at = "missing" \/ rd.from = 0) => rd.need \subseteq Taken(rd) \cup rd.todo
    BY <1>1, <1>2 DEF PullOK
  <2>3. Taken(r) = Taken(rd)
    BY <1>5 DEF Taken
  <2>. QED BY <2>1, <2>2, <2>3, <1>5
<1>8. PullOK(r)
  BY <1>1, <1>2, <1>5, <1>7 DEF PullOK, Fresh
<1>. QED BY <1>1, <1>2, <1>4, <1>5, <1>6, <1>8, PullMoves

LEMMA TakeStep == ASSUME ReadsInvariant, Take PROVE ReadsInvariant'
<1>1. rd.at = "batch" /\ rd.todo = {} /\ Reader
  BY DEF Take
<1>2. /\ rd \in Reading /\ rd.op = "pull" /\ PullOK(rd) /\ rd.life <= born
      /\ rd.need \subseteq Pages /\ rd.todo \subseteq rd.need /\ 0 \in Sha
  BY <1>1, Pulling, StoreTypes DEF PullOK
<1>3. Missing = rd.need \ Taken(rd)
  BY DEF Missing, Taken
<1>4. \/ (Missing = {} \/ rd.from = 0) /\ rd' = [rd EXCEPT !.at = "done"]
      \/ rd' = [rd EXCEPT !.at = "batchHead", !.from = 0, !.need = Missing]
      \/ rd' = [rd EXCEPT !.at = "missing", !.todo = Missing]
  BY DEF Take, BatchWasFull
<1>5. CASE (Missing = {} \/ rd.from = 0) /\ rd' = [rd EXCEPT !.at = "done"]
  <2>. DEFINE r == [rd EXCEPT !.at = "done"]
  <2>1. r \in Reading
    BY <1>2, SpotsAre DEF Reading
  <2>2. r.at = "done" /\ r.op = "pull" /\ r.life = rd.life /\ r.need = rd.need /\ r.list = rd.list /\ r.got = rd.got
        /\ r.todo = rd.todo
    BY <1>2 DEF Reading
  <2>3. rd' = r
    BY <1>5
  <2>. HIDE DEF r
  <2>4. Fresh(rd) => rd.need \subseteq Taken(rd)
    BY <1>1, <1>2, <1>3, <1>5 DEF PullOK
  <2>5. PullOK(r)
    BY <1>2, <2>2, <2>4 DEF PullOK, Fresh, Taken
  <2>. QED BY <1>1, <1>2, <2>1, <2>2, <2>3, <2>5, PullMoves
<1>6. CASE rd' = [rd EXCEPT !.at = "batchHead", !.from = 0, !.need = Missing]
  <2>. DEFINE r == [rd EXCEPT !.at = "batchHead", !.from = 0, !.need = Missing]
  <2>1. Missing \subseteq Pages
    BY <1>2, <1>3
  <2>2. r \in Reading
    <3>1. "batchHead" \in Spots
      BY DEF Spots
    <3>2. Missing \in SUBSET (Pages \cup Sha)
      BY <2>1
    <3>. QED BY <1>2, <3>1, <3>2 DEF Reading
  <2>3. r.at = "batchHead" /\ r.op = "pull" /\ r.life = rd.life /\ r.need = Missing /\ r.list = rd.list /\ r.got = rd.got
        /\ r.todo = rd.todo
    BY <1>2 DEF Reading
  <2>4. rd' = r
    BY <1>6
  <2>. HIDE DEF r
  <2>5. PullOK(r)
    BY <1>1, <1>2, <1>3, <2>1, <2>3 DEF PullOK, Fresh
  <2>. QED BY <1>1, <1>2, <2>2, <2>3, <2>4, <2>5, PullMoves
<1>7. CASE rd' = [rd EXCEPT !.at = "missing", !.todo = Missing]
  <2>. DEFINE r == [rd EXCEPT !.at = "missing", !.todo = Missing]
  <2>1. Missing \subseteq Pages
    BY <1>2, <1>3
  <2>2. r \in Reading
    BY <1>2, <2>1, SpotsAre DEF Reading
  <2>3. r.at = "missing" /\ r.op = "pull" /\ r.life = rd.life /\ r.need = rd.need /\ r.list = rd.list /\ r.got = rd.got
        /\ r.todo = Missing
    BY <1>2 DEF Reading
  <2>4. rd' = r
    BY <1>7
  <2>. HIDE DEF r
  <2>5. r.todo \subseteq r.need /\ r.need \subseteq Taken(r) \cup r.todo
    BY <1>3, <2>3 DEF Taken
  <2>6. PullOK(r)
    BY <1>2, <2>3, <2>5 DEF PullOK, Fresh
  <2>. QED BY <1>1, <1>2, <2>2, <2>3, <2>4, <2>6, PullMoves
<1>. QED BY <1>4, <1>5, <1>6, <1>7

LEMMA MissingReadStep == ASSUME ReadsInvariant, MissingRead PROVE ReadsInvariant'
<1>1. rd.at = "missing" /\ rd.todo = {} /\ Reader
  BY DEF MissingRead
<1>2. rd \in Reading /\ rd.op = "pull" /\ PullOK(rd) /\ rd.life <= born
  BY <1>1, Pulling
<1>. DEFINE r == [rd EXCEPT !.at = "done"]
<1>3. r \in Reading
  BY <1>2, SpotsAre DEF Reading
<1>4. r.at = "done" /\ r.op = "pull" /\ r.life = rd.life /\ r.need = rd.need /\ r.list = rd.list /\ r.got = rd.got
      /\ r.todo = rd.todo
  BY <1>2 DEF Reading
<1>5. rd' = r
  BY DEF MissingRead, Go
<1>. HIDE DEF r
<1>6. PullOK(r)
  BY <1>1, <1>2, <1>4 DEF PullOK, Fresh, Taken
<1>. QED BY <1>1, <1>2, <1>3, <1>4, <1>5, <1>6, PullMoves

LEMMA PulledStep == ASSUME ReadsInvariant, Pulled PROVE ReadsInvariant'
<1>1. /\ StoreTypeOK /\ History /\ rd \in Reading /\ have \in [Pages -> Sha]
  BY Knows DEF ReadsInvariant
<1>. DEFINE S(p) == {i \in DOMAIN rd.got : rd.got[i][1] = p}
<1>2. have' = [p \in Pages |-> IF S(p) = {} THEN have[p] ELSE rd.got[Newest(S(p))][2]] /\ lastPull' = rd.head
      /\ rd' = Resting /\ UNCHANGED storeVars
  BY DEF Pulled
<1>3. ASSUME NEW p \in Pages PROVE (IF S(p) = {} THEN have[p] ELSE rd.got[Newest(S(p))][2]) \in Sha
  <2>1. have[p] \in Sha
    BY <1>1
  <2>2. DOMAIN rd.got = 1 .. Len(rd.got) /\ Len(rd.got) \in Nat /\ \A i \in DOMAIN rd.got : rd.got[i][2] \in Sha
    BY <1>1, ReadingTypes
  <2>3. S(p) \subseteq 1 .. Len(rd.got)
    BY <2>2
  <2>4. S(p) # {} => Newest(S(p)) \in S(p)
    BY <2>2, <2>3, NewestIs
  <2>5. S(p) # {} => rd.got[Newest(S(p))][2] \in Sha
    BY <2>2, <2>4
  <2>. QED BY <2>1, <2>5
<1>. HIDE DEF S
<1>4. have' \in [Pages -> Sha]
  BY <1>2, <1>3
<1>5. lastPull' \in Sha
  BY <1>1, <1>2 DEF Reading
<1>6. PICK r \in Reading : r = Resting /\ ReadOK(r)
  BY Rest
<1>. QED BY <1>2, <1>4, <1>5, <1>6, ReaderStep

-----------------------------------------------------------------------------
(* The invariant is inductive.                                             *)

LEMMA ReadsInitially == ASSUME ReadsInit PROVE ReadsInvariant
<1>1. log = << >> /\ tip = [p \in Pages |-> 0] /\ born = 0 /\ have = NoShas /\ lastPull = 0 /\ rd = Resting
  BY DEF ReadsInit, StoreInit
<1>2. 0 \in Sha /\ MaxCommits \in Nat
  BY MaxCommitsAssumption DEF Sha
<1>3. StoreTypeOK /\ Len(log) = 0
  BY <1>1, <1>2 DEF StoreTypeOK
<1>4. \A p \in Pages : Touching(p, Len(log)) = {}
  BY <1>3 DEF Touching
<1>5. History
  BY <1>1, <1>3, <1>4 DEF History, Successive
<1>6. << >> \in Answers /\ NoShas \in [Pages -> Sha] /\ "idle" \in Spots
  BY <1>2 DEF Answers, NoShas, Spots
<1>7. Resting \in Reading
  BY <1>2, <1>6 DEF Resting, Reading
<1>8. Resting.at = "idle" /\ Resting.op = "none" /\ Resting.life = 0
  BY DEF Resting
<1>. HIDE DEF Resting
<1>9. ReadOK(Resting)
  BY <1>1, <1>8 DEF ReadOK, Course, Found
<1>10. have \in [Pages -> Sha] /\ lastPull \in Sha
  BY <1>1, <1>2, <1>6
<1>. QED BY <1>1, <1>3, <1>5, <1>7, <1>9, <1>10 DEF ReadsInvariant

LEMMA ReadsSteps == ASSUME ReadsInvariant, [ReadsNext]_readVars PROVE ReadsInvariant'
<1>1. CASE Ask
  BY <1>1, AskStep
<1>2. CASE Answered \/ Refuse
  BY <1>2, Fails DEF Answered, Refuse, Fail
<1>3. CASE Find \/ Blob
  BY <1>3, FindStep, BlobStep
<1>4. CASE Resolve \/ BlobOfCommit \/ PathSHA \/ HeadInstead
  BY <1>4, ResolveStep, BlobOfCommitStep, PathSHAStep, HeadInsteadStep
<1>5. CASE DiffTo \/ DiffFrom \/ DiffLeft \/ DiffRight \/ DiffBlame
  BY <1>5, DiffToStep, DiffFromStep, DiffLeftStep, DiffRightStep, DiffBlameStep
<1>6. CASE LogPath \/ Entry \/ EntriesDone
  BY <1>6, LogPathStep, EntryStep, EntriesDoneStep
<1>7. CASE List \/ BatchHead \/ Changed \/ ReadNext
  BY <1>7, ListStep, BatchHeadStep, ChangedStep, ReadNextStep
<1>8. CASE Take \/ MissingRead \/ Pulled
  BY <1>8, TakeStep, MissingReadStep, PulledStep
<1>9. CASE Writes
  <2>1. PICK w \in Peers, p \in Pages, d \in Contents : StorePeerWrite(w, p, d)
    BY <1>9 DEF Writes
  <2>2. UNCHANGED <<have, lastPull, rd>>
    BY <1>9 DEF Writes
  <2>. QED BY <2>1, <2>2, Knows, WriteGrows, Around
<1>10. CASE Recreate
  BY <1>10, Knows, WipeGrows, Around DEF Recreate
<1>11. CASE UNCHANGED readVars
  <2>1. UNCHANGED storeVars /\ UNCHANGED <<have, lastPull, rd>>
    BY <1>11 DEF readVars
  <2>. QED BY <2>1, Knows, StayGrows, Around
<1>. QED BY <1>1, <1>2, <1>3, <1>4, <1>5, <1>6, <1>7, <1>8, <1>9, <1>10, <1>11 DEF ReadsNext

LEMMA ReadsHold == ReadsSpec => []ReadsInvariant
<1>1. ReadsInit => ReadsInvariant
  BY ReadsInitially
<1>2. ReadsInvariant /\ [ReadsNext]_readVars => ReadsInvariant'
  BY ReadsSteps
<1>. QED BY <1>1, <1>2, PTL DEF ReadsSpec

-----------------------------------------------------------------------------
(* What follows from it.                                                   *)

LEMMA AnswersFollow == ASSUME ReadsInvariant PROVE AnswersSound
<1>1. /\ StoreTypeOK /\ History /\ rd \in Reading /\ ReadOK(rd) /\ Course(rd) /\ Found(rd) /\ rd.at \in Spots
      /\ have \in [Pages -> Sha] /\ lastPull \in Sha
  BY Knows DEF ReadsInvariant
<1>2. DOMAIN rd.got = 1 .. Len(rd.got) /\ rd.got \in Answers
  BY <1>1, ReadingTypes
<1>3. ReadsTypeOK
  <2>1. DOMAIN rd = DOMAIN Resting
    BY <1>1 DEF Reading, Resting
  <2>2. rd.got \in Seq(Pages \X Sha \X (Contents \cup {NoContent}))
    BY <1>2 DEF Answers
  <2>3. rd.at = "blob" => log[rd.sha].page = rd.page
    BY <1>1 DEF Found
  <2>4. rd.at \in {"idle", "find", "blob", "resolve", "blobAt", "pathSHA", "head", "refused", "to", "from", "left",
                   "right", "blame", "log", "entry", "list", "batchHead", "changed",
                   "batch", "missing", "done"}
    BY <1>1 DEF Spots
  <2>. QED BY <1>1, <2>1, <2>2, <2>3, <2>4 DEF ReadsTypeOK
<1>4. ASSUME rd.at = "done", rd.op \in {"page", "at", "pull"}, NEW i \in DOMAIN rd.got
      PROVE  Paired(rd.got[i])
  <2>1. CASE rd.op = "page"
    BY <2>1, <1>1 DEF ReadOK, PageOK
  <2>2. CASE rd.op = "at"
    <3>1. Len(rd.got) = 1 /\ Paired(rd.got[1])
      BY <2>2, <1>1, <1>4 DEF ReadOK, AtOK
    <3>2. i = 1
      BY <3>1, <1>2
    <3>. QED BY <3>1, <3>2
  <2>3. CASE rd.op = "pull"
    BY <2>3, <1>1 DEF ReadOK, PullOK
  <2>. QED BY <1>4, <2>1, <2>2, <2>3
<1>5. AnswersPaired
  <2>1. \A v : Paired(v) => v[2] # 0 /\ log[v[2]].page = v[1] /\ log[v[2]].content = v[3]
    BY DEF Paired
  <2>. QED BY <1>4, <2>1 DEF AnswersPaired
<1>6. AnswersFresh
  BY <1>1 DEF AnswersFresh, Done, ReadOK, PageOK, Fresh
<1>. QED BY <1>3, <1>5, <1>6 DEF AnswersSound

LEMMA NeverHeadFollows == ASSUME ReadsInvariant PROVE NeverHeadForHistory
BY Knows DEF NeverHeadForHistory, Done, ReadOK, AtOK, Fresh

LEMMA DiffFollows == ASSUME ReadsInvariant PROVE DiffIsOneStep
<1>. SUFFICES ASSUME Done("diff") PROVE DiffIsOneStep
  BY DEF DiffIsOneStep
<1>1. /\ StoreTypeOK /\ History /\ rd \in Reading /\ DiffOK(rd) /\ rd.at = "done" /\ Fresh(rd)
      /\ Len(log) \in Nat /\ born \in Nat
  BY Knows, StoreTypes DEF Done, ReadOK, Fresh
<1>2. /\ rd.got[1] = <<rd.page, rd.sha, BlobAt(rd.page, rd.sha)>> /\ rd.got[2] = <<rd.page, rd.to, BlobAt(rd.page, rd.to)>>
      /\ rd.sha \in 1 .. Len(log) /\ rd.to \in 0 .. Len(log)
      /\ rd.from = 0 => rd.sha = Parent(rd.page, rd.to)
  BY <1>1 DEF DiffOK
<1>. DEFINE p == rd.page
            cur == LastTouch(p, rd.to)
            b == rd.sha
<1>3. ASSUME rd.from = 0
      PROVE  b \in Touching(p, cur - 1) /\ (\A c \in Touching(p, cur - 1) : c <= b) /\ rd.got[1][3] # rd.got[2][3]
  <2>1. rd.to \in Nat /\ b = Parent(p, rd.to) /\ b # 0
    BY <1>1, <1>2, <1>3
  <2>2. b \in Touching(p, rd.to) \ {cur} /\ \A c \in Touching(p, rd.to) \ {cur} : c <= b
    BY <2>1, ParentIs
  <2>3. cur \in Touching(p, rd.to) /\ \A c \in Touching(p, rd.to) : c <= cur
    BY <2>1, <2>2, LastTouchIs
  <2>. HIDE DEF cur, b, p
  <2>4. /\ cur \in 1 .. rd.to /\ cur > born /\ log[cur].page = p
        /\ b \in 1 .. rd.to /\ b > born /\ log[b].page = p /\ b < cur
    BY <2>2, <2>3, TouchingIs
  <2>5. \A c : c \in Touching(p, cur - 1) => c \in Touching(p, rd.to) \ {cur}
    BY <2>1, <2>4, TouchingIs
  <2>6. b \in Touching(p, cur - 1)
    BY <2>4, <2>1, TouchingIs
  <2>7. cur \in 1 .. Len(log) /\ b \in 1 .. Len(log)
    BY <2>4, <2>1, <1>1, <1>2
  <2>8. Successive(b, cur)
    <3>1. ASSUME NEW e \in 1 .. Len(log), b < e, e < cur, log[e].page = p PROVE FALSE
      <4>1. e \in Touching(p, rd.to) /\ e # cur
        BY <3>1, <2>1, <2>4, <1>1, TouchingIs
      <4>2. e <= b
        BY <4>1, <2>2
      <4>. QED BY <4>2, <3>1, <2>7
    <3>. QED BY <3>1, <2>4 DEF Successive
  <2>9. log[b].content # log[cur].content
    BY <2>7, <2>8, <1>1 DEF History
  <2>10. BlobAt(p, b) = log[b].content
    <3>1. LastTouch(p, b) = b
      BY <2>4, <2>7, OwnTouch
    <3>. QED BY <3>1, <2>7 DEF BlobAt
  <2>11. BlobAt(p, rd.to) = log[cur].content
    BY <2>4 DEF BlobAt, cur
  <2>12. rd.got[1][3] = BlobAt(p, b) /\ rd.got[2][3] = BlobAt(p, rd.to)
    BY <1>2 DEF p, b
  <2>. QED BY <2>2, <2>5, <2>6, <2>9, <2>10, <2>11, <2>12
<1>. QED BY <1>2, <1>3 DEF DiffIsOneStep

LEMMA BlameFollows == ASSUME ReadsInvariant PROVE BlameIsFirst
<1>1. \A x, p : FirstWith(p, x) => /\ x[2] # 0 /\ x[1] \in Headings[log[x[2]].content]
                                  /\ \A c \in Touching(p, x[2] - 1) : x[1] \notin Headings[log[c].content]
  BY DEF FirstWith
<1>2. ASSUME Done("diff"), Cardinality(Touching(rd.page, Len(log))) <= BlameCap, NEW x \in rd.todo
      PROVE  FirstWith(rd.page, x)
  BY <1>2, Knows DEF Done, ReadOK, DiffOK, Fresh
<1>. QED BY <1>1, <1>2 DEF BlameIsFirst

LEMMA EvolutionFollows == ASSUME ReadsInvariant PROVE EvolutionIsChain
<1>. SUFFICES ASSUME Done("evolution") PROVE EvolutionIsChain
  BY DEF EvolutionIsChain
<1>1. /\ StoreTypeOK /\ History /\ rd \in Reading /\ EvolutionOK(rd) /\ rd.at = "done" /\ Fresh(rd)
      /\ Len(log) \in Nat /\ born \in Nat
  BY Knows, StoreTypes DEF Done, ReadOK, Fresh
<1>. DEFINE W == {x[2] : x \in rd.todo}
            T == Touching(rd.page, Len(log))
<1>2. Walked(rd) = W
  BY <1>1 DEF EvolutionOK, Walked
<1>3. /\ W \subseteq T
      /\ \E k \in W : k >= rd.low
      /\ \A k, m \in W, c \in T : k <= c /\ c <= m => c \in W
      /\ \A x \in rd.todo : x[1] = Parent(rd.page, x[2])
  BY <1>1, <1>2 DEF EvolutionOK
<1>4. T \subseteq 1 .. Len(log)
  BY TouchingRange
<1>5. \E e \in rd.todo : e[2] >= rd.low
  BY <1>3
(* The parent of a walked commit is the version right before it. *)
<1>6. ASSUME NEW k \in W
      PROVE  /\ k \in T /\ k \in 1 .. Len(log) /\ LastTouch(rd.page, k) = k
             /\ \A c \in T : c < k => c <= Parent(rd.page, k) /\ Parent(rd.page, k) # 0
             /\ Parent(rd.page, k) # 0 => Parent(rd.page, k) \in T /\ Parent(rd.page, k) < k
  <2>1. k \in T /\ k \in 1 .. Len(log) /\ k > born /\ log[k].page = rd.page /\ k \in Nat \ {0}
    BY <1>3, <1>4, TouchingIs
  <2>2. LastTouch(rd.page, k) = k
    BY <2>1, OwnTouch
  <2>3. /\ Parent(rd.page, k) # 0 => Parent(rd.page, k) \in Touching(rd.page, k) \ {k}
        /\ \A c \in Touching(rd.page, k) \ {k} : c <= Parent(rd.page, k) /\ Parent(rd.page, k) # 0
    BY <2>1, <2>2, ParentIs
  <2>4. \A c \in T : c < k => c \in Touching(rd.page, k) \ {k}
    BY <2>1, <1>4, TouchingIs
  <2>5. \A c \in Touching(rd.page, k) \ {k} : c \in T /\ c < k
    BY <2>1, <1>1, TouchingIs
  <2>. QED BY <2>1, <2>2, <2>3, <2>4, <2>5
<1>7. ASSUME NEW e \in rd.todo, NEW c \in Touching(rd.page, e[2] - 1)
      PROVE  c <= e[1]
  <2>1. e[2] \in W /\ e[1] = Parent(rd.page, e[2])
    BY <1>3
  <2>2. e[2] \in 1 .. Len(log)
    BY <1>6, <2>1
  <2>3. c \in T /\ c < e[2]
    BY <2>2, <1>1, TouchingIs
  <2>. HIDE DEF W, T
  <2>. QED BY <1>6, <2>1, <2>3
<1>8. ASSUME NEW e \in rd.todo, e[2] # Newest(W)
      PROVE  \E f \in rd.todo : f[1] = e[2]
  <2>. DEFINE k == e[2]
              U == {c \in W : k < c}
  <2>1. k \in W /\ W \subseteq 1 .. Len(log)
    BY <1>3, <1>4
  <2>2. Newest(W) \in W /\ \A c \in W : c <= Newest(W)
    BY <2>1, <1>1, NewestIs
  <2>3. k < Newest(W)
    <3>1. k \in 1 .. Len(log) /\ Newest(W) \in 1 .. Len(log) /\ k <= Newest(W)
      BY <2>1, <2>2
    <3>. QED BY <3>1, <1>8
  <2>4. U # {} /\ U \subseteq Nat
    <3>1. Newest(W) \in U
      BY <2>2, <2>3
    <3>2. \A c \in W : c \in Nat
      BY <2>1
    <3>. QED BY <3>1, <3>2
  <2>. DEFINE m == FS!Min(U)
  <2>5. m \in U /\ \A c \in U : m <= c
    BY <2>4, MinExists
  <2>. HIDE DEF m
  <2>6. m \in W /\ k < m
    BY <2>5
  <2>7. PICK f \in rd.todo : f[2] = m
    BY <2>6
  <2>8. f[1] = Parent(rd.page, m)
    BY <1>3, <2>7
  <2>9. k \in T
    BY <1>6, <2>1
  <2>10. k <= Parent(rd.page, m) /\ Parent(rd.page, m) # 0
    BY <1>6, <2>6, <2>9
  <2>11. Parent(rd.page, m) \in T /\ Parent(rd.page, m) < m
    BY <1>6, <2>6, <2>10
  <2>. DEFINE b == Parent(rd.page, m)
  <2>12. b \in 1 .. Len(log) /\ k \in 1 .. Len(log) /\ m \in 1 .. Len(log)
    BY <2>1, <2>6, <2>11, <1>4
  <2>. HIDE DEF b
  <2>13. b \in T /\ k <= b /\ b < m
    BY <2>10, <2>11 DEF b
  <2>14. b <= m
    BY <2>12, <2>13
  <2>15. b \in W
    BY <1>3, <2>1, <2>6, <2>13, <2>14
  <2>16. ~(k < b)
    <3>1. k < b => m <= b
      BY <2>5, <2>15
    <3>. QED BY <3>1, <2>12, <2>13
  <2>17. b = k
    BY <2>12, <2>13, <2>16
  <2>. QED BY <2>7, <2>8, <2>17 DEF b
<1>. QED BY <1>5, <1>7, <1>8 DEF EvolutionIsChain

LEMMA PullFollows == ASSUME ReadsInvariant PROVE PullGetsAll
<1>. SUFFICES ASSUME Done("pull") PROVE PullGetsAll
  BY DEF PullGetsAll
<1>1. rd \in Reading /\ PullOK(rd) /\ rd.at = "done" /\ Fresh(rd)
  BY Knows DEF Done, ReadOK, Fresh
<1>2. rd.need \subseteq Taken(rd) /\ \A i \in DOMAIN rd.got : rd.got[i][2] >= rd.list[rd.got[i][1]]
  BY <1>1 DEF PullOK
<1>3. Missing = rd.need \ Taken(rd)
  BY DEF Missing, Taken
<1>. QED BY <1>2, <1>3 DEF PullGetsAll

-----------------------------------------------------------------------------
(* Whatever is committed, deleted or replaced between the git processes of *)
(* a read, each content comes with the sha of the commit that wrote it,    *)
(* and a page that is read is no older than when it was asked for.         *)
THEOREM ReadsAnswer == ReadsSpec => []AnswersSound
<1>1. ReadsInvariant => AnswersSound
  BY AnswersFollow
<1>. QED BY ReadsHold, <1>1, PTL

(* No server, old or new, makes ReadPageAt answer another commit's content *)
(* than the one it was asked for.                                          *)
THEOREM HistoryIsHistory == ReadsSpec => []NeverHeadForHistory
<1>1. ReadsInvariant => NeverHeadForHistory
  BY NeverHeadFollows
<1>. QED BY ReadsHold, <1>1, PTL

(* A diff compares neighbours, an evolution is a chain of neighbours and   *)
(* blame names the first version with the heading, for every cap on the    *)
(* walks.                                                                  *)
THEOREM HistoriesConnect == ReadsSpec => []NeighboursOnly
<1>1. ReadsInvariant => NeighboursOnly
  BY DiffFollows, BlameFollows, EvolutionFollows DEF NeighboursOnly
<1>. QED BY ReadsHold, <1>1, PTL

(* A pull that is not cut short by a deletion gets every page it needs,    *)
(* whatever since it sends and however small pullBatchFallback is.         *)
THEOREM PullsMissNothing == ReadsSpec => []PullGetsAll
<1>1. ReadsInvariant => PullGetsAll
  BY PullFollows
<1>. QED BY ReadsHold, <1>1, PTL
=============================================================================
