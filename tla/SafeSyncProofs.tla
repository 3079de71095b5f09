---------------------------- MODULE SafeSyncProofs ----------------------------
(***************************************************************************)
(* The safety of SafeSync, for every set of clones, pages and contents,    *)
(* every bound and every subset of the commands and faults; and what       *)
(* becomes of conflict records: they persist until they are settled,       *)
(* whatever fails, and as long as records are saved as a whole they are    *)
(* never about a version older than the page's base.                       *)
(***************************************************************************)
EXTENDS SafeSyncInv, TLAPS

-----------------------------------------------------------------------------
(* What the decision table answers.                                        *)

(* The state of a page is one of the table's. *)
LEMMA StateKind ==
    ASSUME NEW f \in Files, NEW m \in Meta, NEW s \in Sha
    PROVE  State(f, m, s) \in PageStates \cup {NoEntry}
<1>1. LocalSide(f).kind \in {"absent", "invalid", "valid"}
  BY AbsentAssumption, BrokenAssumption DEF Files, LocalSide, LocalAbsent, LocalInvalid, LocalValid
<1>2. BaseSide(m).kind \in {"none", "stale", "valid"}
  BY DEF BaseSide, BaseNone, BaseStale, BaseValid
<1>3. RawState(f, m, s) \in PageStates \cup {NoEntry}
  <2>1. CASE LocalSide(f).kind # "valid"
    BY <1>1, <2>1 DEF RawState, Classify, AbsentState, PageStates
  <2>2. CASE LocalSide(f).kind = "valid" /\ BaseSide(m).kind # "valid"
    BY <1>2, <2>2 DEF RawState, Classify, ValidState, PageStates
  <2>3. CASE LocalSide(f).kind = "valid" /\ BaseSide(m).kind = "valid"
    BY <2>3 DEF RawState, Classify, ValidState, VerifiedState, PageStates
  <2>. QED BY <1>1, <1>2, <2>1, <2>2, <2>3
<1>. QED BY <1>3 DEF State, ApplySidecar, PageStates

(* Only a file that parses is ever modified, new, incoming or unchanged.   *)
LEMMA ValidFile ==
    ASSUME NEW f \in Files, NEW m \in Meta, NEW s \in Sha,
           State(f, m, s) \in {"modified", "new", "incoming", "unchanged"}
    PROVE  f \in Contents /\ LocalSide(f) = LocalValid(f)
<1>1. f = Absent => LocalSide(f) = LocalAbsent
  BY AbsentAssumption DEF LocalSide
<1>2. f \in Broken => LocalSide(f) = LocalInvalid
  BY AbsentAssumption, BrokenAssumption DEF LocalSide
<1>3. f \in Contents => LocalSide(f) = LocalValid(f)
  BY AbsentAssumption, BrokenAssumption DEF LocalSide
<1>4. RawState(f, m, s) \in {"modified", "new", "incoming", "unchanged"}
  BY DEF State, ApplySidecar
<1>5. LocalSide(f).kind \notin {"absent", "invalid"}
  BY <1>4 DEF RawState, Classify, AbsentState, NoEntry
<1>. QED BY <1>1, <1>2, <1>3, <1>5 DEF Files, LocalAbsent, LocalInvalid

(* A page is incoming or unchanged only against a valid base: its record   *)
(* is for the page's sha, and the file is what the record says.            *)
LEMMA ValidBase ==
    ASSUME NEW f \in Files, NEW m \in Meta, NEW s \in Sha,
           State(f, m, s) \in {"incoming", "unchanged"}
    PROVE  m.sha # 0 /\ m.recSha = m.sha /\ m.recHash = f
<1>1. LocalSide(f) = LocalValid(f)
  BY ValidFile
<1>2. RawState(f, m, s) \in {"incoming", "unchanged"}
  BY DEF State, ApplySidecar
<1>3. RawState(f, m, s) = ValidState(LocalValid(f), BaseSide(m), OnlineRemote(s))
  BY <1>1 DEF RawState, Classify, LocalValid
<1>4. BaseSide(m).kind \in {"none", "stale", "valid"}
  BY DEF BaseSide, BaseNone, BaseStale, BaseValid
<1>5. BaseSide(m).kind = "valid"
  BY <1>2, <1>3, <1>4 DEF ValidState
<1>6. m.sha # 0 /\ m.recSha = m.sha /\ BaseSide(m) = BaseValid(m.sha, m.recHash)
  BY <1>5 DEF BaseSide, BaseNone, BaseStale, BaseValid
<1>7. VerifiedState(LocalValid(f), BaseSide(m), OnlineRemote(s)) \in {"incoming", "unchanged"}
  BY <1>2, <1>3, <1>5 DEF ValidState
<1>8. f = m.recHash
  BY <1>6, <1>7 DEF VerifiedState, LocalValid, BaseValid
<1>. QED BY <1>6, <1>8

(* An unchanged page's base is the version the server lists. *)
LEMMA UnchangedBase ==
    ASSUME NEW f \in Files, NEW m \in Meta, NEW s \in Sha,
           State(f, m, s) = "unchanged"
    PROVE  m.recSha = s
<1>1. LocalSide(f) = LocalValid(f) /\ m.sha # 0 /\ m.recSha = m.sha
  BY ValidFile, ValidBase
<1>2. RawState(f, m, s) = "unchanged"
  BY DEF State, ApplySidecar
<1>3. BaseSide(m) \in {BaseStale(m.sha), BaseValid(m.sha, m.recHash)}
  BY <1>1 DEF BaseSide
<1>4. RawState(f, m, s) = ValidState(LocalValid(f), BaseSide(m), OnlineRemote(s))
  BY <1>1 DEF RawState, Classify, LocalValid
<1>5. BaseSide(m) = BaseValid(m.sha, m.recHash)
  BY <1>2, <1>3, <1>4 DEF ValidState, BaseStale
<1>6. VerifiedState(LocalValid(f), BaseSide(m), OnlineRemote(s)) = "unchanged"
  BY <1>2, <1>4, <1>5 DEF ValidState, BaseValid
<1>7. OnlineRemote(s).kind # "absent" /\ ~RemoteMoved(BaseSide(m), OnlineRemote(s))
  BY <1>6 DEF VerifiedState
<1>8. OnlineRemote(s) = RemotePresent(s)
  BY <1>7 DEF OnlineRemote, RemoteAbsent
<1>. QED BY <1>1, <1>5, <1>7, <1>8 DEF RemoteMoved, RemotePresent, BaseValid, HasBase

-----------------------------------------------------------------------------
(* Histories only grow.                                                    *)
Grows ==
    /\ Len(log) <= Len(log')
    /\ \A i \in 1 .. Len(log) : log'[i] = log[i]
    /\ \A c \in Clones, p \in Pages :
          /\ held[c][p] \subseteq held'[c][p]
          /\ told[c][p] \subseteq told'[c][p]

LEMMA LenNat == ASSUME TypeOK PROVE Len(log) \in Nat /\ Len(log) <= MaxCommits
BY MaxCommitsAssumption DEF TypeOK, StoreTypeOK, Sha

LEMMA LenNatNext == ASSUME TypeOK' PROVE Len(log') \in Nat /\ Len(log') <= MaxCommits
BY MaxCommitsAssumption DEF TypeOK, StoreTypeOK, Sha

(* A version stays a version, and keeps its contents. *)
LEMMA VersionsStay ==
    ASSUME TypeOK, TypeOK', Grows, NEW s, NEW p \in Pages, IsVersion(s, p)
    PROVE  IsVersion(s, p)' /\ log'[s] = log[s]
BY LenNat, LenNatNext DEF Grows, IsVersion

(* What a user knows are versions, and they are not forgotten. *)
LEMMA KnownVersion ==
    ASSUME ToldOK, NEW c \in Clones, NEW p \in Pages, NEW s \in Known(c, p)
    PROVE  IsVersion(s, p)
BY DEF ToldOK, Known, IsVersion

LEMMA KnownStays ==
    ASSUME TypeOK, TypeOK', Grows, NEW c \in Clones, NEW p \in Pages, NEW s \in Known(c, p)
    PROVE  s \in Known(c, p)'
BY LenNat, LenNatNext DEF Grows, Known

LEMMA PublishedStays ==
    ASSUME TypeOK, TypeOK', Grows, NEW p \in Pages, NEW d \in Published(p)
    PROVE  d \in Published(p)'
BY LenNat, LenNatNext DEF Grows, Published

(* The records m of a page are true of the next state's history. *)
RecordNext(c, p, m) ==
    /\ m.recSha # 0 => /\ m.recSha \in Known(c, p)'
                       /\ log'[m.recSha].page = p
                       /\ log'[m.recSha].content = m.recHash
    /\ m.sha # 0 => m.sha \in Known(c, p)'

(* True records stay true. *)
LEMMA RecordStays ==
    ASSUME TypeOK, TypeOK', Grows, ToldOK,
           NEW c \in Clones, NEW p \in Pages, NEW m, RecordOK(c, p, m)
    PROVE  RecordNext(c, p, m)
<1>1. \A s \in Known(c, p) : IsVersion(s, p) /\ s \in Known(c, p)' /\ log'[s] = log[s]
  BY KnownVersion, KnownStays, VersionsStay
<1>. QED BY <1>1 DEF RecordOK, RecordNext

(* What the user knows, and the server's version of a page, are truthful   *)
(* records of it.                                                          *)
LEMMA SyncedOK ==
    ASSUME ToldOK, NEW c \in Clones, NEW p \in Pages, NEW s \in Known(c, p)
    PROVE  RecordOK(c, p, Synced(s))
BY KnownVersion DEF RecordOK, Synced, IsVersion

LEMMA SyncedType ==
    ASSUME TypeOK, NEW p \in Pages, NEW s, IsVersion(s, p)
    PROVE  /\ Synced(s) \in Meta
           /\ s \in Sha \ {0}
           /\ log[s] \in Commit
           /\ log[s].content \in Contents
<1>1. s \in Sha \ {0} /\ 0 \in Sha
  BY LenNat, MaxCommitsAssumption DEF IsVersion, Sha
<1>2. log[s] \in Commit
  BY DEF IsVersion, TypeOK, StoreTypeOK
<1>3. log[s].content \in Contents
  BY <1>2 DEF Commit
<1>. QED BY <1>1, <1>2, <1>3 DEF Synced, Meta

(* A landing mixes the old records of a page with the new ones, but a base *)
(* record is written as a whole.                                           *)
LEMMA LandedMix ==
    ASSUME NEW old \in [Pages -> Meta], NEW new \in [Pages -> Meta],
           NEW put \in SUBSET Pages, NEW idx \in SUBSET IndexFiles, NEW p \in Pages
    PROVE  LET l == Landed(old, new, put, idx)[p]
           IN  /\ l.sha \in {old[p].sha, new[p].sha}
               /\ \/ l.recSha = old[p].recSha /\ l.recHash = old[p].recHash
                  \/ l.recSha = new[p].recSha /\ l.recHash = new[p].recHash
BY DEF Landed

LEMMA LandedType ==
    ASSUME NEW old \in [Pages -> Meta], NEW new \in [Pages -> Meta], NEW put, NEW idx
    PROVE  Landed(old, new, put, idx) \in [Pages -> Meta]
BY DEF Landed, Meta

LEMMA LandingType ==
    ASSUME NEW g \in BOOLEAN, NEW l \in Landings(g)
    PROVE  l[1] \in SUBSET Pages /\ l[2] \in SUBSET IndexFiles
<1>1. \A x \in Prefixes : x[1] \in SUBSET Pages /\ x[2] \in SUBSET IndexFiles
  BY DEF Prefixes, IndexFiles
<1>2. CASE g /\ "io" \in Faults
  BY <1>2 DEF Landings
<1>3. CASE ~(g /\ "io" \in Faults) /\ "crash" \in Faults
  <2>1. l \in Prefixes
    BY <1>3 DEF Landings
  <2>. QED BY <1>1, <2>1
<1>4. CASE ~(g /\ "io" \in Faults) /\ "crash" \notin Faults
  <2>1. l = <<Pages, IndexFiles>>
    BY <1>4 DEF Landings
  <2>. QED BY <2>1
<1>. QED BY <1>2, <1>3, <1>4

-----------------------------------------------------------------------------
(* A step that only adds to the histories, and puts no wrong version, file,*)
(* record, job or request into the state, keeps the invariant.             *)
JobKept(c, p) == /\ op'[c].job[p] = op[c].job[p]
                 /\ file'[c][p] = file[c][p]
                 /\ meta'[c][p] = meta[c][p]
                 /\ backup'[c][p] = backup[c][p]

Sound ==
    /\ Grows
    /\ \A p \in Pages : tip'[p] \in {0, tip[p]} \/ IsVersion(tip[p], p)'
    /\ \A c \in Clones, p \in Pages :
          /\ \A s \in told'[c][p] : s \in told[c][p] \/ IsVersion(s, p)'
          /\ \/ file'[c][p] = file[c][p]
             \/ file'[c][p] \in Contents => file'[c][p] \in held'[c][p]
          /\ meta'[c][p] = meta[c][p] \/ RecordNext(c, p, meta'[c][p])
          /\ JobKept(c, p) \/ op'[c].job[p] = NoJob \/ JobOK(c, p, op[c].job[p])'
    /\ \A it \in late' : it \in late \/ RequestOK(it)'

LEMMA TruthfulRecords ==
    BaseTruthful <=> \A c \in Clones, p \in Pages : RecordOK(c, p, meta[c][p])
BY DEF BaseTruthful, RecordOK

LEMMA NoJobOK ==
    ASSUME NEW c \in Clones, NEW p \in Pages PROVE JobOK(c, p, NoJob)
BY DEF JobOK, NoJob

LEMMA JobStays ==
    ASSUME TypeOK, TypeOK', Grows, NEW c \in Clones, NEW p \in Pages,
           JobOK(c, p, op[c].job[p]), JobKept(c, p)
    PROVE  JobOK(c, p, op[c].job[p])'
<1>. DEFINE j == op[c].job[p]
<1>1. IsVersion(j.got, p) => IsVersion(j.got, p)' /\ log'[j.got] = log[j.got]
  BY VersionsStay DEF JobKept
<1>. QED BY <1>1, PublishedStays DEF JobKept, JobOK, Grows

LEMMA SoundStep ==
    ASSUME IInv, TypeOK', Sound
    PROVE  IInv'
<1>. USE DEF IInv, Sound
<1>1. TipOK'
  BY VersionsStay DEF TipOK
<1>2. ToldOK'
  BY VersionsStay DEF ToldOK
<1>3. FileOK'
  BY DEF FileOK, Grows
<1>4. BaseTruthful'
  <2>. SUFFICES ASSUME NEW c \in Clones, NEW p \in Pages PROVE RecordOK(c, p, meta[c][p])'
    BY DEF BaseTruthful, RecordOK
  <2>1. CASE meta'[c][p] = meta[c][p]
    <3>1. RecordOK(c, p, meta[c][p])
      BY TruthfulRecords
    <3>. QED BY <2>1, <3>1, RecordStays DEF RecordOK, RecordNext
  <2>2. CASE RecordNext(c, p, meta'[c][p])
    BY <2>2 DEF RecordOK, RecordNext
  <2>. QED BY <2>1, <2>2
<1>5. JobsOK'
  <2>. SUFFICES ASSUME NEW c \in Clones, NEW p \in Pages PROVE JobOK(c, p, op[c].job[p])'
    BY DEF JobsOK
  <2>1. CASE JobKept(c, p)
    BY <2>1, JobStays DEF JobsOK
  <2>2. CASE op'[c].job[p] = NoJob
    BY <2>2, NoJobOK DEF JobOK, NoJob
  <2>. QED BY <2>1, <2>2
<1>6. LateOK'
  <2>. SUFFICES ASSUME NEW it \in late' PROVE RequestOK(it)'
    BY DEF LateOK
  <2>1. CASE it \in late
    <3>1. RequestOK(it) /\ it \in Item
      BY <2>1 DEF LateOK, TypeOK
    <3>2. it.by \in Clones /\ it.page \in Pages
      BY <3>1 DEF RequestOK, Item
    <3>. QED BY <3>1, <3>2, KnownStays DEF RequestOK, Grows
  <2>. QED BY <2>1
<1>. QED BY <1>1, <1>2, <1>3, <1>4, <1>5, <1>6

-----------------------------------------------------------------------------
(* The steps of the server.                                                *)

(* A write adds at most one version, the new tip of its page; one that is  *)
(* not refused answers with a version that holds what was written.         *)
LEMMA StoreWriteStep ==
    ASSUME TypeOK, TipOK, NEW it \in Item, StoreWrite(it)
    PROVE  /\ StoreTypeOK'
           /\ Len(log) <= Len(log')
           /\ \A i \in 1 .. Len(log) : log'[i] = log[i]
           /\ \A p \in Pages : tip'[p] = tip[p] \/ IsVersion(tip[p], p)'
           /\ ~Refused(it) => /\ WrittenSha(it) \in 1 .. Len(log')
                              /\ log'[WrittenSha(it)].page = it.page
                              /\ log'[WrittenSha(it)].content = it.content
<1>. DEFINE new == [page |-> it.page, content |-> it.content, by |-> it.by]
<1>1. it.page \in Pages /\ new \in Commit
  BY DEF Item, Commit
<1>2. CASE UNCHANGED <<log, tip>>
  <2>1. StoreTypeOK'
    BY <1>2 DEF StoreWrite, TypeOK, StoreTypeOK
  <2>2. ~Refused(it) => NoOp(it)
    <3>1. log' # Append(log, new)
      BY <1>2, <1>1, LenNat DEF TypeOK, StoreTypeOK
    <3>. QED BY <3>1 DEF StoreWrite
  <2>3. NoOp(it) => /\ WrittenSha(it) = tip[it.page]
                    /\ IsVersion(tip[it.page], it.page)
                    /\ log[tip[it.page]].content = it.content
    BY <1>1 DEF NoOp, WrittenSha, TipOK
  <2>. QED BY <1>2, <2>1, <2>2, <2>3, LenNat DEF IsVersion
<1>3. CASE /\ ~NoOp(it)
           /\ Len(log) < MaxCommits
           /\ log' = Append(log, new)
           /\ tip' = [tip EXCEPT ![it.page] = Len(log) + 1]
  <2>. DEFINE n == Len(log) + 1
  <2>1. /\ log' \in Seq(Commit)
        /\ Len(log') = n
        /\ log'[n] = new
        /\ \A i \in 1 .. Len(log) : log'[i] = log[i]
    BY <1>1, <1>3 DEF TypeOK, StoreTypeOK
  <2>2. n \in Sha /\ n \in 1 .. Len(log')
    BY <1>3, <2>1, LenNat, MaxCommitsAssumption DEF Sha
  <2>3. StoreTypeOK'
    BY <1>3, <2>1, <2>2 DEF StoreTypeOK, TypeOK, StoreWrite
  <2>4. \A p \in Pages : tip'[p] = IF p = it.page THEN n ELSE tip[p]
    BY <1>3 DEF TypeOK, StoreTypeOK
  <2>5. WrittenSha(it) = n
    BY <1>3 DEF WrittenSha
  <2>. QED BY <2>1, <2>2, <2>3, <2>4, <2>5, LenNat DEF IsVersion
<1>. QED BY <1>2, <1>3 DEF StoreWrite

LEMMA PeerWriteSound ==
    ASSUME IInv, PeerWrite PROVE TypeOK' /\ Sound
<1>. USE DEF IInv
<1>1. PICK w \in Peers, p \in Pages, d \in Contents : StorePeerWrite(w, p, d)
  BY DEF PeerWrite
<1>. DEFINE it == [by |-> w, page |-> p, content |-> d, parent |-> 0, absent |-> FALSE]
<1>2. it \in Item /\ StoreWrite(it)
  BY <1>1, MaxCommitsAssumption DEF Item, Sha, StorePeerWrite
<1>3. TypeOK'
  BY <1>2, StoreWriteStep DEF TypeOK, PeerWrite
<1>. QED BY <1>2, <1>3, StoreWriteStep DEF PeerWrite, Sound, Grows, JobKept

LEMMA LateWriteSound ==
    ASSUME IInv, LateWrite PROVE TypeOK' /\ Sound
<1>. USE DEF IInv
<1>1. PICK it \in late : StoreWrite(it) /\ late' = late \ {it}
  BY DEF LateWrite
<1>2. it \in Item
  BY DEF TypeOK
<1>3. TypeOK'
  BY <1>1, <1>2, StoreWriteStep DEF TypeOK, LateWrite
<1>. QED BY <1>1, <1>2, <1>3, StoreWriteStep DEF LateWrite, Sound, Grows, JobKept

LEMMA WipeSound ==
    ASSUME IInv, Wipe PROVE TypeOK' /\ Sound
<1>. USE DEF IInv
<1>1. TypeOK'
  BY MaxCommitsAssumption DEF TypeOK, StoreTypeOK, Wipe, StoreWipe, Sha
<1>. QED BY <1>1, LenNat DEF Wipe, StoreWipe, Sound, Grows, JobKept

-----------------------------------------------------------------------------
(* The steps of a clone on one page.                                       *)
OpType == [Clones -> [cmd : {"none", "pull", "push", "theirs"}, job : [Pages -> Job]]]

LEMMA SetJobStep ==
    ASSUME TypeOK, NEW c \in Clones, NEW p \in Pages, NEW j \in Job, SetJob(c, p, j)
    PROVE  /\ op' \in OpType
           /\ op'[c].job[p] = j
           /\ \A d \in Clones, q \in Pages :
                 <<d, q>> # <<c, p>> => op'[d].job[q] = op[d].job[q]
BY DEF TypeOK, OpType, SetJob

LEMMA MoveStep ==
    ASSUME TypeOK, NEW c \in Clones, NEW p \in Pages, NEW s \in Steps, Move(c, p, s)
    PROVE  /\ op' \in OpType
           /\ op'[c].job[p] = [op[c].job[p] EXCEPT !.step = s]
           /\ \A d \in Clones, q \in Pages :
                 <<d, q>> # <<c, p>> => op'[d].job[q] = op[d].job[q]
<1>. DEFINE k == [op[c].job[p] EXCEPT !.step = s]
<1>1. k \in Job
  <2>1. op[c].job[p] \in Job
    BY DEF TypeOK
  <2>. QED BY <2>1 DEF Job
<1>2. SetJob(c, p, k)
  BY DEF Move, SetJob
<1>. QED BY <1>1, <1>2, SetJobStep

(* A step that changes nothing but one job is sound if the job is.         *)
LEMMA JobStepSound ==
    ASSUME IInv, NEW c \in Clones, NEW p \in Pages, op' \in OpType,
           op'[c].job[p] = NoJob \/ JobOK(c, p, op[c].job[p])',
           \A d \in Clones, q \in Pages : <<d, q>> # <<c, p>> => op'[d].job[q] = op[d].job[q],
           UNCHANGED <<log, tip, born, file, meta, backup, late, held, told>>
    PROVE  TypeOK' /\ Sound
<1>1. TypeOK'
  BY DEF IInv, TypeOK, StoreTypeOK, OpType
<1>. QED BY <1>1, LenNat DEF IInv, Sound, Grows, JobKept

LEMMA JobType ==
    ASSUME TypeOK, NEW c \in Clones, NEW p \in Pages
    PROVE  /\ op[c].job[p] \in Job
           /\ meta[c][p] \in Meta
           /\ file[c][p] \in Files
           /\ tip[p] \in Sha
BY DEF TypeOK, StoreTypeOK

LEMMA NoJobType == NoJob \in Job
BY MaxCommitsAssumption DEF NoJob, Job, Files, Steps, Sha

LEMMA EditSound ==
    ASSUME IInv, NEW c \in Clones, NEW p \in Pages, Edit(c, p) PROVE TypeOK' /\ Sound
<1>. USE DEF IInv
<1>1. PICK f \in Files : PutFile(c, p, f)
  BY DEF Edit
<1>2. /\ file' \in [Clones -> [Pages -> Files]]
      /\ held' \in [Clones -> [Pages -> SUBSET Files]]
      /\ file'[c][p] = f
      /\ held'[c][p] = held[c][p] \cup ({f} \cap Contents)
      /\ \A d \in Clones, q \in Pages : <<d, q>> # <<c, p>> =>
            file'[d][q] = file[d][q] /\ held'[d][q] = held[d][q]
  BY <1>1 DEF PutFile, Set, TypeOK, Files
<1>3. TypeOK'
  BY <1>2 DEF TypeOK, StoreTypeOK, Edit
<1>4. Grows
  BY <1>2, LenNat DEF Edit, Grows
<1>5. JobOK(c, p, op[c].job[p])'
  <2>. DEFINE j == op[c].job[p]
  <2>1. JobOK(c, p, j)
    BY DEF JobsOK
  <2>2. "window" \notin Faults => j.step \notin {"write", "overwrite"}
    BY DEF Edit, At
  <2>. QED BY <2>1, <2>2, <1>4 DEF Edit, JobOK, Grows, IsVersion
<1>6. \A d \in Clones, q \in Pages : <<d, q>> # <<c, p>> => JobKept(d, q)
  BY <1>2 DEF Edit, JobKept
<1>. QED BY <1>2, <1>4, <1>3, <1>5, <1>6 DEF Edit, Sound

LEMMA PullFetchSound ==
    ASSUME IInv, NEW c \in Clones, NEW p \in Pages, PullFetch(c, p) PROVE TypeOK' /\ Sound
<1>. USE DEF IInv
<1>. DEFINE j == op[c].job[p]
<1>1. j \in Job /\ tip[p] \in Sha /\ JobOK(c, p, j)
  BY JobType DEF JobsOK
<1>2. CASE tip[p] = 0
  BY <1>2, NoJobType, SetJobStep, JobStepSound DEF PullFetch
<1>3. CASE tip[p] # 0
  <2>. DEFINE k == [j EXCEPT !.got = tip[p], !.step = "have"]
  <2>1. SetJob(c, p, k) /\ k \in Job
    BY <1>1, <1>3 DEF PullFetch, Job, Steps
  <2>2. IsVersion(tip[p], p)
    BY <1>3 DEF TipOK
  <2>3. op'[c].job[p] = k /\ op' \in OpType
    BY <2>1, SetJobStep
  <2>4. k.step = "have" /\ k.got = tip[p] /\ k.state = j.state /\ j.step = "need"
    BY <1>1 DEF Job, PullFetch, At
  <2>5. JobOK(c, p, op[c].job[p])'
    BY <1>1, <2>2, <2>3, <2>4 DEF JobOK, IsVersion, PullFetch
  <2>. QED BY <2>1, <2>3, <2>5, SetJobStep, JobStepSound DEF PullFetch
<1>. QED BY <1>2, <1>3

LEMMA PullApplySound ==
    ASSUME IInv, NEW c \in Clones, NEW p \in Pages, PullApply(c, p) PROVE TypeOK' /\ Sound
<1>. USE DEF IInv
<1>. DEFINE j == op[c].job[p]
            m == meta[c][p]
<1>1. j \in Job /\ m \in Meta /\ JobOK(c, p, j) /\ j.step = "have"
  BY JobType DEF JobsOK, PullApply, At
<1>needed. j.state \in {"incoming", "incoming_new", "conflict", "unverified"}
  BY <1>1 DEF JobOK, Needed
<1>2. CASE Applied(c, p) = "none"
  BY <1>2, NoJobType, SetJobStep, JobStepSound DEF PullApply
<1>3. CASE Applied(c, p) # "none"
  <2>. DEFINE k == [j EXCEPT !.step = Applied(c, p)]
  <2>0. Applied(c, p) \in {"none", "write", "adopt", "sidecar"}
    BY <1>1, <1>needed, <1>3 DEF Applied
  <2>1. SetJob(c, p, k) /\ k \in Job
    BY <1>1, <1>3, <2>0 DEF PullApply, Job, Steps
  <2>2. op'[c].job[p] = k /\ op' \in OpType
    BY <2>1, SetJobStep
  <2>3. k.step = Applied(c, p) /\ k.got = j.got /\ k.state = j.state
    BY <1>1 DEF Job
  <2>4. Applied(c, p) = "adopt" => log[j.got].content \in held[c][p]
    <3>. SUFFICES ASSUME Applied(c, p) = "adopt" PROVE file[c][p] = log[j.got].content
      BY <1>1, SyncedType DEF JobOK, FileOK
    <3>. QED BY <1>needed DEF Applied
  <2>5. Applied(c, p) = "write" => file[c][p] \in Published(p) \cup {Absent}
    <3>. SUFFICES ASSUME Applied(c, p) = "write" PROVE file[c][p] \in Published(p) \cup {Absent}
      OBVIOUS
    <3>1. \/ j.state = "incoming" /\ file[c][p] = m.recHash
          \/ file[c][p] = Absent
      BY <1>needed DEF Applied
    <3>2. j.state = "incoming" => m.recSha # 0
      BY <1>1 DEF JobOK
    <3>3. m.recSha # 0 => IsVersion(m.recSha, p) /\ log[m.recSha].content = m.recHash
      BY KnownVersion DEF BaseTruthful
    <3>. QED BY <3>1, <3>2, <3>3 DEF Published, IsVersion
  <2>6. JobOK(c, p, op[c].job[p])'
    BY <1>1, <2>0, <2>2, <2>3, <2>4, <2>5, <1>3 DEF JobOK, PullApply, IsVersion, Published
  <2>. QED BY <2>1, <2>2, <2>6, SetJobStep, JobStepSound DEF PullApply
<1>. QED BY <1>2, <1>3

(* Replacing a file by a version of the page: pull's and resolve --theirs's *)
(* rename.                                                                 *)
LEMMA WriteSound ==
    ASSUME IInv, NEW c \in Clones, NEW p \in Pages,
           op[c].job[p].step \in {"write", "overwrite"},
           PutFile(c, p, log[op[c].job[p].got].content),
           Move(c, p, "written"),
           UNCHANGED <<log, tip, born, meta, backup, late, told>>
    PROVE  TypeOK' /\ Sound
<1>. USE DEF IInv
<1>. DEFINE j == op[c].job[p]
            f == log[j.got].content
<1>1. j \in Job /\ IsVersion(j.got, p) /\ f \in Contents
  BY JobType, SyncedType DEF JobsOK, JobOK
<1>2. /\ file' \in [Clones -> [Pages -> Files]]
      /\ held' \in [Clones -> [Pages -> SUBSET Files]]
      /\ file'[c][p] = f
      /\ held'[c][p] = held[c][p] \cup {f}
      /\ \A d \in Clones, q \in Pages : <<d, q>> # <<c, p>> =>
            file'[d][q] = file[d][q] /\ held'[d][q] = held[d][q]
  BY <1>1 DEF PutFile, Set, TypeOK, Files
<1>3. /\ op' \in OpType
      /\ op'[c].job[p] = [j EXCEPT !.step = "written"]
      /\ \A d \in Clones, q \in Pages : <<d, q>> # <<c, p>> => op'[d].job[q] = op[d].job[q]
  BY MoveStep DEF Steps
<1>4. TypeOK'
  BY <1>2, <1>3 DEF TypeOK, StoreTypeOK, OpType
<1>5. Grows
  BY <1>2, LenNat DEF Grows
<1>6. op'[c].job[p].step = "written" /\ op'[c].job[p].got = j.got
  BY <1>1, <1>3 DEF Job
<1>7. JobOK(c, p, op[c].job[p])'
  BY <1>1, <1>2, <1>6 DEF JobOK, IsVersion
<1>8. \A d \in Clones, q \in Pages : <<d, q>> # <<c, p>> => JobKept(d, q)
  BY ZenonT(60), <1>2, <1>3 DEF JobKept
<1>. QED BY <1>2, <1>4, <1>5, <1>7, <1>8 DEF Sound

LEMMA PullWriteSound ==
    ASSUME IInv, NEW c \in Clones, NEW p \in Pages, PullWrite(c, p) PROVE TypeOK' /\ Sound
BY WriteSound DEF PullWrite, At

LEMMA TheirsWriteSound ==
    ASSUME IInv, NEW c \in Clones, NEW p \in Pages, TheirsWrite(c, p) PROVE TypeOK' /\ Sound
BY WriteSound DEF TheirsWrite, At

LEMMA PushServeSound ==
    ASSUME IInv, NEW c \in Clones, NEW p \in Pages, PushServe(c, p) PROVE TypeOK' /\ Sound
<1>. USE DEF IInv
<1>. DEFINE j  == op[c].job[p]
            it == ItemOf(c, p)
            k  == [j EXCEPT !.got  = IF Refused(it) THEN tip[p] ELSE WrittenSha(it),
                            !.step = IF Refused(it) THEN "sidecar" ELSE "pushed"]
<1>1. /\ j \in Job /\ meta[c][p] \in Meta /\ tip[p] \in Sha
      /\ JobOK(c, p, j) /\ j.step = "send"
  BY JobType DEF JobsOK, PushServe, At
<1>2. j.seen \in Contents \cap held[c][p]
  BY <1>1 DEF JobOK
<1>3. it \in Item /\ StoreWrite(it) /\ it.page = p /\ it.content = j.seen
  BY <1>1, <1>2 DEF ItemOf, Item, Meta, PushServe
<1>. HIDE DEF it
<1>4. /\ StoreTypeOK'
      /\ Len(log) <= Len(log')
      /\ \A i \in 1 .. Len(log) : log'[i] = log[i]
      /\ \A q \in Pages : tip'[q] = tip[q] \/ IsVersion(tip[q], q)'
      /\ ~Refused(it) => /\ WrittenSha(it) \in 1 .. Len(log')
                         /\ log'[WrittenSha(it)].page = p
                         /\ log'[WrittenSha(it)].content = j.seen
  BY <1>3, StoreWriteStep
<1>5. ~Refused(it) => WrittenSha(it) \in Sha
  BY <1>4, MaxCommitsAssumption DEF StoreTypeOK, Sha
<1>6. SetJob(c, p, k) /\ k \in Job
  BY <1>1, <1>5 DEF PushServe, Job, Steps, it
<1>7. /\ op' \in OpType
      /\ op'[c].job[p] = k
      /\ \A d \in Clones, q \in Pages : <<d, q>> # <<c, p>> => op'[d].job[q] = op[d].job[q]
  BY <1>6, SetJobStep
<1>8. TypeOK'
  BY <1>4, <1>7 DEF TypeOK, OpType, PushServe
<1>9. Grows
  BY <1>4 DEF Grows, PushServe
<1>10. JobOK(c, p, op[c].job[p])'
  <2>1. CASE Refused(it)
    <3>1. op'[c].job[p].step = "sidecar"
      BY <1>1, <1>7, <2>1 DEF Job
    <3>. QED BY <3>1 DEF JobOK
  <2>2. CASE ~Refused(it)
    <3>1. /\ op'[c].job[p].step = "pushed"
          /\ op'[c].job[p].got = WrittenSha(it)
          /\ op'[c].job[p].seen = j.seen
      BY <1>1, <1>7, <2>2 DEF Job
    <3>. QED BY <3>1, <1>2, <1>4, <2>2 DEF JobOK, IsVersion, PushServe
  <2>. QED BY <2>1, <2>2
<1>11. \A d \in Clones, q \in Pages : <<d, q>> # <<c, p>> => JobKept(d, q)
  BY <1>7 DEF JobKept, PushServe
<1>. QED BY <1>4, <1>8, <1>9, <1>10, <1>11 DEF Sound, PushServe

LEMMA PushNoteSound ==
    ASSUME IInv, NEW c \in Clones, NEW p \in Pages, PushNote(c, p) PROVE TypeOK' /\ Sound
<1>. USE DEF IInv
<1>. DEFINE j == op[c].job[p]
<1>1. j \in Job /\ tip[p] \in Sha
  BY JobType
<1>2. PICK k \in {NoJob, [j EXCEPT !.got = tip[p], !.step = "sidecar"], [j EXCEPT !.step = "sidecar"]} :
         SetJob(c, p, k)
  BY DEF PushNote
<1>3. k \in Job /\ k.step \in {"none", "sidecar"}
  BY <1>1, NoJobType DEF Job, Steps, NoJob
<1>4. op'[c].job[p] = k
  BY <1>2, <1>3, SetJobStep
<1>5. JobOK(c, p, op[c].job[p])'
  BY <1>3, <1>4 DEF JobOK
<1>. QED BY <1>2, <1>3, <1>5, SetJobStep, JobStepSound DEF PushNote

LEMMA TheirsBackupSound ==
    ASSUME IInv, NEW c \in Clones, NEW p \in Pages, TheirsBackup(c, p) PROVE TypeOK' /\ Sound
<1>. USE DEF IInv
<1>. DEFINE j == op[c].job[p]
            f == file[c][p]
<1>1. j \in Job /\ f \in Files /\ IsVersion(j.got, p)
  BY JobType DEF JobsOK, JobOK, TheirsBackup, At
<1>2. CASE f = log[j.got].content
  <2>1. Move(c, p, "written") /\ UNCHANGED backup
    BY <1>2 DEF TheirsBackup
  <2>2. op'[c].job[p] = [j EXCEPT !.step = "written"]
    BY <2>1, MoveStep DEF Steps
  <2>3. op'[c].job[p].step = "written" /\ op'[c].job[p].got = j.got
    BY <1>1, <2>2 DEF Job
  <2>4. f \in held[c][p]
    BY <1>1, <1>2, SyncedType DEF FileOK
  <2>5. JobOK(c, p, op[c].job[p])'
    BY <1>1, <1>2, <2>3, <2>4 DEF JobOK, TheirsBackup, IsVersion
  <2>. QED BY <2>1, <2>5, MoveStep, JobStepSound DEF TheirsBackup, Steps
<1>3. CASE f # log[j.got].content
  <2>. DEFINE b == backup[c][p]
  <2>0. b \in Backups
    BY DEF TypeOK
  <2>1. PICK n \in Backups : /\ Move(c, p, "overwrite")
                             /\ backup' = Set(backup, c, p, n)
                             /\ f \in Saved(n) \cup {Absent}
    <3>1. CASE f = Absent /\ UNCHANGED backup
      BY <1>3, <2>0, <3>1 DEF TheirsBackup, Set, TypeOK
    <3>2. CASE f # Absent /\ backup' = Set(backup, c, p, [older |-> Saved(b), last |-> f])
      <4>1. [older |-> Saved(b), last |-> f] \in Backups
        BY <1>1, <2>0 DEF Backups, Saved
      <4>. QED BY <1>3, <3>2, <4>1 DEF TheirsBackup, Saved
    <3>3. CASE f # Absent /\ backup' = Set(backup, c, p, [b EXCEPT !.last = f])
      <4>1. [b EXCEPT !.last = f] \in Backups /\ [b EXCEPT !.last = f].last = f
        BY <1>1, <2>0 DEF Backups
      <4>. QED BY <1>3, <3>3, <4>1 DEF TheirsBackup, Saved
    <3>. QED BY <1>3, <3>1, <3>2, <3>3 DEF TheirsBackup
  <2>2. /\ op' \in OpType
        /\ op'[c].job[p] = [j EXCEPT !.step = "overwrite"]
        /\ \A d \in Clones, q \in Pages : <<d, q>> # <<c, p>> => op'[d].job[q] = op[d].job[q]
    BY <2>1, MoveStep DEF Steps
  <2>3. /\ backup' \in [Clones -> [Pages -> Backups]]
        /\ f \in Saved(backup'[c][p]) \cup {Absent}
        /\ \A d \in Clones, q \in Pages : <<d, q>> # <<c, p>> => backup'[d][q] = backup[d][q]
    BY <2>1 DEF Set, TypeOK
  <2>4. op'[c].job[p].step = "overwrite" /\ op'[c].job[p].got = j.got
    BY <1>1, <2>2 DEF Job
  <2>5. TypeOK'
    BY <2>2, <2>3 DEF TypeOK, StoreTypeOK, OpType, TheirsBackup
  <2>6. Grows
    BY LenNat DEF Grows, TheirsBackup
  <2>7. JobOK(c, p, op[c].job[p])'
    BY <1>1, <2>3, <2>4 DEF JobOK, TheirsBackup, IsVersion
  <2>8. \A d \in Clones, q \in Pages : <<d, q>> # <<c, p>> => JobKept(d, q)
    BY <2>2, <2>3 DEF JobKept, TheirsBackup
  <2>. QED BY <2>5, <2>6, <2>7, <2>8 DEF Sound, TheirsBackup
<1>. QED BY <1>2, <1>3

-----------------------------------------------------------------------------
(* The steps of a clone on all pages.                                      *)

LEMMA IdleType == Idle \in [cmd : {"none", "pull", "push", "theirs"}, job : [Pages -> Job]]
BY NoJobType DEF Idle

LEMMA IdleStep ==
    ASSUME TypeOK, NEW c \in Clones, op' = [op EXCEPT ![c] = Idle]
    PROVE  /\ op' \in OpType
           /\ \A p \in Pages : op'[c].job[p] = NoJob
           /\ \A d \in Clones \ {c} : op'[d] = op[d]
<1>. HIDE DEF Idle
<1>1. op' \in OpType /\ op'[c] = Idle /\ \A d \in Clones \ {c} : op'[d] = op[d]
  BY IdleType DEF TypeOK, OpType
<1>. QED BY <1>1 DEF Idle

(* Saving true records is sound wherever the writes stop.                  *)
LEMMA SaveSound ==
    ASSUME IInv, NEW c \in Clones, NEW new \in [Pages -> Meta],
           NEW g \in BOOLEAN, NEW landing \in Landings(g),
           Save(c, new, landing),
           \A p \in Pages : RecordNext(c, p, new[p]),
           UNCHANGED <<log, tip, born, file, backup, late, held>>,
           told' \in [Clones -> [Pages -> SUBSET Sha]],
           \A d \in Clones, q \in Pages :
              /\ told[d][q] \subseteq told'[d][q]
              /\ \A s \in told'[d][q] : s \in told[d][q] \/ IsVersion(s, q)
    PROVE  TypeOK' /\ Sound
<1>. USE DEF IInv
<1>. DEFINE old == meta[c]
            l   == Landed(old, new, landing[1], landing[2])
<1>1. landing[1] \in SUBSET Pages /\ landing[2] \in SUBSET IndexFiles
  BY LandingType
<1>2. old \in [Pages -> Meta]
  BY DEF TypeOK
<1>3. l \in [Pages -> Meta]
  BY <1>2, LandedType
<1>4. /\ meta' \in [Clones -> [Pages -> Meta]]
      /\ meta'[c] = l
      /\ \A d \in Clones \ {c} : meta'[d] = meta[d]
  BY <1>3 DEF Save, TypeOK
<1>5. /\ op' \in OpType
      /\ \A p \in Pages : op'[c].job[p] = NoJob
      /\ \A d \in Clones \ {c} : op'[d] = op[d]
  BY IdleStep DEF Save
<1>6. TypeOK'
  BY <1>4, <1>5 DEF TypeOK, StoreTypeOK, OpType
<1>7. Grows
  BY LenNat DEF Grows
<1>8. \A p \in Pages : RecordNext(c, p, meta'[c][p])
  <2>. SUFFICES ASSUME NEW p \in Pages PROVE RecordNext(c, p, l[p])
    BY <1>4
  <2>1. RecordNext(c, p, old[p])
    BY <1>6, <1>7, RecordStays, TruthfulRecords
  <2>2. /\ l[p].sha \in {old[p].sha, new[p].sha}
        /\ \/ l[p].recSha = old[p].recSha /\ l[p].recHash = old[p].recHash
           \/ l[p].recSha = new[p].recSha /\ l[p].recHash = new[p].recHash
    BY <1>1, <1>2, LandedMix
  <2>3. RecordNext(c, p, new[p])
    OBVIOUS
  <2>. HIDE DEF l, old
  <2>. QED BY <2>1, <2>2, <2>3 DEF RecordNext
<1>9. \A d \in Clones, q \in Pages : JobKept(d, q) \/ op'[d].job[q] = NoJob
  BY <1>4, <1>5 DEF JobKept
<1>10. \A d \in Clones, q \in Pages : meta'[d][q] = meta[d][q] \/ RecordNext(d, q, meta'[d][q])
  BY <1>4, <1>8
<1>11. \A d \in Clones, q \in Pages : \A s \in told'[d][q] : s \in told[d][q] \/ IsVersion(s, q)'
  BY DEF IsVersion
<1>. QED BY <1>6, <1>7, <1>9, <1>10, <1>11 DEF Sound

(* What the user knows may be recorded as the base of a page.              *)
LEMMA KnownRecord ==
    ASSUME IInv, Grows, TypeOK', NEW c \in Clones, NEW p \in Pages, NEW s \in Known(c, p)
    PROVE  Synced(s) \in Meta /\ RecordNext(c, p, Synced(s))
BY SyncedOK, SyncedType, KnownVersion, RecordStays DEF IInv

(* A repair of a page rests on the version its sha names and on its base   *)
(* record.                                                                 *)
LEMMA DecideOK ==
    ASSUME IInv, NEW c \in Clones, NEW p \in Pages, Stale(meta[c][p])
    PROVE  /\ Decide(file[c][p], meta[c][p]) \in Meta
           /\ RecordOK(c, p, Decide(file[c][p], meta[c][p]))
<1>. USE DEF IInv
<1>. DEFINE f == file[c][p]
            m == meta[c][p]
            r == Decide(f, m)
            server == log[m.sha].content
<1>1. m \in Meta /\ RecordOK(c, p, m) /\ m.sha # 0
  BY JobType, TruthfulRecords DEF Stale
<1>2. m.sha \in Known(c, p)
  BY <1>1 DEF RecordOK
<1>3. Synced(m.sha) \in Meta /\ RecordOK(c, p, Synced(m.sha))
  BY <1>2, SyncedOK, SyncedType, KnownVersion
<1>4. CASE f = server
  <2>1. r = Synced(m.sha)
    BY <1>4 DEF Decide
  <2>. QED BY <1>3, <2>1
<1>5. CASE f # server /\ Verified(m)
  <2>1. r = [m EXCEPT !.sha = m.recSha,
                      !.side = IF f \in Contents /\ f # m.recHash /\ m.sha # m.recSha
                               THEN m.sha ELSE @]
    BY <1>5 DEF Decide
  <2>2. r \in Meta
    BY <1>1, <2>1 DEF Meta
  <2>3. r.sha = m.recSha /\ r.recSha = m.recSha /\ r.recHash = m.recHash
    BY <1>1, <2>1 DEF Meta
  <2>4. RecordOK(c, p, r)
    <3>. HIDE DEF r, m
    <3>. QED BY <1>1, <2>3 DEF RecordOK
  <2>. QED BY <2>2, <2>4
<1>6. CASE f # server /\ ~Verified(m)
  <2>1. r = [Synced(m.sha) EXCEPT !.side = m.side]
    BY <1>6 DEF Decide
  <2>2. r \in Meta
    BY <1>1, <1>3, <2>1 DEF Meta
  <2>3. /\ r.sha = Synced(m.sha).sha
        /\ r.recSha = Synced(m.sha).recSha
        /\ r.recHash = Synced(m.sha).recHash
    BY <1>3, <2>1 DEF Meta
  <2>4. RecordOK(c, p, r)
    <3>. HIDE DEF r, m
    <3>. QED BY <1>3, <2>3 DEF RecordOK
  <2>. QED BY <2>2, <2>4
<1>. QED BY <1>4, <1>5, <1>6

LEMMA RepairedOK ==
    ASSUME IInv, NEW c \in Clones, NEW fixed \in SUBSET Repairable(c)
    PROVE  /\ Repaired(c, fixed) \in [Pages -> Meta]
           /\ \A p \in Pages : RecordOK(c, p, Repaired(c, fixed)[p])
<1>1. \A p \in fixed : Stale(meta[c][p])
  BY DEF Repairable
<1>2. \A p \in Pages : meta[c][p] \in Meta /\ RecordOK(c, p, meta[c][p])
  BY JobType, TruthfulRecords DEF IInv
<1>. QED BY <1>1, <1>2, DecideOK DEF Repaired

LEMMA RepairSound ==
    ASSUME IInv, NEW c \in Clones, Repair(c) PROVE TypeOK' /\ Sound
<1>1. PICK fixed \in SUBSET Repairable(c) \ {{}}, landing \in Landings(FALSE) :
         Save(c, Repaired(c, fixed), landing)
  BY DEF Repair
<1>. DEFINE new == Repaired(c, fixed)
<1>2. new \in [Pages -> Meta] /\ \A p \in Pages : RecordOK(c, p, new[p])
  BY RepairedOK
<1>3. \A p \in Pages : RecordNext(c, p, new[p])
  BY <1>2 DEF RecordOK, RecordNext, Repair, Known
<1>. HIDE DEF new
<1>. QED BY <1>1, <1>2, <1>3, SaveSound DEF Repair, IInv, TypeOK, new

LEMMA PullFinishSound ==
    ASSUME IInv, NEW c \in Clones, PullFinish(c) PROVE TypeOK' /\ Sound
<1>. USE DEF IInv
<1>. DEFINE new == [p \in Pages |-> PullRecord(c, p)]
<1>1. PICK landing \in Landings(TRUE) : Save(c, new, landing)
  BY DEF PullFinish
<1>2. \A p \in Pages : PullRecord(c, p) \in Meta /\ RecordOK(c, p, PullRecord(c, p))
  <2>. SUFFICES ASSUME NEW p \in Pages
                PROVE  PullRecord(c, p) \in Meta /\ RecordOK(c, p, PullRecord(c, p))
    OBVIOUS
  <2>. DEFINE j == op[c].job[p]
              m == meta[c][p]
  <2>1. j \in Job /\ m \in Meta /\ JobOK(c, p, j) /\ RecordOK(c, p, m)
    BY JobType, TruthfulRecords DEF JobsOK
  <2>2. CASE j.step \in {"written", "adopt"}
    <3>1. IsVersion(j.got, p) /\ j.got \in Known(c, p)
      BY <2>1, <2>2 DEF JobOK, IsVersion, Known
    <3>2. PullRecord(c, p) = Synced(j.got)
      BY <2>2 DEF PullRecord
    <3>. QED BY <3>1, <3>2, SyncedOK, SyncedType
  <2>3. CASE j.step = "sidecar"
    <3>1. PullRecord(c, p) = [m EXCEPT !.side = j.got]
      BY <2>3 DEF PullRecord
    <3>. QED BY <2>1, <3>1 DEF Meta, Job, RecordOK
  <2>4. CASE j.step \notin {"written", "adopt", "sidecar"}
    <3>1. PullRecord(c, p) = m
      BY <2>4 DEF PullRecord
    <3>. QED BY <2>1, <3>1
  <2>. QED BY <2>2, <2>3, <2>4
<1>3. new \in [Pages -> Meta] /\ \A p \in Pages : RecordNext(c, p, new[p])
  BY <1>2 DEF RecordOK, RecordNext, PullFinish, Known
<1>. HIDE DEF new
<1>. QED BY <1>1, <1>3, SaveSound DEF PullFinish, TypeOK

LEMMA PushFinishSound ==
    ASSUME IInv, NEW c \in Clones, PushFinish(c) PROVE TypeOK' /\ Sound
<1>. USE DEF IInv
<1>. DEFINE new == [p \in Pages |-> PushRecord(c, p)]
<1>1. PICK landing \in Landings(TRUE) : Save(c, new, landing)
  BY DEF PushFinish
<1>2. \A p \in Pages : PushRecord(c, p) \in Meta /\ RecordOK(c, p, PushRecord(c, p))
  <2>. SUFFICES ASSUME NEW p \in Pages
                PROVE  PushRecord(c, p) \in Meta /\ RecordOK(c, p, PushRecord(c, p))
    OBVIOUS
  <2>. DEFINE j == op[c].job[p]
              m == meta[c][p]
  <2>1. j \in Job /\ m \in Meta /\ JobOK(c, p, j) /\ RecordOK(c, p, m)
    BY JobType, TruthfulRecords DEF JobsOK
  <2>2. CASE j.step = "pushed"
    <3>1. /\ IsVersion(j.got, p) /\ log[j.got].content = j.seen
          /\ j.seen \in Contents /\ j.got \in Known(c, p)
      BY <2>1, <2>2 DEF JobOK, IsVersion, Known
    <3>2. PushRecord(c, p) = [sha |-> j.got, recSha |-> j.got, recHash |-> j.seen,
                              base |-> j.seen, side |-> 0]
      BY <2>2 DEF PushRecord
    <3>3. PushRecord(c, p) \in Meta
      BY <2>1, <3>1, <3>2, MaxCommitsAssumption DEF Meta, Job, Sha
    <3>. QED BY <3>1, <3>2, <3>3 DEF RecordOK, IsVersion
  <2>3. CASE j.step = "sidecar"
    <3>1. PushRecord(c, p) = [m EXCEPT !.side = j.got]
      BY <2>3 DEF PushRecord
    <3>. QED BY <2>1, <3>1 DEF Meta, Job, RecordOK
  <2>4. CASE j.step \notin {"pushed", "sidecar"}
    <3>1. PushRecord(c, p) = m
      BY <2>4 DEF PushRecord
    <3>. QED BY <2>1, <3>1
  <2>. QED BY <2>2, <2>3, <2>4
<1>3. new \in [Pages -> Meta] /\ \A p \in Pages : RecordNext(c, p, new[p])
  BY <1>2 DEF RecordOK, RecordNext, PushFinish, Known
<1>. HIDE DEF new
<1>. QED BY <1>1, <1>3, SaveSound DEF PushFinish, TypeOK

LEMMA TheirsFinishSound ==
    ASSUME IInv, NEW c \in Clones, NEW p \in Pages, TheirsFinish(c, p) PROVE TypeOK' /\ Sound
<1>. USE DEF IInv
<1>. DEFINE j   == op[c].job[p]
            new == [meta[c] EXCEPT ![p] = Synced(j.got)]
<1>1. PICK landing \in Landings(FALSE) : Save(c, new, landing)
  BY DEF TheirsFinish
<1>2. IsVersion(j.got, p) /\ log[j.got].content \in held[c][p]
  BY DEF JobsOK, JobOK, TheirsFinish, At
<1>3. j.got \in Known(c, p)
  BY <1>2 DEF Known, IsVersion
<1>4. Synced(j.got) \in Meta /\ RecordOK(c, p, Synced(j.got))
  BY <1>2, <1>3, SyncedOK, SyncedType
<1>5. new \in [Pages -> Meta] /\ \A q \in Pages : RecordOK(c, q, new[q])
  BY <1>4, TruthfulRecords DEF TypeOK
<1>6. \A q \in Pages : RecordNext(c, q, new[q])
  BY <1>5 DEF RecordOK, RecordNext, TheirsFinish, Known
<1>. HIDE DEF new
<1>. QED BY <1>1, <1>5, <1>6, SaveSound DEF TheirsFinish, TypeOK

LEMMA ResolveOursSound ==
    ASSUME IInv, NEW c \in Clones, NEW p \in Pages, ResolveOurs(c, p) PROVE TypeOK' /\ Sound
<1>. USE DEF IInv
<1>. DEFINE t   == tip[p]
            new == [meta[c] EXCEPT ![p] = Synced(t)]
<1>1. PICK landing \in Landings(FALSE) : Save(c, new, landing)
  BY DEF ResolveOurs
<1>2. IsVersion(t, p)
  BY DEF ResolveOurs, TipOK
<1>3. Synced(t) \in Meta /\ t \in Sha
  BY <1>2, SyncedType
<1>4. /\ told' \in [Clones -> [Pages -> SUBSET Sha]]
      /\ told'[c][p] = told[c][p] \cup {t}
      /\ \A d \in Clones, q \in Pages : <<d, q>> # <<c, p>> => told'[d][q] = told[d][q]
  BY <1>3 DEF ResolveOurs, Set, TypeOK
<1>5. /\ new \in [Pages -> Meta]
      /\ \A q \in Pages : new[q] = IF q = p THEN Synced(t) ELSE meta[c][q]
  BY <1>3 DEF TypeOK
<1>6. \A q \in Pages : Known(c, q) \subseteq Known(c, q)'
  BY <1>4 DEF ResolveOurs, Known
<1>7. t \in Known(c, p)'
  BY <1>4 DEF Known
<1>8. \A q \in Pages : RecordNext(c, q, new[q])
  <2>. SUFFICES ASSUME NEW q \in Pages PROVE RecordNext(c, q, new[q])
    OBVIOUS
  <2>1. CASE q = p
    BY <1>2, <1>5, <1>7, <2>1 DEF RecordNext, Synced, ResolveOurs, IsVersion
  <2>2. CASE q # p
    BY <1>5, <1>6, <2>2, TruthfulRecords DEF RecordOK, RecordNext, ResolveOurs
  <2>. QED BY <2>1, <2>2
<1>9. \A d \in Clones, q \in Pages :
         /\ told[d][q] \subseteq told'[d][q]
         /\ \A s \in told'[d][q] : s \in told[d][q] \/ IsVersion(s, q)
  <2>. HIDE DEF t
  <2>. QED BY <1>2, <1>4
<1>10. UNCHANGED <<log, tip, born, file, backup, late, held>>
  BY DEF ResolveOurs
<1>. HIDE DEF new, t
<1>. QED BY <1>1, <1>4, <1>5, <1>8, <1>9, <1>10, SaveSound

(* A step that only changes the records of an idle clone.                  *)
LEMMA IdleRecordsSound ==
    ASSUME IInv, NEW c \in Clones, op[c] = Idle, NEW new \in [Pages -> Meta],
           meta' = [meta EXCEPT ![c] = new],
           \A p \in Pages : RecordOK(c, p, new[p]),
           UNCHANGED <<log, tip, born, file, backup, op, late, held, told>>
    PROVE  TypeOK' /\ Sound
<1>. USE DEF IInv
<1>1. /\ meta' \in [Clones -> [Pages -> Meta]]
      /\ meta'[c] = new
      /\ \A d \in Clones \ {c} : meta'[d] = meta[d]
  BY DEF TypeOK
<1>2. TypeOK'
  BY <1>1 DEF TypeOK, StoreTypeOK
<1>3. Grows
  BY LenNat DEF Grows
<1>4. \A d \in Clones, q \in Pages : meta'[d][q] = meta[d][q] \/ RecordNext(d, q, meta'[d][q])
  <2>. SUFFICES ASSUME NEW d \in Clones, NEW q \in Pages, d = c PROVE RecordNext(d, q, meta'[d][q])
    BY <1>1
  <2>. QED BY <1>1, <1>2, <1>3, RecordStays
<1>5. \A q \in Pages : op'[c].job[q] = NoJob
  BY DEF Idle
<1>6. \A d \in Clones, q \in Pages : JobKept(d, q) \/ op'[d].job[q] = NoJob
  BY <1>1, <1>5 DEF JobKept
<1>. QED BY <1>2, <1>3, <1>4, <1>6 DEF Sound

LEMMA ResolveDropSound ==
    ASSUME IInv, NEW c \in Clones, NEW p \in Pages, ResolveDrop(c, p) PROVE TypeOK' /\ Sound
<1>. USE DEF IInv
<1>. DEFINE m   == [meta[c][p] EXCEPT !.side = 0]
            new == [meta[c] EXCEPT ![p] = m]
<1>1. \A q \in Pages : meta[c][q] \in Meta /\ RecordOK(c, q, meta[c][q])
  BY JobType, TruthfulRecords
<1>2. m \in Meta
  BY <1>1, MaxCommitsAssumption DEF Meta, Sha
<1>3. RecordOK(c, p, m)
  <2>1. m.sha = meta[c][p].sha /\ m.recSha = meta[c][p].recSha /\ m.recHash = meta[c][p].recHash
    BY <1>1 DEF Meta
  <2>. HIDE DEF m
  <2>. QED BY <1>1, <2>1 DEF RecordOK
<1>4. new \in [Pages -> Meta] /\ \A q \in Pages : RecordOK(c, q, new[q])
  <2>. HIDE DEF m
  <2>. QED BY <1>1, <1>2, <1>3 DEF TypeOK
<1>5. meta' = [meta EXCEPT ![c] = new]
  BY DEF ResolveDrop
<1>. HIDE DEF new
<1>. QED BY <1>4, <1>5, IdleRecordsSound DEF ResolveDrop

(* What an index file loses was not needed for the rest to be true.        *)
Without(m, lost) == CASE lost = "state"     -> [m EXCEPT !.sha = 0]
                      [] lost = "bases"     -> [m EXCEPT !.recSha = 0, !.recHash = Absent]
                      [] lost = "conflicts" -> [m EXCEPT !.side = 0]

LEMMA WithoutOK ==
    ASSUME NEW c \in Clones, NEW p \in Pages, NEW m \in Meta, RecordOK(c, p, m),
           NEW lost \in {"state", "bases", "conflicts"}
    PROVE  Without(m, lost) \in Meta /\ RecordOK(c, p, Without(m, lost))
<1>. DEFINE w == Without(m, lost)
<1>1. w \in Meta
  <2>1. 0 \in Sha
    BY MaxCommitsAssumption DEF Sha
  <2>2. CASE lost = "state"
    <3>1. w = [m EXCEPT !.sha = 0]
      BY <2>2 DEF Without
    <3>. QED BY <2>1, <3>1 DEF Meta
  <2>3. CASE lost = "bases"
    <3>1. w = [m EXCEPT !.recSha = 0, !.recHash = Absent]
      BY <2>3 DEF Without
    <3>. QED BY <2>1, <3>1 DEF Meta
  <2>4. CASE lost = "conflicts"
    <3>1. w = [m EXCEPT !.side = 0]
      BY <2>4 DEF Without
    <3>. QED BY <2>1, <3>1 DEF Meta
  <2>. QED BY <2>2, <2>3, <2>4
<1>2. /\ w.sha \in {0, m.sha}
      /\ w.recSha = 0 \/ (w.recSha = m.recSha /\ w.recHash = m.recHash)
  BY DEF Without, Meta
<1>. HIDE DEF w
<1>3. RecordOK(c, p, w)
  BY <1>2 DEF RecordOK
<1>. QED BY <1>1, <1>3 DEF w

LEMMA DamageSound ==
    ASSUME IInv, NEW c \in Clones, Damage(c) PROVE TypeOK' /\ Sound
<1>. USE DEF IInv
<1>1. \A p \in Pages : meta[c][p] \in Meta /\ RecordOK(c, p, meta[c][p])
  BY JobType, TruthfulRecords
<1>2. ASSUME NEW lost \in {"state", "bases", "conflicts"},
             meta' = [meta EXCEPT ![c] = [p \in Pages |-> Without(meta[c][p], lost)]]
      PROVE  TypeOK' /\ Sound
  <2>. DEFINE new == [p \in Pages |-> Without(meta[c][p], lost)]
  <2>1. new \in [Pages -> Meta] /\ \A q \in Pages : RecordOK(c, q, new[q])
    BY <1>1, WithoutOK
  <2>. HIDE DEF new
  <2>. QED BY <1>2, <2>1, IdleRecordsSound DEF Damage, new
<1>3. ASSUME NEW p \in Pages, NEW b \in Contents \cup {Absent}, meta' = [meta EXCEPT ![c][p].base = b]
      PROVE  TypeOK' /\ Sound
  <2>. DEFINE m   == [meta[c][p] EXCEPT !.base = b]
              new == [meta[c] EXCEPT ![p] = m]
  <2>1. m \in Meta
    BY <1>1 DEF Meta
  <2>2. RecordOK(c, p, m)
    <3>1. m.sha = meta[c][p].sha /\ m.recSha = meta[c][p].recSha /\ m.recHash = meta[c][p].recHash
      BY <1>1 DEF Meta
    <3>. HIDE DEF m
    <3>. QED BY <1>1, <3>1 DEF RecordOK
  <2>3. new \in [Pages -> Meta] /\ \A q \in Pages : RecordOK(c, q, new[q])
    <3>. HIDE DEF m
    <3>. QED BY <1>1, <2>1, <2>2 DEF TypeOK
  <2>4. meta' = [meta EXCEPT ![c] = new]
    BY <1>3
  <2>. HIDE DEF new
  <2>. QED BY <2>3, <2>4, IdleRecordsSound DEF Damage
<1>4. \/ \E lost \in {"state", "bases", "conflicts"} :
            meta' = [meta EXCEPT ![c] = [p \in Pages |-> Without(meta[c][p], lost)]]
      \/ \E p \in Pages, b \in Contents \cup {Absent} : meta' = [meta EXCEPT ![c][p].base = b]
  BY DEF Damage, TypeOK, Without
<1>. QED BY <1>2, <1>3, <1>4

(* An operation of an idle clone begins: it repairs records and marks the  *)
(* pages it has to deal with.                                              *)
LEMMA BeginSound ==
    ASSUME IInv, NEW c \in Clones, NEW new \in [Pages -> Meta],
           NEW o \in [cmd : {"none", "pull", "push", "theirs"}, job : [Pages -> Job]],
           meta' = [meta EXCEPT ![c] = new],
           op' = [op EXCEPT ![c] = o],
           \A p \in Pages : RecordOK(c, p, new[p]),
           \A p \in Pages : op'[c].job[p] = NoJob \/ JobOK(c, p, op[c].job[p])',
           UNCHANGED <<log, tip, born, file, backup, late, held, told>>
    PROVE  TypeOK' /\ Sound
<1>. USE DEF IInv
<1>1. /\ meta' \in [Clones -> [Pages -> Meta]]
      /\ meta'[c] = new
      /\ \A d \in Clones \ {c} : meta'[d] = meta[d]
  BY DEF TypeOK
<1>2. op' \in OpType /\ \A d \in Clones \ {c} : op'[d] = op[d]
  BY DEF TypeOK, OpType
<1>3. TypeOK'
  BY <1>1, <1>2 DEF TypeOK, StoreTypeOK, OpType
<1>4. Grows
  BY LenNat DEF Grows
<1>5. \A d \in Clones, q \in Pages : meta'[d][q] = meta[d][q] \/ RecordNext(d, q, meta'[d][q])
  <2>. SUFFICES ASSUME NEW d \in Clones, NEW q \in Pages, d = c PROVE RecordNext(d, q, meta'[d][q])
    BY <1>1
  <2>. QED BY <1>1, <1>3, <1>4, RecordStays
<1>6. \A d \in Clones, q \in Pages :
         JobKept(d, q) \/ op'[d].job[q] = NoJob \/ JobOK(d, q, op[d].job[q])'
  BY <1>1, <1>2 DEF JobKept
<1>. QED BY <1>3, <1>4, <1>5, <1>6 DEF Sound

LEMMA PullBeginSound ==
    ASSUME IInv, NEW c \in Clones, PullBegin(c) PROVE TypeOK' /\ Sound
<1>. USE DEF IInv
<1>. DEFINE m(fixed) == Repaired(c, fixed)
            state(fixed, p) == State(file[c][p], m(fixed)[p], tip[p])
            job(fixed, p) == [state |-> state(fixed, p), seen |-> file[c][p], got |-> 0, step |-> "need"]
            o(fixed) == [cmd |-> "pull",
                         job |-> [p \in Pages |-> IF state(fixed, p) \in Needed THEN job(fixed, p) ELSE NoJob]]
<1>1. PICK fixed \in SUBSET Repairable(c) :
         /\ meta' = [meta EXCEPT ![c] = m(fixed)]
         /\ op' = [op EXCEPT ![c] = o(fixed)]
  BY DEF PullBegin
<1>2. m(fixed) \in [Pages -> Meta] /\ \A p \in Pages : RecordOK(c, p, m(fixed)[p])
  BY RepairedOK
<1>3. \A p \in Pages : state(fixed, p) \in PageStates \cup {NoEntry}
  BY <1>2, JobType, StateKind
<1>4. \A p \in Pages : job(fixed, p) \in Job
  BY <1>3, JobType, MaxCommitsAssumption DEF Job, Steps, Sha
<1>5. o(fixed) \in [cmd : {"none", "pull", "push", "theirs"}, job : [Pages -> Job]]
  BY <1>4, NoJobType
<1>6. op'[c] = o(fixed) /\ meta'[c] = m(fixed)
  BY <1>1 DEF TypeOK
<1>7. \A p \in Pages : op'[c].job[p] = NoJob \/ JobOK(c, p, op[c].job[p])'
  <2>. SUFFICES ASSUME NEW p \in Pages, op'[c].job[p] # NoJob PROVE JobOK(c, p, op[c].job[p])'
    OBVIOUS
  <2>1. op'[c].job[p] = job(fixed, p) /\ state(fixed, p) \in Needed
    BY <1>6
  <2>2. state(fixed, p) = "incoming" => m(fixed)[p].recSha # 0
    BY <1>2, JobType, ValidBase
  <2>. HIDE DEF m, state
  <2>3. meta'[c][p].recSha = m(fixed)[p].recSha
    BY <1>6
  <2>. QED BY <2>1, <2>2, <2>3 DEF JobOK
<1>. HIDE DEF m, o
<1>. QED BY <1>1, <1>2, <1>5, <1>7, BeginSound DEF PullBegin

LEMMA PushBeginSound ==
    ASSUME IInv, NEW c \in Clones, PushBegin(c) PROVE TypeOK' /\ Sound
<1>. USE DEF IInv
<1>. DEFINE m(fixed) == Repaired(c, fixed)
            state(fixed, p) == State(file[c][p], m(fixed)[p], tip[p])
            note(fixed, again, p) ==
                /\ RawState(file[c][p], m(fixed)[p], tip[p]) = "conflict"
                /\ m(fixed)[p].side # tip[p] \/ p \in again
            send(fixed, p) == [state |-> state(fixed, p), seen |-> file[c][p], got |-> 0, step |-> "send"]
            side(fixed, p) == [state |-> state(fixed, p), seen |-> file[c][p], got |-> tip[p], step |-> "note"]
            job(fixed, sel, again, p) ==
                CASE p \in sel /\ state(fixed, p) \in Sendable -> send(fixed, p)
                  [] p \in sel /\ note(fixed, again, p) -> side(fixed, p)
                  [] OTHER -> NoJob
            o(fixed, sel, again) == [cmd |-> "push", job |-> [p \in Pages |-> job(fixed, sel, again, p)]]
<1>1. PICK fixed \in SUBSET Repairable(c), sel \in SUBSET Pages \ {{}}, again \in SUBSET Pages :
         /\ meta' = [meta EXCEPT ![c] = m(fixed)]
         /\ op' = [op EXCEPT ![c] = o(fixed, sel, again)]
  BY DEF PushBegin
<1>2. m(fixed) \in [Pages -> Meta] /\ \A p \in Pages : RecordOK(c, p, m(fixed)[p])
  BY RepairedOK
<1>3. \A p \in Pages : state(fixed, p) \in PageStates \cup {NoEntry}
  BY <1>2, JobType, StateKind
<1>4. \A p \in Pages : send(fixed, p) \in Job /\ side(fixed, p) \in Job
  BY <1>3, JobType, MaxCommitsAssumption DEF Job, Steps, Sha
<1>5. \A p \in Pages :
         \/ job(fixed, sel, again, p) = send(fixed, p) /\ state(fixed, p) \in Sendable
         \/ job(fixed, sel, again, p) = side(fixed, p)
         \/ job(fixed, sel, again, p) = NoJob
  <2>. HIDE DEF send, side, note, state
  <2>. QED OBVIOUS
<1>. HIDE DEF job
<1>6. o(fixed, sel, again) \in [cmd : {"none", "pull", "push", "theirs"}, job : [Pages -> Job]]
  BY <1>4, <1>5, NoJobType
<1>7. op'[c] = o(fixed, sel, again)
  BY <1>1 DEF TypeOK
<1>8. \A p \in Pages : op'[c].job[p] = NoJob \/ JobOK(c, p, op[c].job[p])'
  <2>. SUFFICES ASSUME NEW p \in Pages, op'[c].job[p] # NoJob PROVE JobOK(c, p, op[c].job[p])'
    OBVIOUS
  <2>1. \/ op'[c].job[p] = send(fixed, p) /\ state(fixed, p) \in Sendable
        \/ op'[c].job[p] = side(fixed, p)
    BY <1>5, <1>7
  <2>2. state(fixed, p) \in Sendable => file[c][p] \in Contents
    BY <1>2, JobType, ValidFile DEF Sendable
  <2>3. state(fixed, p) \in Sendable => file[c][p] \in Contents \cap held'[c][p]
    BY <2>2 DEF FileOK, PushBegin
  <2>. HIDE DEF m, state
  <2>. QED BY <2>1, <2>3 DEF JobOK
<1>. HIDE DEF m, o
<1>. QED BY <1>1, <1>2, <1>6, <1>8, BeginSound DEF PushBegin

LEMMA TheirsBeginSound ==
    ASSUME IInv, NEW c \in Clones, NEW p \in Pages, TheirsBegin(c, p) PROVE TypeOK' /\ Sound
<1>. USE DEF IInv
<1>. DEFINE j == [NoJob EXCEPT !.got = tip[p], !.step = "theirs"]
            o == [cmd |-> "theirs", job |-> [Idle.job EXCEPT ![p] = j]]
<1>1. op' = [op EXCEPT ![c] = o]
  BY DEF TheirsBegin
<1>2. IsVersion(tip[p], p) /\ tip[p] \in Sha
  BY JobType DEF TheirsBegin, TipOK
<1>3. j \in Job /\ j.step = "theirs" /\ j.got = tip[p]
  BY <1>2, NoJobType DEF NoJob, Job, Steps
<1>4. o \in [cmd : {"none", "pull", "push", "theirs"}, job : [Pages -> Job]]
  BY <1>3, IdleType DEF Idle
<1>5. \A q \in Pages : o.job[q] = IF q = p THEN j ELSE NoJob
  <2>. HIDE DEF j
  <2>. QED BY DEF Idle
<1>6. op'[c] = o
  BY <1>1 DEF TypeOK
<1>. HIDE DEF o, j
<1>7. \A q \in Pages : op'[c].job[q] = NoJob \/ JobOK(c, q, op[c].job[q])'
  BY <1>2, <1>3, <1>5, <1>6 DEF JobOK, IsVersion, TheirsBegin
<1>8. meta' = [meta EXCEPT ![c] = meta[c]] /\ meta[c] \in [Pages -> Meta]
  BY DEF TheirsBegin, TypeOK
<1>. QED BY <1>1, <1>4, <1>7, <1>8, BeginSound, TruthfulRecords DEF TheirsBegin

LEMMA PullWriteFailsSound ==
    ASSUME IInv, NEW c \in Clones, PullWriteFails(c) PROVE TypeOK' /\ Sound
<1>. USE DEF IInv
<1>1. /\ op' \in OpType
      /\ \A d \in Clones, q \in Pages : op'[d].job[q] = op[d].job[q] \/ op'[d].job[q] = NoJob
  BY NoJobType DEF PullWriteFails, TypeOK, OpType
<1>2. TypeOK'
  BY <1>1 DEF TypeOK, StoreTypeOK, OpType, PullWriteFails
<1>. QED BY <1>1, <1>2, LenNat DEF Sound, Grows, JobKept, PullWriteFails

LEMMA GiveUpSound ==
    ASSUME IInv, NEW c \in Clones, GiveUp(c) PROVE TypeOK' /\ Sound
<1>. USE DEF IInv
<1>1. PICK rest \in SUBSET {p \in Pages : At(c, p, "send")} :
         late' = late \cup {ItemOf(c, p) : p \in rest}
  BY DEF GiveUp
<1>2. \A p \in rest : ItemOf(c, p) \in Item /\ RequestOK(ItemOf(c, p))
  <2>. SUFFICES ASSUME NEW p \in rest PROVE ItemOf(c, p) \in Item /\ RequestOK(ItemOf(c, p))
    OBVIOUS
  <2>. DEFINE j == op[c].job[p]
              m == meta[c][p]
  <2>1. p \in Pages /\ j \in Job /\ m \in Meta /\ JobOK(c, p, j) /\ j.step = "send" /\ RecordOK(c, p, m)
    BY JobType, TruthfulRecords DEF JobsOK, At
  <2>2. j.seen \in Contents \cap held[c][p]
    BY <2>1 DEF JobOK
  <2>3. m.sha \in Sha /\ (m.sha # 0 => m.sha \in Known(c, p))
    BY <2>1 DEF Meta, RecordOK
  <2>4. ItemOf(c, p) \in Item
    BY <2>1, <2>2, <2>3 DEF ItemOf, Item
  <2>. QED BY <2>2, <2>3, <2>4 DEF ItemOf, RequestOK
<1>3. op' \in OpType /\ \A d \in Clones, q \in Pages : op'[d].job[q] = op[d].job[q] \/ op'[d].job[q] = NoJob
  BY IdleStep DEF GiveUp
<1>4. TypeOK'
  <2>1. late' \in SUBSET Item
    BY <1>1, <1>2 DEF TypeOK
  <2>. QED BY <1>3, <2>1 DEF TypeOK, StoreTypeOK, OpType, GiveUp
<1>5. \A it \in late' : it \in late \/ RequestOK(it)'
  BY <1>1, <1>2 DEF RequestOK, Known, GiveUp
<1>. QED BY <1>3, <1>4, <1>5, LenNat DEF Sound, Grows, JobKept, GiveUp

-----------------------------------------------------------------------------
(* The theorems.                                                           *)

(* Initially nothing is recorded, under way or known. *)
LEMMA InitInv == ASSUME Init PROVE IInv
<1>. USE DEF Init, StoreInit
<1>1. TypeOK
  BY IdleType, MaxCommitsAssumption
     DEF TypeOK, StoreTypeOK, Sha, Commit, Files, Meta, NoMeta, Backups
<1>2. TipOK /\ ToldOK /\ LateOK
  BY DEF TipOK, ToldOK, LateOK
<1>3. FileOK /\ BaseTruthful
  BY AbsentAssumption DEF FileOK, BaseTruthful, NoMeta
<1>4. JobsOK
  <2>. SUFFICES ASSUME NEW c \in Clones, NEW p \in Pages PROVE JobOK(c, p, op[c].job[p])
    BY DEF JobsOK
  <2>. QED BY NoJobOK DEF Idle
<1>. QED BY <1>1, <1>2, <1>3, <1>4 DEF IInv

(* Every action keeps the types, adds to the histories and puts nothing    *)
(* wrong into the state.                                                   *)
LEMMA NextSound ==
    ASSUME IInv, Next PROVE TypeOK' /\ Sound
<1>1. ASSUME NEW c \in Clones, NEW p \in Pages,
             \/ Edit(c, p)
             \/ PullFetch(c, p) \/ PullApply(c, p) \/ PullWrite(c, p)
             \/ PushServe(c, p) \/ PushNote(c, p)
             \/ ResolveOurs(c, p) \/ ResolveDrop(c, p)
             \/ TheirsBegin(c, p) \/ TheirsBackup(c, p) \/ TheirsWrite(c, p) \/ TheirsFinish(c, p)
      PROVE  TypeOK' /\ Sound
  BY <1>1, EditSound, PullFetchSound, PullApplySound, PullWriteSound, PushServeSound,
     PushNoteSound, ResolveOursSound, ResolveDropSound, TheirsBeginSound,
     TheirsBackupSound, TheirsWriteSound, TheirsFinishSound
<1>2. ASSUME NEW c \in Clones,
             \/ Repair(c) \/ PullBegin(c) \/ PullWriteFails(c) \/ PullFinish(c)
             \/ PushBegin(c) \/ PushFinish(c) \/ GiveUp(c) \/ Damage(c)
      PROVE  TypeOK' /\ Sound
  BY <1>2, RepairSound, PullBeginSound, PullWriteFailsSound, PullFinishSound,
     PushBeginSound, PushFinishSound, GiveUpSound, DamageSound
<1>3. LateWrite \/ PeerWrite \/ Wipe => TypeOK' /\ Sound
  BY LateWriteSound, PeerWriteSound, WipeSound
<1>. QED BY <1>1, <1>2, <1>3 DEF Next

LEMMA StutterInv == ASSUME IInv, UNCHANGED vars PROVE IInv'
<1>. USE DEF IInv, vars
<1>1. TypeOK'
  BY DEF TypeOK, StoreTypeOK
<1>2. Sound
  BY LenNat DEF Sound, Grows, JobKept
<1>. QED BY <1>1, <1>2, SoundStep

(* IInv holds throughout: whatever the clones, peers, users and faults do, *)
(* in any order.                                                           *)
THEOREM Invariance == Spec => []IInv
<1>1. Init => IInv
  BY InitInv
<1>2. IInv /\ [Next]_vars => IInv'
  BY NextSound, SoundStep, StutterInv
<1>. QED BY <1>1, <1>2, PTL DEF Spec

(* Every variable keeps its type. *)
THEOREM TypeCorrectness == Spec => []TypeOK
<1>1. IInv => TypeOK
  BY DEF IInv
<1>. QED BY <1>1, Invariance, PTL

(* Records of bases, after any crash, failed write, repair or lost file,   *)
(* say what the server held, and name versions the user knows.             *)
THEOREM RecordsAreTruthful == Spec => []BaseTruthful
<1>1. IInv => BaseTruthful
  BY DEF IInv
<1>. QED BY <1>1, Invariance, PTL

(* A page that status calls unchanged is what the server holds. *)
THEOREM UnchangedPagesAreEqual == Spec => []UnchangedIsEqual
<1>1. IInv => UnchangedIsEqual
  <2>. SUFFICES ASSUME IInv, NEW c \in Clones, NEW p \in Pages, tip[p] # 0,
                       State(file[c][p], meta[c][p], tip[p]) = "unchanged"
                PROVE  file[c][p] = log[tip[p]].content
    BY DEF UnchangedIsEqual
  <2>1. /\ meta[c][p].recSha = tip[p]
        /\ meta[c][p].recHash = file[c][p]
    BY JobType, UnchangedBase, ValidBase DEF IInv
  <2>. QED BY <2>1 DEF IInv, BaseTruthful
<1>. QED BY <1>1, Invariance, PTL

-----------------------------------------------------------------------------
(* What reaches the server.                                                *)

(* The server's pages change by a peer's write, by a request of a clone    *)
(* that satisfies RequestOK, or by the operator's hand.                    *)
LEMMA WhoWrites ==
    ASSUME IInv, Next
    PROVE  \/ \E it \in Item : StoreWrite(it) /\ (it.by \in Peers \/ RequestOK(it))
           \/ Wipe
           \/ UNCHANGED <<log, tip>>
<1>. USE DEF IInv
<1>1. ASSUME PeerWrite
      PROVE  \E it \in Item : StoreWrite(it) /\ it.by \in Peers
  <2>1. PICK w \in Peers, p \in Pages, d \in Contents : StorePeerWrite(w, p, d)
    BY <1>1 DEF PeerWrite
  <2>. DEFINE it == [by |-> w, page |-> p, content |-> d, parent |-> 0, absent |-> FALSE]
  <2>2. it \in Item /\ StoreWrite(it) /\ it.by \in Peers
    BY <2>1, MaxCommitsAssumption DEF Item, Sha, StorePeerWrite
  <2>. QED BY <2>2
<1>2. LateWrite => \E it \in Item : StoreWrite(it) /\ RequestOK(it)
  BY DEF LateWrite, TypeOK, LateOK
<1>3. ASSUME NEW c \in Clones, NEW p \in Pages, PushServe(c, p)
      PROVE  \E it \in Item : StoreWrite(it) /\ RequestOK(it)
  <2>. DEFINE j == op[c].job[p]
              m == meta[c][p]
              it == ItemOf(c, p)
  <2>1. j \in Job /\ m \in Meta /\ JobOK(c, p, j) /\ j.step = "send" /\ RecordOK(c, p, m)
    BY <1>3, JobType, TruthfulRecords DEF JobsOK, PushServe, At
  <2>2. j.seen \in Contents \cap held[c][p]
    BY <2>1 DEF JobOK
  <2>3. m.sha \in Sha /\ (m.sha # 0 => m.sha \in Known(c, p))
    BY <2>1 DEF Meta, RecordOK
  <2>4. it \in Item /\ RequestOK(it)
    BY <2>2, <2>3 DEF ItemOf, Item, RequestOK
  <2>5. StoreWrite(it)
    BY <1>3 DEF PushServe
  <2>. QED BY <2>4, <2>5
<1>4. ASSUME NEW c \in Clones, NEW p \in Pages,
             \/ Edit(c, p)
             \/ PullFetch(c, p) \/ PullApply(c, p) \/ PullWrite(c, p)
             \/ PushNote(c, p)
             \/ ResolveOurs(c, p) \/ ResolveDrop(c, p)
             \/ TheirsBegin(c, p) \/ TheirsBackup(c, p) \/ TheirsWrite(c, p) \/ TheirsFinish(c, p)
      PROVE  UNCHANGED <<log, tip>>
  BY <1>4 DEF Edit, PullFetch, PullApply, PullWrite, PushNote, ResolveOurs, ResolveDrop,
     TheirsBegin, TheirsBackup, TheirsWrite, TheirsFinish
<1>5. ASSUME NEW c \in Clones,
             \/ Repair(c) \/ PullBegin(c) \/ PullWriteFails(c) \/ PullFinish(c)
             \/ PushBegin(c) \/ PushFinish(c) \/ GiveUp(c) \/ Damage(c)
      PROVE  UNCHANGED <<log, tip>>
  BY <1>5 DEF Repair, PullBegin, PullWriteFails, PullFinish, PushBegin, PushFinish, GiveUp, Damage
<1>. QED BY <1>1, <1>2, <1>3, <1>4, <1>5 DEF Next

(* A request of a clone is accepted only over a version its user knows.    *)
LEMMA WriterKnows ==
    ASSUME NEW it \in Item, StoreWrite(it), it.by \in Peers \/ RequestOK(it)
    PROVE  \/ UNCHANGED <<log, tip>>
           \/ /\ log' = Append(log, [page |-> it.page, content |-> it.content, by |-> it.by])
              /\ tip' = [tip EXCEPT ![it.page] = Len(log) + 1]
              /\ it.by \in Clones /\ tip[it.page] # 0 => tip[it.page] \in Known(it.by, it.page)
<1>. SUFFICES ASSUME ~Refused(it), it.by \in Clones, tip[it.page] # 0
              PROVE  tip[it.page] \in Known(it.by, it.page)
  BY DEF StoreWrite
<1>1. RequestOK(it)
  BY PeersAssumption
<1>2. ~it.absent /\ it.parent # 0 /\ it.parent = tip[it.page]
  BY <1>1 DEF Refused, RequestOK, Item
<1>. QED BY <1>1, <1>2 DEF RequestOK

(* No push of a clone replaces a version of a page its user has neither    *)
(* had on disk nor resolved against, however many requests were abandoned, *)
(* whatever was cut short, lost or repaired, and even if the repository    *)
(* was re-created.                                                         *)
THEOREM NoUpdateIsLost == Spec => NoLostUpdate
<1>. DEFINE A == Len(log') > Len(log) =>
                   LET new == log'[Len(log')]
                   IN  new.by \in Clones /\ tip[new.page] # 0 =>
                          tip[new.page] \in Known(new.by, new.page)
<1>1. IInv /\ [Next]_vars => [A]_vars
  <2>. SUFFICES ASSUME IInv, Next, Len(log') > Len(log)
                PROVE  LET new == log'[Len(log')]
                       IN  new.by \in Clones /\ tip[new.page] # 0 =>
                              tip[new.page] \in Known(new.by, new.page)
    OBVIOUS
  <2>1. log' # log
    BY LenNat DEF IInv
  <2>2. PICK it \in Item : StoreWrite(it) /\ (it.by \in Peers \/ RequestOK(it))
    BY <2>1, WhoWrites DEF Wipe, StoreWipe
  <2>. DEFINE new == [page |-> it.page, content |-> it.content, by |-> it.by]
  <2>3. /\ log' = Append(log, new)
        /\ it.by \in Clones /\ tip[it.page] # 0 => tip[it.page] \in Known(it.by, it.page)
    BY <2>1, <2>2, WriterKnows
  <2>4. new \in Commit
    BY DEF Item, Commit
  <2>5. log'[Len(log')] = new
    BY <2>3, <2>4 DEF IInv, TypeOK, StoreTypeOK
  <2>. QED BY <2>3, <2>5
<1>2. Spec => [][A]_vars
  BY <1>1, Invariance, PTL DEF Spec
<1>. QED BY <1>2 DEF NoLostUpdate

-----------------------------------------------------------------------------
(* What reaches the working files.                                         *)

(* Of the operations only the two renames change a file, their own page's. *)
LEMMA WhoReplaces ==
    ASSUME IInv, Next, NEW c \in Clones, NEW p \in Pages,
           file'[c][p] # file[c][p], op' # op
    PROVE  PullWrite(c, p) \/ TheirsWrite(c, p)
<1>. USE DEF IInv
<1>1. ASSUME NEW d \in Clones, NEW q \in Pages, PullWrite(d, q) \/ TheirsWrite(d, q)
      PROVE  d = c /\ q = p
  BY <1>1 DEF PullWrite, TheirsWrite, PutFile, Set, TypeOK
<1>2. ASSUME NEW d \in Clones, NEW q \in Pages,
             \/ Edit(d, q)
             \/ PullFetch(d, q) \/ PullApply(d, q)
             \/ PushServe(d, q) \/ PushNote(d, q)
             \/ ResolveOurs(d, q) \/ ResolveDrop(d, q)
             \/ TheirsBegin(d, q) \/ TheirsBackup(d, q) \/ TheirsFinish(d, q)
      PROVE  FALSE
  BY <1>2 DEF Edit, PullFetch, PullApply, PushServe, PushNote, ResolveOurs, ResolveDrop,
     TheirsBegin, TheirsBackup, TheirsFinish
<1>3. ASSUME NEW d \in Clones,
             \/ Repair(d) \/ PullBegin(d) \/ PullWriteFails(d) \/ PullFinish(d)
             \/ PushBegin(d) \/ PushFinish(d) \/ GiveUp(d) \/ Damage(d)
      PROVE  FALSE
  BY <1>3 DEF Repair, PullBegin, PullWriteFails, PullFinish, PushBegin, PushFinish, GiveUp, Damage
<1>4. ~(LateWrite \/ PeerWrite \/ Wipe)
  BY DEF LateWrite, PeerWrite, Wipe
<1>. QED BY <1>1, <1>2, <1>3, <1>4 DEF Next

(* If no edit lands between a re-check and its rename, no operation        *)
(* destroys work that is neither published nor backed up.                  *)
THEOREM NoEditIsLost ==
    ASSUME "window" \notin Faults
    PROVE  Spec => NoLocalEditLost
<1>. DEFINE A == \A c \in Clones, p \in Pages :
                    file'[c][p] # file[c][p] /\ op' # op =>
                       file[c][p] \in Published(p) \cup Saved(backup'[c][p]) \cup {Absent}
<1>1. IInv /\ [Next]_vars => [A]_vars
  <2>. SUFFICES ASSUME IInv, Next, NEW c \in Clones, NEW p \in Pages,
                       file'[c][p] # file[c][p], op' # op
                PROVE  file[c][p] \in Published(p) \cup Saved(backup'[c][p]) \cup {Absent}
    OBVIOUS
  <2>1. PullWrite(c, p) \/ TheirsWrite(c, p)
    BY WhoReplaces
  <2>2. JobOK(c, p, op[c].job[p])
    BY DEF IInv, JobsOK
  <2>. QED BY <2>1, <2>2 DEF JobOK, PullWrite, TheirsWrite, At
<1>2. Spec => [][A]_vars
  BY <1>1, Invariance, PTL DEF Spec
<1>. QED BY <1>2 DEF NoLocalEditLost

-----------------------------------------------------------------------------
(* The refinement.                                                         *)

LEMMA LearnStep ==
    ASSUME TypeOK, TypeOK', ToldOK, ToldOK', Grows PROVE Shared!Learn
<1>. SUFFICES ASSUME NEW c \in Clones, NEW p \in Pages
              PROVE  /\ Known(c, p) \subseteq Known(c, p)'
                     /\ Known(c, p)' \subseteq Shared!Versions(log', p)
  BY DEF Shared!Learn
<1>1. Known(c, p) \subseteq Known(c, p)'
  BY KnownStays
<1>2. Known(c, p)' \subseteq Shared!Versions(log', p)
  BY DEF Known, ToldOK, IsVersion, Shared!Versions
<1>. QED BY <1>1, <1>2

(* Clones, peers and the operator together implement SharedPages: every    *)
(* step of theirs is a publication by a writer who knows what is replaced, *)
(* a deletion of the repository, or only adds to what users know.          *)
THEOREM SharedRefinement == Spec => SharedSpec
<1>1. Init => Shared!SharedInit
  BY DEF Init, StoreInit, Shared!SharedInit, Known
<1>2. IInv /\ IInv' /\ [Next]_vars => [Shared!SharedNext]_(Shared!sharedVars)
  <2>1. ASSUME UNCHANGED vars PROVE UNCHANGED Shared!sharedVars
    BY <2>1 DEF vars, Shared!sharedVars, Known
  <2>2. ASSUME IInv, IInv', Next PROVE Shared!SharedNext
    <3>1. Grows
      BY <2>2, NextSound DEF Sound
    <3>2. Shared!Learn
      BY <2>2, <3>1, LearnStep DEF IInv
    <3>3. CASE UNCHANGED <<log, tip>>
      BY <3>2, <3>3 DEF Shared!SharedNext, Shared!Read
    <3>4. CASE Wipe
      BY <3>2, <3>4 DEF Wipe, StoreWipe, Shared!SharedNext, Shared!Forget
    <3>5. ASSUME NEW it \in Item, StoreWrite(it), it.by \in Peers \/ RequestOK(it),
                 ~UNCHANGED <<log, tip>>
          PROVE  Shared!SharedNext
      <4>. DEFINE new == [page |-> it.page, content |-> it.content, by |-> it.by]
      <4>1. /\ log' = Append(log, new)
            /\ tip' = [tip EXCEPT ![it.page] = Len(log) + 1]
            /\ it.by \in Clones /\ tip[it.page] # 0 => tip[it.page] \in Known(it.by, it.page)
        BY <3>5, WriterKnows
      <4>2. it.by \in Clones \cup Peers /\ it.page \in Pages /\ it.content \in Contents /\ new \in Commit
        BY DEF Item, Commit
      <4>3. Len(log') = Len(log) + 1
        BY <2>2, <4>1, <4>2 DEF IInv, TypeOK, StoreTypeOK
      <4>4. Shared!MayReplace(it.by, it.page)
        BY <4>1, <4>2 DEF Shared!MayReplace
      <4>5. Shared!Publish(it.by, it.page, it.content)
        BY <3>2, <4>1, <4>3, <4>4 DEF Shared!Publish
      <4>. QED BY <4>2, <4>5 DEF Shared!SharedNext
    <3>. QED BY <2>2, <3>3, <3>4, <3>5, WhoWrites
  <2>. QED BY <2>1, <2>2
<1>3. Spec => Shared!SharedSpec
  BY <1>1, <1>2, Invariance, PTL DEF Spec, Shared!SharedSpec
<1>. QED BY <1>3 DEF SharedSpec

-----------------------------------------------------------------------------
(* What ConflictInv says of one page of one clone. *)
PageInv(c, p) == /\ SideOK(p, meta[c][p]) /\ Settled(meta[c][p])
                 /\ RecentJob(p, meta[c][p], op[c].job[p])

LEMMA ConflictPages ==
    ConflictInv <=> TipLast /\ \A c \in Clones, p \in Pages : PageInv(c, p)
BY DEF ConflictInv, PageInv

LEMMA NoJobRecent ==
    ASSUME NEW p \in Pages, NEW m PROVE RecentJob(p, m, NoJob)
BY DEF RecentJob, Clearing, Noting, NoJob

(* Versions stay, so what is about versions does. *)
LEMMA SideStays ==
    ASSUME TypeOK, TypeOK', Grows, NEW p \in Pages, NEW m, SideOK(p, m)
    PROVE  m.side # 0 => IsVersion(m.side, p)'
BY VersionsStay DEF SideOK

LEMMA JobRecentStays ==
    ASSUME TypeOK, TypeOK', Grows, NEW p \in Pages, NEW m, NEW j, RecentJob(p, m, j)
    PROVE  RecentJob(p, m, j)'
<1>1. IsVersion(j.got, p) => IsVersion(j.got, p)'
  BY VersionsStay
<1>2. ASSUME NEW v \in 1 .. Len(log), log[v].page = p
      PROVE  v \in 1 .. Len(log') /\ log'[v].page = p
  BY <1>2, VersionsStay DEF IsVersion
<1>. QED BY <1>1, <1>2 DEF RecentJob

LEMMA PageStays ==
    ASSUME TypeOK, TypeOK', Grows, NEW c \in Clones, NEW p \in Pages, PageInv(c, p),
           meta'[c][p] = meta[c][p], op'[c].job[p] = op[c].job[p] \/ op'[c].job[p] = NoJob
    PROVE  PageInv(c, p)'
<1>1. SideOK(p, meta[c][p])'
  BY SideStays DEF PageInv, SideOK
<1>2. Settled(meta[c][p])'
  BY DEF PageInv, Settled
<1>3. RecentJob(p, meta[c][p], op[c].job[p])'
  <2>1. CASE op'[c].job[p] = op[c].job[p]
    BY SMTT(30), <2>1, JobRecentStays DEF PageInv, RecentJob
  <2>2. CASE op'[c].job[p] = NoJob
    BY <2>2 DEF RecentJob, Clearing, Noting, NoJob
  <2>. QED BY <2>1, <2>2
<1>. QED BY <1>1, <1>2, <1>3 DEF PageInv

(* A tip is the last version of its page: no version, and so no sidecar    *)
(* and no base, is ahead of it.                                            *)
LEMMA NoneAhead ==
    ASSUME TipLast, NEW p \in Pages, tip[p] # 0, NEW s, IsVersion(s, p)
    PROVE  s <= tip[p]
BY DEF TipLast, IsVersion

LEMMA BaseVersion ==
    ASSUME IInv, NEW c \in Clones, NEW p \in Pages, meta[c][p].sha # 0
    PROVE  IsVersion(meta[c][p].sha, p)
BY KnownVersion DEF IInv, BaseTruthful

LEMMA ShaNumbers ==
    ASSUME IInv, NEW c \in Clones, NEW p \in Pages
    PROVE  /\ meta[c][p].sha \in Nat /\ meta[c][p].side \in Nat /\ meta[c][p].recSha \in Nat
           /\ op[c].job[p].got \in Nat /\ tip[p] \in Nat
BY JobType, MaxCommitsAssumption DEF IInv, Meta, Job, Sha

-----------------------------------------------------------------------------
(* The tips.                                                               *)
LEMMA TipsKept ==
    ASSUME TipLast, UNCHANGED <<log, tip>> PROVE TipLast'
BY DEF TipLast

LEMMA StoreWriteTips ==
    ASSUME IInv, TipLast, NEW it \in Item, StoreWrite(it)
    PROVE  /\ TipLast'
           /\ ~Refused(it) => \A s : IsVersion(s, it.page) => WrittenSha(it) >= s
<1>. DEFINE n == Len(log) + 1
            new == [page |-> it.page, content |-> it.content, by |-> it.by]
<1>1. Len(log) \in Nat /\ it.page \in Pages /\ new \in Commit /\ log \in Seq(Commit)
  BY LenNat DEF IInv, TypeOK, StoreTypeOK, Item, Commit
<1>2. CASE Refused(it) \/ NoOp(it)
  <2>1. TipLast'
    BY <1>2, TipsKept DEF StoreWrite
  <2>2. NoOp(it) => tip[it.page] # 0 /\ WrittenSha(it) = tip[it.page]
    BY DEF NoOp, WrittenSha
  <2>3. tip[it.page] \in Nat
    BY <1>1, MaxCommitsAssumption DEF IInv, TypeOK, StoreTypeOK, Sha
  <2>4. ASSUME ~Refused(it), NEW s, IsVersion(s, it.page)
        PROVE  WrittenSha(it) >= s
    BY <1>1, <1>2, <2>2, <2>3, <2>4, NoneAhead DEF IsVersion
  <2>. QED BY <2>1, <2>4
<1>3. CASE ~(Refused(it) \/ NoOp(it))
  <2>1. log' = Append(log, new) /\ tip' = [tip EXCEPT ![it.page] = n]
    BY <1>3 DEF StoreWrite
  <2>2. Len(log') = n /\ log'[n] = new /\ \A i \in 1 .. Len(log) : log'[i] = log[i]
    BY <1>1, <2>1
  <2>3. \A p \in Pages : tip'[p] = IF p = it.page THEN n ELSE tip[p]
    BY <2>1 DEF IInv, TypeOK, StoreTypeOK
  <2>4. TipLast'
    <3> SUFFICES ASSUME NEW p \in Pages, NEW s \in 1 .. Len(log'), tip'[p] # 0, log'[s].page = p
                 PROVE  s <= tip'[p]
      BY DEF TipLast
    <3>1. CASE p = it.page
      BY <1>1, <2>2, <2>3, <3>1
    <3>2. CASE p # it.page
      <4>1. s # n
        BY <2>2, <3>2
      <4>2. s \in 1 .. Len(log)
        BY <1>1, <2>2, <4>1
      <4>. QED BY <2>2, <2>3, <3>2, <4>2 DEF TipLast
    <3>. QED BY <3>1, <3>2
  <2>5. WrittenSha(it) = n
    BY <1>3 DEF WrittenSha
  <2>. QED BY <1>1, <2>4, <2>5 DEF IsVersion
<1>. QED BY <1>2, <1>3

(* A step that moves no record and no job. *)
LEMMA OnlyStore ==
    ASSUME IInv, IInv', Grows, ConflictInv, TipLast', UNCHANGED <<meta, op>>
    PROVE  ConflictInv'
<1>1. ASSUME NEW c \in Clones, NEW p \in Pages PROVE PageInv(c, p)'
  BY ConflictPages, PageStays DEF IInv
<1>. QED BY <1>1, ConflictPages DEF ConflictInv, PageInv

LEMMA StoreConflicts ==
    ASSUME IInv, IInv', Grows, ConflictInv,
           \/ \E c \in Clones, p \in Pages : Edit(c, p)
           \/ LateWrite \/ PeerWrite \/ Wipe
    PROVE  ConflictInv'
<1>. USE DEF ConflictInv
<1>1. ASSUME NEW c \in Clones, NEW p \in Pages, Edit(c, p) PROVE ConflictInv'
  BY <1>1, TipsKept, OnlyStore DEF Edit
<1>2. CASE LateWrite
  BY <1>2, StoreWriteTips, OnlyStore DEF LateWrite, IInv, TypeOK
<1>3. CASE PeerWrite
  <2>1. PICK w \in Peers, p \in Pages, d \in Contents : StorePeerWrite(w, p, d)
    BY <1>3 DEF PeerWrite
  <2>. DEFINE it == [by |-> w, page |-> p, content |-> d, parent |-> 0, absent |-> FALSE]
  <2>2. it \in Item /\ StoreWrite(it)
    BY <2>1, MaxCommitsAssumption DEF Item, Sha, StorePeerWrite
  <2>3. UNCHANGED <<meta, op>>
    BY <1>3 DEF PeerWrite
  <2>. HIDE DEF it, ConflictInv
  <2>. QED BY <2>2, <2>3, StoreWriteTips, OnlyStore DEF ConflictInv
<1>4. CASE Wipe
  BY <1>4, OnlyStore DEF Wipe, StoreWipe, TipLast
<1>. QED BY <1>1, <1>2, <1>3, <1>4

-----------------------------------------------------------------------------
(* A step on one job, which clears or notes nothing that is older than the *)
(* page's records.                                                         *)
LEMMA JobMoves ==
    ASSUME IInv, IInv', Grows, ConflictInv, TipLast', NEW c \in Clones, NEW p \in Pages, meta' = meta,
           \A d \in Clones, q \in Pages : <<d, q>> # <<c, p>> => op'[d].job[q] = op[d].job[q],
           op'[c].job[p] = NoJob \/ RecentJob(p, meta[c][p], op[c].job[p])'
    PROVE  ConflictInv'
<1>1. \A d \in Clones, q \in Pages : PageInv(d, q)
  BY ConflictPages
<1>2. ASSUME NEW d \in Clones, NEW q \in Pages PROVE PageInv(d, q)'
  <2>1. CASE <<d, q>> # <<c, p>> \/ op'[c].job[p] = NoJob
    <3>1. op'[d].job[q] = op[d].job[q] \/ op'[d].job[q] = NoJob
      BY <2>1
    <3>. QED BY <1>1, <3>1, PageStays DEF IInv
  <2>2. CASE d = c /\ q = p /\ RecentJob(p, meta[c][p], op[c].job[p])'
    <3>1. SideOK(p, meta[c][p])'
      BY <1>1, SideStays DEF PageInv, SideOK, IInv
    <3>2. Settled(meta[c][p])'
      BY <1>1 DEF PageInv, Settled
    <3>. QED BY <2>2, <3>1, <3>2 DEF PageInv
  <2>. QED BY <2>1, <2>2
<1>. QED BY <1>2, ConflictPages DEF ConflictInv, PageInv

(* A job of a clone as it is now, with what is known of it. *)
LEMMA JobNow ==
    ASSUME IInv, ConflictInv, NEW c \in Clones, NEW p \in Pages
    PROVE  /\ op[c].job[p] \in Job /\ JobOK(c, p, op[c].job[p]) /\ RecentJob(p, meta[c][p], op[c].job[p])
           /\ SideOK(p, meta[c][p]) /\ Settled(meta[c][p]) /\ TipLast
BY JobType DEF IInv, JobsOK, ConflictInv

(* What is fetched now is no older than the sidecar. *)
LEMMA TipRecent ==
    ASSUME IInv, ConflictInv, NEW c \in Clones, NEW p \in Pages, tip[p] # 0
    PROVE  /\ tip[p] >= meta[c][p].side /\ IsVersion(tip[p], p)
           /\ \A s : IsVersion(s, p) => tip[p] >= s
<1>1. \A s : IsVersion(s, p) => s \in Nat
  BY DEF IsVersion
<1>2. \A s : IsVersion(s, p) => tip[p] >= s
  BY <1>1, JobNow, NoneAhead, ShaNumbers
<1>3. meta[c][p].side = 0 => tip[p] >= meta[c][p].side
  BY ShaNumbers
<1>. QED BY <1>2, <1>3, JobNow DEF SideOK, IInv, TipOK

LEMMA PullFetchConflicts ==
    ASSUME IInv, IInv', Grows, ConflictInv, NEW c \in Clones, NEW p \in Pages, PullFetch(c, p)
    PROVE  ConflictInv'
<1>. DEFINE j == op[c].job[p]
            m == meta[c][p]
            k == [j EXCEPT !.got = tip[p], !.step = "have"]
<1>1. /\ UNCHANGED <<log, tip, meta>> /\ j.step = "need" /\ j \in Job /\ RecentJob(p, m, j)
      /\ m.sha \in Nat /\ tip[p] \in Nat /\ TipLast'
  BY JobNow, ShaNumbers, TipsKept DEF PullFetch, At
<1>2. CASE tip[p] = 0
  <2>1. SetJob(c, p, NoJob)
    BY <1>2 DEF PullFetch
  <2>. QED BY <1>1, <2>1, NoJobType, SetJobStep, JobMoves DEF IInv
<1>3. CASE tip[p] # 0
  <2>1. SetJob(c, p, k) /\ k \in Job
    BY <1>1, <1>3, JobType DEF PullFetch, Job, Steps, IInv
  <2>2. k.step = "have" /\ k.got = tip[p] /\ k.state = j.state
    BY <1>1 DEF Job
  <2>3. ASSUME Whole, m.sha # 0, j.state = "conflict"
        PROVE  tip[p] > m.sha
    <3>1. PICK v \in 1 .. Len(log) : log[v].page = p /\ v > m.sha
      BY <1>1, <2>3 DEF RecentJob
    <3>2. tip[p] >= v
      BY <1>3, <3>1, TipRecent DEF IsVersion
    <3>. QED BY <1>1, <3>1, <3>2
  <2>4. tip[p] >= m.side
    BY <1>3, TipRecent
  <2>5. op'[c].job[p] = k
    BY <2>1, SetJobStep DEF IInv
  <2>6. RecentJob(p, meta[c][p], op[c].job[p])'
    <3>. HIDE DEF k
    <3>. QED BY <1>1, <2>2, <2>3, <2>4, <2>5 DEF RecentJob, Clearing, Noting
  <2>. QED BY <1>1, <2>1, <2>6, SetJobStep, JobMoves DEF IInv
<1>. QED BY <1>2, <1>3

(* A job that goes on with the version it has. *)
LEMMA StepRecent ==
    ASSUME NEW p \in Pages, NEW m, NEW j, NEW k, RecentJob(p, m, j), k.got = j.got, j.step \in Clearing,
           k.step \in Clearing \ {"have"}
    PROVE  RecentJob(p, m, k)
BY DEF RecentJob, Clearing, Noting

LEMMA MoveConflicts ==
    ASSUME IInv, IInv', Grows, ConflictInv, NEW c \in Clones, NEW p \in Pages, UNCHANGED <<log, tip, meta>>,
           NEW s \in Clearing \ {"have"}, Move(c, p, s), op[c].job[p].step \in Clearing
    PROVE  ConflictInv'
<1>. DEFINE j == op[c].job[p]
            k == [j EXCEPT !.step = s]
<1>1. j \in Job /\ RecentJob(p, meta[c][p], j) /\ TipLast'
  BY JobNow, TipsKept
<1>2. op'[c].job[p] = k /\ \A d \in Clones, q \in Pages : <<d, q>> # <<c, p>> => op'[d].job[q] = op[d].job[q]
  <2>1. s \in Steps
    BY DEF Clearing, Steps
  <2>. QED BY <2>1, MoveStep DEF IInv
<1>3. k.step = s /\ k.got = j.got
  BY <1>1 DEF Job
<1>. HIDE DEF k
<1>4. RecentJob(p, meta[c][p], k)
  BY <1>1, <1>3, StepRecent
<1>5. RecentJob(p, meta[c][p], op[c].job[p])'
  BY <1>2, <1>4 DEF RecentJob, IsVersion
<1>. QED BY <1>1, <1>2, <1>5, JobMoves

LEMMA PullApplyConflicts ==
    ASSUME IInv, IInv', Grows, ConflictInv, NEW c \in Clones, NEW p \in Pages, PullApply(c, p)
    PROVE  ConflictInv'
<1>. DEFINE j == op[c].job[p]
            m == meta[c][p]
            k == [j EXCEPT !.step = Applied(c, p)]
<1>1. /\ UNCHANGED <<log, tip, meta>> /\ j.step = "have" /\ j \in Job /\ RecentJob(p, m, j) /\ JobOK(c, p, j)
      /\ TipLast'
  BY JobNow, TipsKept DEF PullApply, At
<1>needed. j.state \in {"incoming", "incoming_new", "conflict", "unverified"}
  BY <1>1 DEF JobOK, Needed
<1>2. CASE Applied(c, p) = "none"
  <2>1. SetJob(c, p, NoJob)
    BY <1>2 DEF PullApply
  <2>. QED BY <1>1, <2>1, NoJobType, SetJobStep, JobMoves DEF IInv
<1>3. CASE Applied(c, p) # "none"
  <2>1. Applied(c, p) \in {"write", "adopt", "sidecar"} /\ (Applied(c, p) = "sidecar" => j.state = "conflict")
    BY <1>needed, <1>3 DEF Applied
  <2>2. SetJob(c, p, k) /\ k \in Job
    BY <1>1, <1>3, <2>1 DEF PullApply, Job, Steps
  <2>3. k.step = Applied(c, p) /\ k.got = j.got /\ k.state = j.state
    BY <1>1 DEF Job
  <2>4. op'[c].job[p] = k /\ \A d \in Clones, q \in Pages : <<d, q>> # <<c, p>> => op'[d].job[q] = op[d].job[q]
    BY <2>2, SetJobStep DEF IInv
  <2>5. RecentJob(p, m, k)
    <3>. HIDE DEF k
    <3>. QED BY <1>1, <2>1, <2>3 DEF RecentJob, JobOK, Clearing, Noting
  <2>6. RecentJob(p, meta[c][p], op[c].job[p])'
    <3>. HIDE DEF k
    <3>. QED BY <1>1, <2>4, <2>5 DEF RecentJob, IsVersion
  <2>. QED BY <1>1, <2>4, <2>6, JobMoves
<1>. QED BY <1>2, <1>3

LEMMA WriteConflicts ==
    ASSUME IInv, IInv', Grows, ConflictInv, NEW c \in Clones, NEW p \in Pages,
           PullWrite(c, p) \/ TheirsWrite(c, p) \/ TheirsBackup(c, p)
    PROVE  ConflictInv'
<1>1. UNCHANGED <<log, tip, meta>> /\ op[c].job[p].step \in Clearing
  BY DEF PullWrite, TheirsWrite, TheirsBackup, At, Clearing
<1>2. \E s \in {"written", "overwrite"} : Move(c, p, s)
  BY DEF PullWrite, TheirsWrite, TheirsBackup
<1>. QED BY <1>1, <1>2, MoveConflicts DEF Clearing

LEMMA PushServeConflicts ==
    ASSUME IInv, IInv', Grows, ConflictInv, NEW c \in Clones, NEW p \in Pages, PushServe(c, p)
    PROVE  ConflictInv'
<1>. DEFINE j  == op[c].job[p]
            m  == meta[c][p]
            it == ItemOf(c, p)
            k  == [j EXCEPT !.got  = IF Refused(it) THEN tip[p] ELSE WrittenSha(it),
                            !.step = IF Refused(it) THEN "sidecar" ELSE "pushed"]
<1>1. /\ j \in Job /\ JobOK(c, p, j) /\ j.step = "send" /\ meta' = meta /\ m \in Meta /\ tip[p] \in Sha
      /\ SideOK(p, m) /\ TipLast
  BY JobNow, JobType DEF PushServe, At, IInv
<1>2. j.seen \in Contents
  BY <1>1 DEF JobOK
<1>3. it \in Item /\ StoreWrite(it) /\ it.page = p /\ it.parent = m.sha /\ it.absent = (m.sha = 0)
  BY <1>1, <1>2 DEF ItemOf, Item, Meta, PushServe
<1>4. Refused(it) => tip[p] # 0 /\ (m.sha # 0 => tip[p] # m.sha)
  <2>. HIDE DEF it
  <2>. QED BY <1>3 DEF Refused
<1>. HIDE DEF it
<1>5. TipLast' /\ (~Refused(it) => \A s : IsVersion(s, p) => WrittenSha(it) >= s)
  BY <1>1, <1>3, StoreWriteTips
<1>6. ~Refused(it) => WrittenSha(it) \in Sha \ {0}
  <2>1. ~Refused(it) => WrittenSha(it) \in 1 .. Len(log')
    BY <1>3, StoreWriteStep DEF IInv
  <2>2. Len(log') \in Nat /\ Len(log') <= MaxCommits
    BY LenNatNext DEF IInv
  <2>. QED BY <2>1, <2>2, MaxCommitsAssumption DEF Sha
<1>7. SetJob(c, p, k) /\ k \in Job
  BY <1>1, <1>6 DEF PushServe, Job, Steps, it
<1>8. op'[c].job[p] = k /\ \A d \in Clones, q \in Pages : <<d, q>> # <<c, p>> => op'[d].job[q] = op[d].job[q]
  BY <1>7, SetJobStep DEF IInv
<1>9. m.sha \in Nat /\ m.side \in Nat /\ tip[p] \in Nat /\ (~Refused(it) => WrittenSha(it) \in Nat)
  BY <1>6, ShaNumbers, MaxCommitsAssumption DEF Sha
<1>10. CASE Refused(it)
  <2>1. k.step = "sidecar" /\ k.got = tip[p]
    BY <1>1, <1>10 DEF Job
  <2>2. IsVersion(tip[p], p) /\ (m.sha # 0 => tip[p] >= m.sha) /\ log' = log
    BY <1>3, <1>4, <1>10, TipRecent, BaseVersion DEF StoreWrite
  <2>3. m.sha # 0 => tip[p] > m.sha
    BY <1>4, <1>9, <1>10, <2>2
  <2>. HIDE DEF k
  <2>4. op'[c].job[p].step = "sidecar" /\ op'[c].job[p].got = tip[p]
    BY <1>8, <2>1
  <2>5. RecentJob(p, meta[c][p], op[c].job[p])'
    BY <1>1, <2>2, <2>3, <2>4 DEF RecentJob, Clearing, Noting, IsVersion
  <2>. QED BY <1>1, <1>5, <1>8, <2>5, JobMoves
<1>11. CASE ~Refused(it)
  <2>1. k.step = "pushed" /\ k.got = WrittenSha(it)
    BY <1>1, <1>11 DEF Job
  <2>2. WrittenSha(it) >= m.side
    BY <1>1, <1>5, <1>9, <1>11 DEF SideOK
  <2>. HIDE DEF k
  <2>3. RecentJob(p, meta[c][p], op[c].job[p])'
    BY <1>1, <1>8, <2>1, <2>2 DEF RecentJob, Clearing, Noting
  <2>. QED BY <1>1, <1>5, <1>8, <2>3, JobMoves
<1>. QED BY <1>10, <1>11

LEMMA PushNoteConflicts ==
    ASSUME IInv, IInv', Grows, ConflictInv, NEW c \in Clones, NEW p \in Pages, PushNote(c, p)
    PROVE  ConflictInv'
<1>. DEFINE j == op[c].job[p]
            m == meta[c][p]
            now  == [j EXCEPT !.got = tip[p], !.step = "sidecar"]
            then == [j EXCEPT !.step = "sidecar"]
<1>1. /\ UNCHANGED <<log, tip, meta>> /\ j.step = "note" /\ j \in Job /\ RecentJob(p, m, j) /\ TipLast'
      /\ IsVersion(j.got, p) /\ (Whole /\ m.sha # 0 => j.got > m.sha) /\ tip[p] \in Sha
  BY JobNow, JobType, TipsKept DEF PushNote, At, RecentJob, Noting, IInv
<1>2. now \in Job /\ now.step = "sidecar" /\ now.got = tip[p]
  BY <1>1 DEF Job, Steps
<1>3. then \in Job /\ then.step = "sidecar" /\ then.got = j.got
  BY <1>1 DEF Job, Steps
<1>4. SetJob(c, p, NoJob) \/ (tip[p] # 0 /\ SetJob(c, p, now)) \/ SetJob(c, p, then)
  BY DEF PushNote
<1>. HIDE DEF now, then
<1>5. ASSUME NEW k \in Job, SetJob(c, p, k), k.step = "sidecar", IsVersion(k.got, p), k.got >= j.got
      PROVE  ConflictInv'
  <2>1. op'[c].job[p] = k /\ \A d \in Clones, q \in Pages : <<d, q>> # <<c, p>> => op'[d].job[q] = op[d].job[q]
    BY <1>5, SetJobStep DEF IInv
  <2>2. Whole /\ m.sha # 0 => k.got > m.sha
    BY <1>1, <1>5, ShaNumbers DEF IsVersion
  <2>3. RecentJob(p, meta[c][p], op[c].job[p])'
    BY <1>1, <1>5, <2>1, <2>2 DEF RecentJob, Clearing, Noting, IsVersion
  <2>. QED BY <1>1, <2>1, <2>3, JobMoves
<1>6. CASE SetJob(c, p, NoJob)
  BY <1>1, <1>6, NoJobType, SetJobStep, JobMoves DEF IInv
<1>7. CASE tip[p] # 0 /\ SetJob(c, p, now)
  <2>1. IsVersion(tip[p], p) /\ tip[p] >= j.got
    BY <1>1, <1>7, TipRecent
  <2>. QED BY <1>2, <1>5, <1>7, <2>1
<1>8. CASE SetJob(c, p, then)
  <2>1. j.got >= j.got
    BY <1>1 DEF IsVersion
  <2>. QED BY <1>1, <1>3, <1>5, <1>8, <2>1
<1>. QED BY <1>4, <1>6, <1>7, <1>8

-----------------------------------------------------------------------------
(* The steps on all pages of a clone.                                      *)

(* Records and jobs of one clone replaced.                                 *)
LEMMA CloneMoves ==
    ASSUME IInv, IInv', Grows, ConflictInv, TipLast', NEW c \in Clones,
           \A d \in Clones \ {c} : meta'[d] = meta[d] /\ op'[d] = op[d],
           \A p \in Pages : PageInv(c, p)'
    PROVE  ConflictInv'
<1>1. ASSUME NEW d \in Clones, NEW p \in Pages PROVE PageInv(d, p)'
  <2>1. CASE d # c
    <3>1. meta'[d][p] = meta[d][p] /\ op'[d].job[p] = op[d].job[p] /\ PageInv(d, p)
      BY <2>1, ConflictPages
    <3>. QED BY <3>1, PageStays DEF IInv
  <2>. QED BY <2>1
<1>. QED BY <1>1 DEF ConflictInv, PageInv

(* A landing keeps what every record says of sidecars, and saves records   *)
(* as a whole unless a crash or a failed write comes between.              *)
LEMMA LandedConflicts ==
    ASSUME NEW old \in [Pages -> Meta], NEW new \in [Pages -> Meta], NEW g \in BOOLEAN, NEW l \in Landings(g),
           NEW p \in Pages, SideOK(p, old[p]), SideOK(p, new[p]), Settled(new[p]),
           NEW r, r = Landed(old, new, l[1], l[2])[p]
    PROVE  SideOK(p, r) /\ Settled(r) /\ r.side \in {old[p].side, new[p].side}
<1>1. r.side \in {old[p].side, new[p].side}
  BY DEF Landed
<1>2. CASE Whole
  <2>1. l = <<Pages, IndexFiles>>
    BY <1>2 DEF Landings, Whole
  <2>2. r.sha = new[p].sha /\ r.recSha = new[p].recSha /\ r.side = new[p].side
    BY <2>1 DEF Landed, IndexFiles
  <2>. QED BY <1>1, <2>2 DEF Settled, SideOK
<1>3. CASE ~Whole
  BY <1>1, <1>3 DEF Settled, SideOK
<1>. QED BY <1>2, <1>3

LEMMA SaveConflicts ==
    ASSUME IInv, IInv', Grows, ConflictInv, NEW c \in Clones, NEW new \in [Pages -> Meta],
           NEW g \in BOOLEAN, NEW landing \in Landings(g), Save(c, new, landing), UNCHANGED <<log, tip>>,
           \A p \in Pages : SideOK(p, new[p]) /\ Settled(new[p])
    PROVE  ConflictInv' /\ \A p \in Pages : meta'[c][p].side \in {meta[c][p].side, new[p].side}
<1>. DEFINE l == Landed(meta[c], new, landing[1], landing[2])
<1>1. meta[c] \in [Pages -> Meta] /\ meta'[c] = l /\ \A d \in Clones \ {c} : meta'[d] = meta[d]
  BY DEF Save, IInv, TypeOK
<1>2. /\ \A p \in Pages : op'[c].job[p] = NoJob
      /\ \A d \in Clones \ {c} : op'[d] = op[d]
  BY IdleStep DEF Save, IInv
<1>3. \A p \in Pages : SideOK(p, meta[c][p])
  BY DEF ConflictInv
<1>4. \A p \in Pages : SideOK(p, l[p]) /\ Settled(l[p]) /\ l[p].side \in {meta[c][p].side, new[p].side}
  BY <1>1, <1>3, LandedConflicts
<1>. HIDE DEF l
<1>5. \A p \in Pages : PageInv(c, p)'
  <2> SUFFICES ASSUME NEW p \in Pages PROVE PageInv(c, p)'
    OBVIOUS
  <2>1. SideOK(p, meta[c][p])' /\ Settled(meta[c][p])'
    BY <1>1, <1>4 DEF SideOK, Settled, IsVersion
  <2>2. RecentJob(p, meta[c][p], op[c].job[p])'
    BY <1>2 DEF RecentJob, NoJob, Clearing, Noting
  <2>. QED BY <2>1, <2>2 DEF PageInv
<1>6. TipLast'
  BY TipsKept DEF ConflictInv
<1>. QED BY <1>1, <1>2, <1>4, <1>5, <1>6, CloneMoves

(* A version that clears a sidecar, or a version noted as one.             *)
LEMMA SyncedConflicts ==
    ASSUME NEW p \in Pages, NEW s
    PROVE  SideOK(p, Synced(s)) /\ Settled(Synced(s)) /\ Synced(s).side = 0
BY DEF SideOK, Settled, Synced

LEMMA NotedConflicts ==
    ASSUME NEW p \in Pages, NEW m \in Meta, NEW j, Settled(m), RecentJob(p, m, j), j.step \in Noting
    PROVE  LET r == [m EXCEPT !.side = j.got]
           IN  SideOK(p, r) /\ Settled(r) /\ r.side # 0
<1>. DEFINE r == [m EXCEPT !.side = j.got]
<1>1. r.side = j.got /\ r.sha = m.sha /\ r.recSha = m.recSha
  BY DEF Meta
<1>2. IsVersion(j.got, p) /\ (Whole /\ m.sha # 0 => j.got > m.sha)
  BY DEF RecentJob
<1>3. j.got # 0
  BY <1>2 DEF IsVersion
<1>. QED BY <1>1, <1>2, <1>3 DEF SideOK, Settled

(* What pull and push record of a page: a record whose sidecar is gone     *)
(* names a version that is no older.                                       *)
LEMMA PullRecordConflicts ==
    ASSUME IInv, ConflictInv, NEW c \in Clones, NEW p \in Pages
    PROVE  /\ PullRecord(c, p) \in Meta /\ SideOK(p, PullRecord(c, p)) /\ Settled(PullRecord(c, p))
           /\ meta[c][p].side # 0 /\ PullRecord(c, p).side = 0 =>
                 \E s \in Known(c, p) : s >= meta[c][p].side
<1>. DEFINE j == op[c].job[p]
            m == meta[c][p]
<1>1. /\ j \in Job /\ m \in Meta /\ JobOK(c, p, j) /\ RecentJob(p, m, j) /\ SideOK(p, m) /\ Settled(m)
  BY JobNow, JobType DEF IInv
<1>2. CASE j.step \in {"written", "adopt"}
  <2>1. IsVersion(j.got, p) /\ j.got \in Known(c, p) /\ j.got >= m.side
    BY <1>1, <1>2 DEF JobOK, IsVersion, Known, RecentJob, Clearing
  <2>2. PullRecord(c, p) = Synced(j.got)
    BY <1>2 DEF PullRecord
  <2>. QED BY <2>1, <2>2, SyncedConflicts, SyncedType DEF IInv
<1>3. CASE j.step = "sidecar"
  <2>1. PullRecord(c, p) = [m EXCEPT !.side = j.got]
    BY <1>3 DEF PullRecord
  <2>2. [m EXCEPT !.side = j.got] \in Meta
    BY <1>1 DEF Meta, Job
  <2>. QED BY <1>1, <1>3, <2>1, <2>2, NotedConflicts DEF Noting
<1>4. CASE j.step \notin {"written", "adopt", "sidecar"}
  <2>1. PullRecord(c, p) = m
    BY <1>4 DEF PullRecord
  <2>. QED BY <1>1, <2>1
<1>. QED BY <1>2, <1>3, <1>4

LEMMA PushRecordConflicts ==
    ASSUME IInv, ConflictInv, NEW c \in Clones, NEW p \in Pages
    PROVE  /\ PushRecord(c, p) \in Meta /\ SideOK(p, PushRecord(c, p)) /\ Settled(PushRecord(c, p))
           /\ meta[c][p].side # 0 /\ PushRecord(c, p).side = 0 =>
                 \E s \in Known(c, p) : s >= meta[c][p].side
<1>. DEFINE j == op[c].job[p]
            m == meta[c][p]
<1>1. /\ j \in Job /\ m \in Meta /\ JobOK(c, p, j) /\ RecentJob(p, m, j) /\ SideOK(p, m) /\ Settled(m)
  BY JobNow, JobType DEF IInv
<1>2. CASE j.step = "pushed"
  <2>. DEFINE r == [sha |-> j.got, recSha |-> j.got, recHash |-> j.seen, base |-> j.seen, side |-> 0]
  <2>1. j.got \in Known(c, p) /\ j.got >= m.side /\ j.seen \in Contents
    BY <1>1, <1>2 DEF JobOK, IsVersion, Known, RecentJob, Clearing
  <2>2. PushRecord(c, p) = r
    BY <1>2 DEF PushRecord
  <2>3. r \in Meta
    BY <1>1, <2>1, MaxCommitsAssumption DEF Meta, Job, Sha
  <2>4. SideOK(p, r) /\ Settled(r) /\ r.side = 0
    BY DEF SideOK, Settled
  <2>. QED BY <2>1, <2>2, <2>3, <2>4
<1>3. CASE j.step = "sidecar"
  <2>1. PushRecord(c, p) = [m EXCEPT !.side = j.got]
    BY <1>3 DEF PushRecord
  <2>2. [m EXCEPT !.side = j.got] \in Meta
    BY <1>1 DEF Meta, Job
  <2>. QED BY <1>1, <1>3, <2>1, <2>2, NotedConflicts DEF Noting
<1>4. CASE j.step \notin {"pushed", "sidecar"}
  <2>1. PushRecord(c, p) = m
    BY <1>4 DEF PushRecord
  <2>. QED BY <1>1, <2>1
<1>. QED BY <1>2, <1>3, <1>4

(* A saved record whose sidecar is gone names a version that is no older.  *)
LEMMA FinishConflicts ==
    ASSUME IInv, IInv', Grows, ConflictInv, NEW c \in Clones, PullFinish(c) \/ PushFinish(c)
    PROVE  /\ ConflictInv'
           /\ \A d \in Clones, p \in Pages : meta[d][p].side # 0 /\ meta'[d][p].side = 0 =>
                 \E s \in Known(d, p)' : s >= meta[d][p].side
<1>1. PICK new \in {[p \in Pages |-> PullRecord(c, p)], [p \in Pages |-> PushRecord(c, p)]},
           landing \in Landings(TRUE) : Save(c, new, landing)
  BY DEF PullFinish, PushFinish
<1>2. \A p \in Pages : /\ new[p] \in Meta /\ SideOK(p, new[p]) /\ Settled(new[p])
                       /\ meta[c][p].side # 0 /\ new[p].side = 0 => \E s \in Known(c, p) : s >= meta[c][p].side
  BY PullRecordConflicts, PushRecordConflicts
<1>3. new \in [Pages -> Meta]
  BY <1>2
<1>4. UNCHANGED <<log, tip>>
  BY DEF PullFinish, PushFinish
<1>5. ConflictInv' /\ \A p \in Pages : meta'[c][p].side \in {meta[c][p].side, new[p].side}
  BY <1>1, <1>2, <1>3, <1>4, SaveConflicts
<1>6. \A d \in Clones \ {c} : meta'[d] = meta[d]
  BY <1>1 DEF Save, IInv, TypeOK
<1>7. ASSUME NEW d \in Clones, NEW p \in Pages, meta[d][p].side # 0, meta'[d][p].side = 0
      PROVE  \E s \in Known(d, p)' : s >= meta[d][p].side
  <2>1. d = c /\ new[p].side = 0
    BY <1>5, <1>6, <1>7
  <2>. QED BY <1>2, <1>7, <2>1, KnownStays DEF IInv
<1>. QED BY <1>5, <1>7

LEMMA TheirsFinishConflicts ==
    ASSUME IInv, IInv', Grows, ConflictInv, NEW c \in Clones, NEW q \in Pages, TheirsFinish(c, q)
    PROVE  /\ ConflictInv'
           /\ \A d \in Clones, p \in Pages : meta[d][p].side # 0 /\ meta'[d][p].side = 0 =>
                 \E s \in Known(d, p)' : s >= meta[d][p].side
<1>. DEFINE j   == op[c].job[q]
            new == [meta[c] EXCEPT ![q] = Synced(j.got)]
<1>1. PICK landing \in Landings(FALSE) : Save(c, new, landing)
  BY DEF TheirsFinish
<1>2. /\ IsVersion(j.got, q) /\ j.got \in Known(c, q) /\ j.got >= meta[c][q].side /\ UNCHANGED <<log, tip>>
  BY JobNow DEF TheirsFinish, At, JobOK, Known, IsVersion, RecentJob, Clearing
<1>3. Synced(j.got) \in Meta /\ SideOK(q, Synced(j.got)) /\ Settled(Synced(j.got))
  BY <1>2, SyncedConflicts, SyncedType DEF IInv
<1>4. new \in [Pages -> Meta] /\ \A p \in Pages : new[p] = IF p = q THEN Synced(j.got) ELSE meta[c][p]
  BY <1>3 DEF IInv, TypeOK
<1>. HIDE DEF new
<1>5. \A p \in Pages : SideOK(p, new[p]) /\ Settled(new[p])
  BY <1>3, <1>4 DEF ConflictInv
<1>6. ConflictInv' /\ \A p \in Pages : meta'[c][p].side \in {meta[c][p].side, new[p].side}
  BY <1>1, <1>2, <1>4, <1>5, SaveConflicts
<1>7. \A d \in Clones \ {c} : meta'[d] = meta[d]
  BY <1>1 DEF Save, IInv, TypeOK
<1>8. ASSUME NEW d \in Clones, NEW p \in Pages, meta[d][p].side # 0, meta'[d][p].side = 0
      PROVE  \E s \in Known(d, p)' : s >= meta[d][p].side
  <2>1. d = c /\ p = q
    BY <1>4, <1>6, <1>7, <1>8
  <2>. QED BY <1>2, <2>1, KnownStays DEF IInv
<1>. QED BY <1>6, <1>8

-----------------------------------------------------------------------------
(* Repairs, and the operations that begin with one.                        *)

(* A conflict is about a server that moved away from the base, a modified  *)
(* page about one that did not.                                            *)
LEMMA RawConflict ==
    ASSUME NEW f \in Files, NEW m \in Meta, NEW s \in Sha, RawState(f, m, s) = "conflict"
    PROVE  s # 0 /\ (m.sha = 0 \/ s # m.sha)
<1>1. LocalSide(f) \in {LocalAbsent, LocalInvalid, LocalValid(f)}
  BY AbsentAssumption, BrokenAssumption DEF LocalSide, Files
<1>2. BaseSide(m) \in {BaseNone, BaseStale(m.sha), BaseValid(m.sha, m.recHash)} /\ (BaseSide(m) = BaseNone => m.sha = 0)
  BY DEF BaseSide, BaseNone, BaseStale, BaseValid
<1>3. LocalSide(f) = LocalValid(f)
  BY <1>1 DEF RawState, Classify, AbsentState, NoEntry, LocalAbsent, LocalInvalid
<1>4. ValidState(LocalValid(f), BaseSide(m), OnlineRemote(s)) = "conflict"
  BY <1>3 DEF RawState, Classify, LocalValid
<1>5. CASE BaseSide(m) = BaseNone
  BY <1>2, <1>4, <1>5 DEF ValidState, BaseNone, OnlineRemote, RemoteAbsent
<1>6. CASE BaseSide(m) = BaseStale(m.sha)
  BY <1>4, <1>6 DEF ValidState, BaseStale
<1>7. CASE BaseSide(m) = BaseValid(m.sha, m.recHash)
  <2>1. VerifiedState(LocalValid(f), BaseValid(m.sha, m.recHash), OnlineRemote(s)) = "conflict"
    BY <1>4, <1>7 DEF ValidState, BaseValid
  <2>2. RemoteMoved(BaseValid(m.sha, m.recHash), OnlineRemote(s)) /\ OnlineRemote(s).kind # "absent"
    BY <2>1 DEF VerifiedState
  <2>. QED BY <2>2 DEF RemoteMoved, BaseValid, OnlineRemote, RemoteAbsent, RemotePresent
<1>. QED BY <1>2, <1>5, <1>6, <1>7

LEMMA RawModified ==
    ASSUME NEW f \in Files, NEW m \in Meta, NEW s \in Sha, RawState(f, m, s) = "modified"
    PROVE  s # 0 /\ m.sha = s
<1>1. LocalSide(f) \in {LocalAbsent, LocalInvalid, LocalValid(f)}
  BY AbsentAssumption, BrokenAssumption DEF LocalSide, Files
<1>2. BaseSide(m) \in {BaseNone, BaseStale(m.sha), BaseValid(m.sha, m.recHash)}
  BY DEF BaseSide
<1>3. LocalSide(f) = LocalValid(f)
  BY <1>1 DEF RawState, Classify, AbsentState, NoEntry, LocalAbsent, LocalInvalid
<1>4. ValidState(LocalValid(f), BaseSide(m), OnlineRemote(s)) = "modified"
  BY <1>3 DEF RawState, Classify, LocalValid
<1>5. BaseSide(m) = BaseValid(m.sha, m.recHash)
  BY <1>2, <1>4 DEF ValidState, BaseNone, BaseStale
<1>6. VerifiedState(LocalValid(f), BaseValid(m.sha, m.recHash), OnlineRemote(s)) = "modified"
  BY <1>4, <1>5 DEF ValidState, BaseValid
<1>7. ~RemoteMoved(BaseValid(m.sha, m.recHash), OnlineRemote(s)) /\ OnlineRemote(s).kind # "absent"
  BY <1>6 DEF VerifiedState
<1>8. OnlineRemote(s) = RemotePresent(s) /\ s # 0
  BY <1>7 DEF OnlineRemote, RemoteAbsent
<1>. QED BY <1>7, <1>8 DEF RemoteMoved, BaseValid, RemotePresent, HasBase

LEMMA ConflictState ==
    ASSUME NEW f \in Files, NEW m \in Meta, NEW s \in Sha, State(f, m, s) = "conflict"
    PROVE  s # 0 /\ (m.sha = 0 \/ s # m.sha \/ (m.sha = s /\ m.side # 0 /\ m.side # s))
<1>1. RawState(f, m, s) = "conflict" \/ (RawState(f, m, s) = "modified" /\ m.side # 0 /\ m.side # m.sha)
  BY DEF State, ApplySidecar
<1>. QED BY <1>1, RawConflict, RawModified

(* A repair clears a sidecar only of a page that holds what the repaired   *)
(* record says.                                                            *)
LEMMA DecideConflicts ==
    ASSUME IInv, ConflictInv, NEW c \in Clones, NEW p \in Pages, Stale(meta[c][p]),
           NEW r, r = Decide(file[c][p], meta[c][p])
    PROVE  /\ SideOK(p, r) /\ Settled(r)
           /\ meta[c][p].side # 0 /\ r.side = 0 => file[c][p] = r.recHash
<1>. DEFINE f == file[c][p]
            m == meta[c][p]
            server == log[m.sha].content
<1>1. m \in Meta /\ m.sha # 0 /\ SideOK(p, m) /\ Settled(m) /\ IsVersion(m.sha, p)
  BY JobType, JobNow, BaseVersion DEF Stale, IInv
<1>2. CASE f = server
  <2>1. r = Synced(m.sha)
    BY <1>2 DEF Decide
  <2>2. SideOK(p, r) /\ Settled(r)
    BY <2>1, SyncedConflicts
  <2>3. r.recHash = server
    BY <2>1 DEF Synced
  <2>. QED BY <1>2, <2>2, <2>3
<1>3. CASE f # server /\ Verified(m)
  <2>1. r = [m EXCEPT !.sha = m.recSha,
                      !.side = IF f \in Contents /\ f # m.recHash /\ m.sha # m.recSha
                               THEN m.sha ELSE @]
    BY <1>3 DEF Decide
  <2>2. r.side \in {m.sha, m.side} /\ (m.side # 0 => r.side # 0)
    BY <1>1, <2>1 DEF Meta
  <2>3. ~Whole
    BY <1>1, <1>3 DEF Stale, Verified, Settled
  <2>. QED BY <1>1, <2>2, <2>3 DEF SideOK, Settled
<1>4. CASE f # server /\ ~Verified(m)
  <2>1. r = [Synced(m.sha) EXCEPT !.side = m.side]
    BY <1>4 DEF Decide
  <2>2. r.side = m.side /\ r.sha = m.sha /\ r.recSha = m.sha
    BY <2>1 DEF Synced
  <2>. QED BY <1>1, <2>2 DEF SideOK, Settled
<1>. QED BY <1>2, <1>3, <1>4

LEMMA RepairedConflicts ==
    ASSUME IInv, ConflictInv, NEW c \in Clones, NEW fixed \in SUBSET Repairable(c), NEW p \in Pages,
           NEW r, r = Repaired(c, fixed)[p]
    PROVE  /\ r \in Meta /\ SideOK(p, r) /\ Settled(r) /\ (r.sha # 0 => IsVersion(r.sha, p))
           /\ meta[c][p].side # 0 /\ r.side = 0 => file[c][p] = r.recHash
<1>1. r \in Meta /\ RecordOK(c, p, r)
  BY RepairedOK
<1>2. r.sha # 0 => IsVersion(r.sha, p)
  BY <1>1, KnownVersion DEF RecordOK, IInv
<1>3. CASE p \in fixed
  <2>1. Stale(meta[c][p]) /\ r = Decide(file[c][p], meta[c][p])
    BY <1>3 DEF Repairable, Repaired
  <2>. QED BY <1>1, <1>2, <2>1, DecideConflicts
<1>4. CASE p \notin fixed
  <2>1. r = meta[c][p]
    BY <1>4 DEF Repaired
  <2>2. SideOK(p, r) /\ Settled(r)
    BY <2>1, JobNow
  <2>. QED BY <1>1, <1>2, <2>1, <2>2
<1>. QED BY <1>3, <1>4

LEMMA RepairConflicts ==
    ASSUME IInv, IInv', Grows, ConflictInv, NEW c \in Clones, Repair(c)
    PROVE  ConflictInv'
<1>1. PICK fixed \in SUBSET Repairable(c) \ {{}}, landing \in Landings(FALSE) :
         Save(c, Repaired(c, fixed), landing)
  BY DEF Repair
<1>. DEFINE new == Repaired(c, fixed)
<1>2. new \in [Pages -> Meta]
  BY RepairedOK
<1>3. \A p \in Pages : SideOK(p, new[p]) /\ Settled(new[p])
  BY RepairedConflicts
<1>4. UNCHANGED <<log, tip>> /\ FALSE \in BOOLEAN
  BY DEF Repair
<1>. HIDE DEF new
<1>. QED BY <1>1, <1>2, <1>3, <1>4, SaveConflicts DEF new

(* A clone's records and jobs replaced by sound ones. *)
LEMMA BeginConflicts ==
    ASSUME IInv, IInv', Grows, ConflictInv, NEW c \in Clones, NEW new, NEW o,
           meta' = [meta EXCEPT ![c] = new], op' = [op EXCEPT ![c] = o], UNCHANGED <<log, tip>>,
           \A p \in Pages : SideOK(p, new[p]) /\ Settled(new[p]) /\ RecentJob(p, new[p], o.job[p])
    PROVE  ConflictInv'
<1>1. /\ meta'[c] = new /\ op'[c] = o
      /\ \A d \in Clones \ {c} : meta'[d] = meta[d] /\ op'[d] = op[d]
  BY DEF IInv, TypeOK
<1>2. \A p \in Pages : PageInv(c, p)'
  <2> SUFFICES ASSUME NEW p \in Pages PROVE PageInv(c, p)'
    OBVIOUS
  <2>1. SideOK(p, meta[c][p])' /\ Settled(meta[c][p])'
    BY <1>1 DEF SideOK, Settled, IsVersion
  <2>2. RecentJob(p, meta[c][p], op[c].job[p])'
    BY <1>1 DEF RecentJob, IsVersion
  <2>. QED BY <2>1, <2>2 DEF PageInv
<1>3. TipLast'
  BY TipsKept DEF ConflictInv
<1>. QED BY <1>1, <1>2, <1>3, CloneMoves

(* What pull takes for a conflict is one: a later version is published.    *)
LEMMA LaterVersion ==
    ASSUME IInv, ConflictInv, NEW c \in Clones, NEW p \in Pages, NEW r \in Meta, Whole,
           SideOK(p, r), Settled(r), r.sha # 0, IsVersion(r.sha, p), State(file[c][p], r, tip[p]) = "conflict"
    PROVE  tip[p] # 0 /\ IsVersion(tip[p], p) /\ tip[p] > r.sha
<1>1. file[c][p] \in Files /\ tip[p] \in Sha /\ tip[p] \in Nat
  BY JobType, ShaNumbers DEF IInv
<1>2. tip[p] # 0 /\ (r.sha # tip[p] \/ (r.sha = tip[p] /\ r.side # 0))
  BY <1>1, ConflictState
<1>3. IsVersion(tip[p], p) /\ \A s : IsVersion(s, p) => tip[p] >= s
  BY <1>2, TipRecent
<1>4. r.sha \in Nat /\ tip[p] >= r.sha
  BY <1>3 DEF IsVersion
<1>5. ~(r.sha = tip[p] /\ r.side # 0)
  <2> SUFFICES ASSUME r.sha = tip[p], r.side # 0 PROVE FALSE
    OBVIOUS
  <2>1. IsVersion(r.side, p) /\ r.side > r.sha
    BY DEF SideOK, Settled
  <2>2. tip[p] >= r.side /\ r.side \in Nat
    BY <1>3, <2>1 DEF IsVersion
  <2>. QED BY <1>1, <2>1, <2>2
<1>. QED BY <1>1, <1>2, <1>3, <1>4, <1>5

LEMMA PullBeginConflicts ==
    ASSUME IInv, IInv', Grows, ConflictInv, NEW c \in Clones, PullBegin(c)
    PROVE  /\ ConflictInv'
           /\ \A d \in Clones, p \in Pages : meta[d][p].side # 0 /\ meta'[d][p].side = 0 =>
                 file[d][p] = meta'[d][p].recHash
<1>. DEFINE m(fixed) == Repaired(c, fixed)
            state(fixed, p) == State(file[c][p], m(fixed)[p], tip[p])
            job(fixed, p) == [state |-> state(fixed, p), seen |-> file[c][p], got |-> 0, step |-> "need"]
            o(fixed) == [cmd |-> "pull",
                         job |-> [p \in Pages |-> IF state(fixed, p) \in Needed THEN job(fixed, p) ELSE NoJob]]
<1>1. PICK fixed \in SUBSET Repairable(c) :
         /\ meta' = [meta EXCEPT ![c] = m(fixed)]
         /\ op' = [op EXCEPT ![c] = o(fixed)]
  BY DEF PullBegin
<1>2. \A p \in Pages : /\ m(fixed)[p] \in Meta /\ SideOK(p, m(fixed)[p]) /\ Settled(m(fixed)[p])
                       /\ m(fixed)[p].sha # 0 => IsVersion(m(fixed)[p].sha, p)
                       /\ meta[c][p].side # 0 /\ m(fixed)[p].side = 0 => file[c][p] = m(fixed)[p].recHash
  BY RepairedConflicts
<1>3. ASSUME NEW p \in Pages PROVE RecentJob(p, m(fixed)[p], o(fixed).job[p])
  <2>1. CASE state(fixed, p) \notin Needed
    <3>1. o(fixed).job[p] = NoJob
      BY <2>1
    <3>. QED BY <3>1, NoJobRecent
  <2>2. CASE state(fixed, p) \in Needed
    <3>1. o(fixed).job[p] = job(fixed, p)
      BY <2>2
    <3>2. Whole /\ m(fixed)[p].sha # 0 /\ state(fixed, p) = "conflict" =>
             IsVersion(tip[p], p) /\ tip[p] > m(fixed)[p].sha
      <4>. HIDE DEF m
      <4>. QED BY <1>2, LaterVersion
    <3>. HIDE DEF m, state
    <3>3. RecentJob(p, m(fixed)[p], job(fixed, p))
      BY <3>2 DEF RecentJob, Clearing, Noting, IsVersion
    <3>. QED BY <3>1, <3>3
  <2>. QED BY <2>1, <2>2
<1>4. UNCHANGED <<log, tip, file>> /\ meta'[c] = m(fixed) /\ \A d \in Clones \ {c} : meta'[d] = meta[d]
  BY <1>1 DEF PullBegin, IInv, TypeOK
<1>. HIDE DEF m, o
<1>5. ConflictInv'
  BY <1>1, <1>2, <1>3, <1>4, BeginConflicts
<1>. QED BY <1>2, <1>4, <1>5

LEMMA PushBeginConflicts ==
    ASSUME IInv, IInv', Grows, ConflictInv, NEW c \in Clones, PushBegin(c)
    PROVE  /\ ConflictInv'
           /\ \A d \in Clones, p \in Pages : meta[d][p].side # 0 /\ meta'[d][p].side = 0 =>
                 file[d][p] = meta'[d][p].recHash
<1>. DEFINE m(fixed) == Repaired(c, fixed)
            state(fixed, p) == State(file[c][p], m(fixed)[p], tip[p])
            note(fixed, again, p) ==
                /\ RawState(file[c][p], m(fixed)[p], tip[p]) = "conflict"
                /\ m(fixed)[p].side # tip[p] \/ p \in again
            send(fixed, p) == [state |-> state(fixed, p), seen |-> file[c][p], got |-> 0, step |-> "send"]
            side(fixed, p) == [state |-> state(fixed, p), seen |-> file[c][p], got |-> tip[p], step |-> "note"]
            job(fixed, sel, again, p) ==
                CASE p \in sel /\ state(fixed, p) \in Sendable -> send(fixed, p)
                  [] p \in sel /\ note(fixed, again, p) -> side(fixed, p)
                  [] OTHER -> NoJob
            o(fixed, sel, again) == [cmd |-> "push", job |-> [p \in Pages |-> job(fixed, sel, again, p)]]
<1>1. PICK fixed \in SUBSET Repairable(c), sel \in SUBSET Pages \ {{}}, again \in SUBSET Pages :
         /\ meta' = [meta EXCEPT ![c] = m(fixed)]
         /\ op' = [op EXCEPT ![c] = o(fixed, sel, again)]
  BY DEF PushBegin
<1>2. \A p \in Pages : /\ m(fixed)[p] \in Meta /\ SideOK(p, m(fixed)[p]) /\ Settled(m(fixed)[p])
                       /\ m(fixed)[p].sha # 0 => IsVersion(m(fixed)[p].sha, p)
                       /\ meta[c][p].side # 0 /\ m(fixed)[p].side = 0 => file[c][p] = m(fixed)[p].recHash
  BY RepairedConflicts
<1>3. ASSUME NEW p \in Pages PROVE RecentJob(p, m(fixed)[p], o(fixed, sel, again).job[p])
  <2>1. \/ job(fixed, sel, again, p) = send(fixed, p)
        \/ job(fixed, sel, again, p) = side(fixed, p) /\ RawState(file[c][p], m(fixed)[p], tip[p]) = "conflict"
        \/ job(fixed, sel, again, p) = NoJob
    <3>. HIDE DEF send, side, state, m
    <3>. QED OBVIOUS
  <2>. HIDE DEF m, state
  <2>2. RecentJob(p, m(fixed)[p], send(fixed, p))
    BY DEF RecentJob, Clearing, Noting
  <2>3. ASSUME RawState(file[c][p], m(fixed)[p], tip[p]) = "conflict"
        PROVE  RecentJob(p, m(fixed)[p], side(fixed, p))
    <3>1. file[c][p] \in Files /\ tip[p] \in Sha /\ tip[p] \in Nat
      BY JobType, ShaNumbers DEF IInv
    <3>2. tip[p] # 0 /\ (m(fixed)[p].sha = 0 \/ tip[p] # m(fixed)[p].sha)
      BY <1>2, <2>3, <3>1, RawConflict
    <3>3. IsVersion(tip[p], p) /\ \A s : IsVersion(s, p) => tip[p] >= s
      BY <3>2, TipRecent
    <3>4. m(fixed)[p].sha # 0 => tip[p] > m(fixed)[p].sha
      BY <1>2, <3>1, <3>2, <3>3 DEF IsVersion
    <3>. QED BY <3>3, <3>4 DEF RecentJob, Clearing, Noting
  <2>4. o(fixed, sel, again).job[p] = job(fixed, sel, again, p)
    OBVIOUS
  <2>. HIDE DEF job, send, side, o
  <2>. QED BY <2>1, <2>2, <2>3, <2>4, NoJobRecent
<1>4. UNCHANGED <<log, tip, file>> /\ meta'[c] = m(fixed) /\ \A d \in Clones \ {c} : meta'[d] = meta[d]
  BY <1>1 DEF PushBegin, IInv, TypeOK
<1>. HIDE DEF m, o
<1>5. ConflictInv'
  BY <1>1, <1>2, <1>3, <1>4, BeginConflicts
<1>. QED BY <1>2, <1>4, <1>5

LEMMA TheirsBeginConflicts ==
    ASSUME IInv, IInv', Grows, ConflictInv, NEW c \in Clones, NEW q \in Pages, TheirsBegin(c, q)
    PROVE  ConflictInv'
<1>. DEFINE j == [NoJob EXCEPT !.got = tip[q], !.step = "theirs"]
            o == [cmd |-> "theirs", job |-> [Idle.job EXCEPT ![q] = j]]
<1>1. /\ op' = [op EXCEPT ![c] = o] /\ UNCHANGED <<log, tip>> /\ tip[q] # 0
      /\ meta' = [meta EXCEPT ![c] = meta[c]]
  BY DEF TheirsBegin, IInv, TypeOK
<1>2. \A p \in Pages : SideOK(p, meta[c][p]) /\ Settled(meta[c][p])
  BY JobNow
<1>3. j.step = "theirs" /\ j.got = tip[q] /\ tip[q] >= meta[c][q].side
  BY <1>1, TipRecent DEF NoJob
<1>4. \A p \in Pages : o.job[p] = IF p = q THEN j ELSE NoJob
  BY DEF Idle
<1>5. ASSUME NEW p \in Pages PROVE RecentJob(p, meta[c][p], o.job[p])
  <2>1. CASE p = q
    <3>. HIDE DEF j
    <3>. QED BY <1>3, <1>4, <2>1 DEF RecentJob, Clearing, Noting
  <2>2. CASE p # q
    <3>1. o.job[p] = NoJob
      BY <1>4, <2>2
    <3>. QED BY <3>1, NoJobRecent
  <2>. QED BY <2>1, <2>2
<1>. HIDE DEF o
<1>. QED BY <1>1, <1>2, <1>5, BeginConflicts

LEMMA ResolveOursConflicts ==
    ASSUME IInv, IInv', Grows, ConflictInv, NEW c \in Clones, NEW q \in Pages, ResolveOurs(c, q)
    PROVE  ConflictInv'
<1>. DEFINE new == [meta[c] EXCEPT ![q] = Synced(tip[q])]
<1>1. PICK landing \in Landings(FALSE) : Save(c, new, landing)
  BY DEF ResolveOurs
<1>2. IsVersion(tip[q], q) /\ UNCHANGED <<log, tip>> /\ FALSE \in BOOLEAN
  BY DEF ResolveOurs, IInv, TipOK
<1>3. Synced(tip[q]) \in Meta /\ SideOK(q, Synced(tip[q])) /\ Settled(Synced(tip[q]))
  BY <1>2, SyncedConflicts, SyncedType DEF IInv
<1>4. new \in [Pages -> Meta] /\ \A p \in Pages : new[p] = IF p = q THEN Synced(tip[q]) ELSE meta[c][p]
  BY <1>3 DEF IInv, TypeOK
<1>. HIDE DEF new
<1>5. \A p \in Pages : SideOK(p, new[p]) /\ Settled(new[p])
  BY <1>3, <1>4 DEF ConflictInv
<1>. QED BY <1>1, <1>2, <1>4, <1>5, SaveConflicts

(* The records of an idle clone replaced. *)
LEMMA IdleRecordsConflicts ==
    ASSUME IInv, IInv', Grows, ConflictInv, NEW c \in Clones, op[c] = Idle, NEW new,
           meta' = [meta EXCEPT ![c] = new], UNCHANGED <<log, tip, op>>,
           \A p \in Pages : SideOK(p, new[p]) /\ Settled(new[p])
    PROVE  ConflictInv'
<1>1. op' = [op EXCEPT ![c] = Idle]
  BY DEF IInv, TypeOK
<1>2. \A p \in Pages : RecentJob(p, new[p], Idle.job[p])
  <2>1. \A p \in Pages : Idle.job[p] = NoJob
    BY DEF Idle
  <2>. QED BY <2>1, NoJobRecent
<1>. HIDE DEF Idle
<1>. QED BY <1>1, <1>2, BeginConflicts

LEMMA ResolveDropConflicts ==
    ASSUME IInv, IInv', Grows, ConflictInv, NEW c \in Clones, NEW q \in Pages, ResolveDrop(c, q)
    PROVE  ConflictInv'
<1>. DEFINE m   == [meta[c][q] EXCEPT !.side = 0]
            new == [meta[c] EXCEPT ![q] = m]
<1>1. \A p \in Pages : meta[c][p] \in Meta /\ SideOK(p, meta[c][p]) /\ Settled(meta[c][p])
  BY JobNow, JobType DEF IInv
<1>2. SideOK(q, m) /\ Settled(m)
  <2>1. m.side = 0 /\ m.sha = meta[c][q].sha /\ m.recSha = meta[c][q].recSha
    BY <1>1 DEF Meta
  <2>. HIDE DEF m
  <2>. QED BY <1>1, <2>1 DEF SideOK, Settled
<1>. HIDE DEF m
<1>3. \A p \in Pages : SideOK(p, new[p]) /\ Settled(new[p])
  BY <1>1, <1>2 DEF IInv, TypeOK
<1>4. meta' = [meta EXCEPT ![c] = new] /\ op[c] = Idle /\ UNCHANGED <<log, tip, op>>
  BY DEF ResolveDrop, m
<1>. HIDE DEF new
<1>. QED BY <1>3, <1>4, IdleRecordsConflicts

LEMMA DamageConflicts ==
    ASSUME IInv, IInv', Grows, ConflictInv, NEW c \in Clones, Damage(c)
    PROVE  ConflictInv'
<1>1. \A p \in Pages : meta[c][p] \in Meta /\ SideOK(p, meta[c][p]) /\ Settled(meta[c][p])
  BY JobNow, JobType DEF IInv
<1>. USE DEF SideOK, Settled
<1>2. op[c] = Idle /\ UNCHANGED <<log, tip, op>>
  BY DEF Damage
<1>3. ASSUME NEW lost \in {"state", "bases", "conflicts"},
             meta' = [meta EXCEPT ![c] = [p \in Pages |-> Without(meta[c][p], lost)]]
      PROVE  ConflictInv'
  <2>. DEFINE new == [p \in Pages |-> Without(meta[c][p], lost)]
  <2>1. ASSUME NEW p \in Pages, NEW w, w = Without(meta[c][p], lost)
        PROVE  w.side \in {0, meta[c][p].side} /\ w.sha \in {0, meta[c][p].sha} /\ w.recSha \in {0, meta[c][p].recSha}
    BY <1>1, <2>1 DEF Without, Meta
  <2>2. \A p \in Pages : SideOK(p, new[p]) /\ Settled(new[p])
    BY <1>1, <2>1
  <2>. HIDE DEF new
  <2>. QED BY <1>2, <1>3, <2>2, IdleRecordsConflicts DEF new
<1>4. ASSUME NEW q \in Pages, NEW b \in Contents \cup {Absent}, meta' = [meta EXCEPT ![c][q].base = b]
      PROVE  ConflictInv'
  <2>. DEFINE m   == [meta[c][q] EXCEPT !.base = b]
              new == [meta[c] EXCEPT ![q] = m]
  <2>1. m.side = meta[c][q].side /\ m.sha = meta[c][q].sha /\ m.recSha = meta[c][q].recSha
    BY <1>1 DEF Meta
  <2>. HIDE DEF m
  <2>2. SideOK(q, m) /\ Settled(m)
    BY <1>1, <2>1
  <2>3. \A p \in Pages : SideOK(p, new[p]) /\ Settled(new[p])
    BY <1>1, <2>2 DEF IInv, TypeOK
  <2>4. meta' = [meta EXCEPT ![c] = new]
    BY <1>4 DEF m
  <2>. HIDE DEF new
  <2>. QED BY <1>2, <2>3, <2>4, IdleRecordsConflicts
<1>5. \/ \E lost \in {"state", "bases", "conflicts"} :
            meta' = [meta EXCEPT ![c] = [p \in Pages |-> Without(meta[c][p], lost)]]
      \/ \E p \in Pages, b \in Contents \cup {Absent} : meta' = [meta EXCEPT ![c][p].base = b]
  BY DEF Damage, IInv, TypeOK, Without
<1>. QED BY <1>3, <1>4, <1>5

(* Jobs given up. *)
LEMMA DropConflicts ==
    ASSUME IInv, IInv', Grows, ConflictInv, NEW c \in Clones, PullWriteFails(c) \/ GiveUp(c)
    PROVE  ConflictInv'
<1>1. UNCHANGED <<log, tip, meta>>
  BY DEF PullWriteFails, GiveUp
<1>2. \A d \in Clones, p \in Pages : op'[d].job[p] = op[d].job[p] \/ op'[d].job[p] = NoJob
  <2>1. CASE PullWriteFails(c)
    BY <2>1 DEF PullWriteFails, IInv, TypeOK
  <2>2. CASE GiveUp(c)
    <3>1. op' = [op EXCEPT ![c] = Idle]
      BY <2>2 DEF GiveUp
    <3>. QED BY <3>1, IdleStep DEF IInv
  <2>. QED BY <2>1, <2>2
<1>3. TipLast'
  BY <1>1, TipsKept DEF ConflictInv
<1>4. ASSUME NEW d \in Clones, NEW p \in Pages PROVE PageInv(d, p)'
  BY <1>1, <1>2, ConflictPages, PageStays DEF IInv
<1>. QED BY <1>3, <1>4 DEF ConflictInv, PageInv

-----------------------------------------------------------------------------
(* The theorems.                                                           *)

LEMMA InitConflicts == ASSUME Init PROVE ConflictInv
<1>1. TipLast
  BY DEF Init, StoreInit, TipLast
<1>2. \A c \in Clones, p \in Pages : meta[c][p] = NoMeta /\ op[c].job[p] = NoJob
  BY DEF Init, Idle
<1>3. \A p \in Pages : SideOK(p, NoMeta) /\ Settled(NoMeta)
  BY DEF SideOK, Settled, NoMeta
<1>. QED BY <1>1, <1>2, <1>3, NoJobRecent DEF ConflictInv

LEMMA NextConflicts ==
    ASSUME IInv, IInv', Grows, ConflictInv, Next PROVE ConflictInv'
<1>1. ASSUME NEW c \in Clones, NEW p \in Pages,
             \/ Edit(c, p)
             \/ PullFetch(c, p) \/ PullApply(c, p) \/ PullWrite(c, p)
             \/ PushServe(c, p) \/ PushNote(c, p)
             \/ ResolveOurs(c, p) \/ ResolveDrop(c, p)
             \/ TheirsBegin(c, p) \/ TheirsBackup(c, p) \/ TheirsWrite(c, p) \/ TheirsFinish(c, p)
      PROVE  ConflictInv'
  <2>. HIDE DEF ConflictInv, IInv, Grows
  <2>. QED BY <1>1, StoreConflicts, PullFetchConflicts, PullApplyConflicts, WriteConflicts, PushServeConflicts,
              PushNoteConflicts, ResolveOursConflicts, ResolveDropConflicts, TheirsBeginConflicts,
              TheirsFinishConflicts
<1>2. ASSUME NEW c \in Clones,
             \/ Repair(c) \/ PullBegin(c) \/ PullWriteFails(c) \/ PullFinish(c)
             \/ PushBegin(c) \/ PushFinish(c) \/ GiveUp(c) \/ Damage(c)
      PROVE  ConflictInv'
  BY <1>2, RepairConflicts, PullBeginConflicts, PushBeginConflicts, FinishConflicts, DropConflicts, DamageConflicts
<1>3. LateWrite \/ PeerWrite \/ Wipe => ConflictInv'
  BY StoreConflicts
<1>. QED BY <1>1, <1>2, <1>3 DEF Next

(* What conflicts rest on holds throughout: no sidecar is ahead of its     *)
(* page's tip, none is older than the base it is kept beside, and what an  *)
(* operation is about to record is no older than the sidecar it replaces.  *)
LEMMA Conflicts == Spec => [](IInv /\ ConflictInv)
<1>1. Init => IInv /\ ConflictInv
  BY InitInv, InitConflicts
<1>2. IInv /\ ConflictInv /\ [Next]_vars => (IInv /\ ConflictInv)'
  <2>1. ASSUME IInv, ConflictInv, Next PROVE IInv' /\ ConflictInv'
    <3>1. TypeOK' /\ Sound
      BY <2>1, NextSound
    <3>2. IInv' /\ Grows
      BY <2>1, <3>1, SoundStep DEF Sound
    <3>. QED BY <2>1, <3>2, NextConflicts
  <2>2. ASSUME IInv, ConflictInv, UNCHANGED vars PROVE IInv' /\ ConflictInv'
    <3>1. IInv'
      BY <2>2, StutterInv
    <3>2. ConflictInv'
      BY <2>2 DEF vars, ConflictInv, TipLast, SideOK, Settled, RecentJob, IsVersion
    <3>. QED BY <3>1, <3>2
  <2>. QED BY <2>1, <2>2
<1>. QED BY <1>1, <1>2, PTL DEF Spec

(* As long as records are saved as a whole (no process ends and no write   *)
(* fails inside FINISH), a modified page is turned into a conflict only by *)
(* a version newer than its base, whatever was abandoned, repaired, lost   *)
(* or re-created: no sidecar a clone keeps has been overtaken.             *)
THEOREM ConflictsAreNewer ==
    ASSUME Whole
    PROVE  Spec => []ConflictIsNewer
<1>1. IInv /\ ConflictInv => ConflictIsNewer
  <2> SUFFICES ASSUME IInv, ConflictInv, NEW c \in Clones, NEW p \in Pages, tip[p] # 0,
                      RawState(file[c][p], meta[c][p], tip[p]) = "modified",
                      State(file[c][p], meta[c][p], tip[p]) = "conflict"
               PROVE  meta[c][p].side > meta[c][p].sha
    BY DEF ConflictIsNewer
  <2>1. file[c][p] \in Files /\ meta[c][p] \in Meta /\ tip[p] \in Sha
    BY JobType DEF IInv
  <2>2. meta[c][p].sha # 0
    BY <2>1, RawModified
  <2>3. meta[c][p].side # 0
    BY DEF State, ApplySidecar
  <2>. QED BY <2>2, <2>3, JobNow DEF Settled
<1>. QED BY <1>1, Conflicts, PTL

(* An operation clears the record of a conflict only of a page whose user  *)
(* has that version or a later one, or whose file holds what the repaired  *)
(* record says: whatever fails between the writes of an operation.         *)
THEOREM ConflictsStay == Spec => ConflictsPersist
<1>. DEFINE A == \A c \in Clones, p \in Pages :
                    meta[c][p].side # 0 /\ meta'[c][p].side = 0 /\ op' # op =>
                       \/ \E s \in Known(c, p)' : s >= meta[c][p].side
                       \/ file[c][p] = meta'[c][p].recHash
<1>1. (IInv /\ ConflictInv) /\ (IInv /\ ConflictInv)' /\ [Next]_vars => [A]_vars
  <2> SUFFICES ASSUME IInv, ConflictInv, IInv', Next, NEW d \in Clones, NEW p \in Pages,
                      meta[d][p].side # 0, meta'[d][p].side = 0, op' # op
               PROVE  \/ \E s \in Known(d, p)' : s >= meta[d][p].side
                      \/ file[d][p] = meta'[d][p].recHash
    OBVIOUS
  <2>1. Grows
    BY NextSound DEF Sound
  <2>2. meta' # meta
    OBVIOUS
  <2>3. \E c \in Clones, q \in Pages : PullFinish(c) \/ PushFinish(c) \/ TheirsFinish(c, q) \/ PullBegin(c) \/ PushBegin(c)
    <3>1. ASSUME NEW c \in Clones, NEW q \in Pages,
                 \/ Edit(c, q) \/ PullFetch(c, q) \/ PullApply(c, q) \/ PullWrite(c, q) \/ PushServe(c, q)
                 \/ PushNote(c, q) \/ TheirsBegin(c, q) \/ TheirsBackup(c, q) \/ TheirsWrite(c, q)
          PROVE  FALSE
      BY <2>2, <3>1 DEF Edit, PullFetch, PullApply, PullWrite, PushServe, PushNote, TheirsBegin, TheirsBackup,
                        TheirsWrite
    <3>idle. ASSUME NEW c \in Clones, op[c] = Idle, op' = [op EXCEPT ![c] = Idle] PROVE FALSE
      <4>. HIDE DEF Idle
      <4>1. op = [x \in Clones |-> op[x]]
        BY DEF IInv, TypeOK
      <4>. QED BY <3>idle, <4>1
    <3>2. ASSUME NEW c \in Clones, NEW q \in Pages, ResolveOurs(c, q) \/ ResolveDrop(c, q) PROVE FALSE
      BY <3>2, <3>idle DEF ResolveOurs, ResolveDrop, Save
    <3>3. ASSUME NEW c \in Clones, PullWriteFails(c) \/ GiveUp(c) PROVE FALSE
      BY <2>2, <3>3 DEF PullWriteFails, GiveUp
    <3>4. ASSUME NEW c \in Clones, Repair(c) \/ Damage(c) PROVE FALSE
      BY <3>4, <3>idle DEF Repair, Damage, Save
    <3>5. ~(LateWrite \/ PeerWrite \/ Wipe)
      BY <2>2 DEF LateWrite, PeerWrite, Wipe
    <3>. QED BY <3>1, <3>2, <3>3, <3>4, <3>5 DEF Next
  <2>. HIDE DEF IInv, ConflictInv, Grows
  <2>. QED BY <2>1, <2>3, FinishConflicts, TheirsFinishConflicts, PullBeginConflicts, PushBeginConflicts
<1>2. Spec => [][A]_vars
  BY <1>1, Conflicts, PTL DEF Spec
<1>. QED BY <1>2 DEF ConflictsPersist
=============================================================================
