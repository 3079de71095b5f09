----------------------------- MODULE SafeSyncInv -----------------------------
(***************************************************************************)
(* The inductive invariant of SafeSync.  BaseTruthful is not inductive: it *)
(* rests on what an operation under way has fetched, sent and written,     *)
(* and on the requests that are still on their way.                        *)
(***************************************************************************)
EXTENDS SafeSync

IsVersion(s, p) == s \in 1 .. Len(log) /\ log[s].page = p

TipOK  == \A p \in Pages : tip[p] # 0 => IsVersion(tip[p], p)

ToldOK == \A c \in Clones, p \in Pages : \A s \in told[c][p] : IsVersion(s, p)

FileOK == \A c \in Clones, p \in Pages :
             file[c][p] \in Contents => file[c][p] \in held[c][p]

(* What the records m of a page say is true of the server's history. *)
RecordOK(c, p, m) ==
    /\ m.recSha # 0 => /\ m.recSha \in Known(c, p)
                       /\ log[m.recSha].page = p
                       /\ log[m.recSha].content = m.recHash
    /\ m.sha # 0 => m.sha \in Known(c, p)

(* What an operation has fetched is a version of the page; what it has put *)
(* in the file or found there, the user has had; what it sent is on record *)
(* as it was sent; what it is about to replace is no unsaved work.         *)
JobOK(c, p, j) ==
    /\ j.step \in {"have", "write", "written", "adopt", "pushed", "theirs", "overwrite"}
         => IsVersion(j.got, p)
    /\ j.step \in {"written", "adopt"} => log[j.got].content \in held[c][p]
    /\ j.step \in {"send", "pushed"} => j.seen \in Contents \cap held[c][p]
    /\ j.step = "pushed" => log[j.got].content = j.seen
    /\ j.step \in {"need", "have"} =>
         j.state \in Needed /\ (j.state = "incoming" => meta[c][p].recSha # 0)
    /\ "window" \notin Faults =>
         /\ j.step = "write" => file[c][p] \in Published(p) \cup {Absent}
         /\ j.step = "overwrite" => file[c][p] \in Saved(backup[c][p]) \cup {Absent}

JobsOK == \A c \in Clones, p \in Pages : JobOK(c, p, op[c].job[p])

(* A request that is still on its way carries a page its user had, and a   *)
(* parent its user knows.                                                  *)
RequestOK(it) == /\ it.by \in Clones
                 /\ it.content \in held[it.by][it.page]
                 /\ it.absent = (it.parent = 0)
                 /\ it.parent # 0 => it.parent \in Known(it.by, it.page)

LateOK == \A it \in late : RequestOK(it)

(* The inductive invariant.  With BaseTruthful it says that everything a   *)
(* command or a late request may use as a parent is known to its user,     *)
(* whatever was abandoned, cut short or repaired before.                   *)
IInv == TypeOK /\ TipOK /\ ToldOK /\ FileOK /\ BaseTruthful /\ JobsOK /\ LateOK

(* What conflicts rest on beside IInv.  A tip is the last version of its   *)
(* page, so that a sidecar is never ahead of it; what an operation fetched *)
(* or wrote is no older than the sidecar it clears.                        *)
TipLast == \A p \in Pages : \A s \in 1 .. Len(log) :
              tip[p] # 0 /\ log[s].page = p => s <= tip[p]

SideOK(p, m) == m.side # 0 => IsVersion(m.side, p)

(* As long as records are saved as a whole, the base record is for the     *)
(* page's sha and the sidecar for a newer version.                         *)
Whole == {"crash", "io"} \cap Faults = {}

Settled(m) ==
    Whole /\ m.sha # 0 =>
        /\ m.recSha \in {0, m.sha}
        /\ m.side # 0 => m.side > m.sha

Clearing == {"have", "write", "written", "adopt", "pushed", "theirs", "overwrite"}
Noting   == {"sidecar", "note"}

RecentJob(p, m, j) ==
    /\ j.step \in Clearing => j.got >= m.side
    /\ j.step \in Noting => IsVersion(j.got, p)
    /\ Whole /\ m.sha # 0 =>
         /\ j.step = "need" /\ j.state = "conflict" => \E v \in 1 .. Len(log) : log[v].page = p /\ v > m.sha
         /\ j.step = "have" /\ j.state = "conflict" => j.got > m.sha
         /\ j.step \in Noting => j.got > m.sha

ConflictInv ==
    /\ TipLast
    /\ \A c \in Clones, p \in Pages :
          /\ SideOK(p, meta[c][p]) /\ Settled(meta[c][p])
          /\ RecentJob(p, meta[c][p], op[c].job[p])
=============================================================================
