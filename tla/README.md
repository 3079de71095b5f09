# Contexo, specified in TLA+

Contexo keeps a team's wiki pages (markdown files under `.contexo/` of a code
repository) in step through a server that stores every page in a git history.
Several people, and the agents they run, edit the pages of their own clone and
call `ctx pull`, `ctx push`, `ctx resolve` and `ctx repair`. What has to be right
is the synchronisation: nobody's work is lost, nothing is overwritten unseen, and
what a command says about a page is so, whatever interleaves, fails or is cut
short. This directory models that core and the parts around it that have
concurrency or failure of their own, checks them with TLC and proves the main
properties of the core with TLAPS.

Paths below are relative to `src/internal/` unless they start with `src/`;
"README n" is line n of `src/README.md`.

## 1. Inventory

### Components that carry the synchronisation

| Component | State | Operations | What makes it correct |
|---|---|---|---|
| Decision table (`syncops/contract/classify.go`, `syncops/overlay.go`) | none | `Classify`, `ClassifySides`, `ApplySidecar` | the state table of README 191-201 on every combination of sides; no server change passes unmentioned; the offline answer agrees with the online one |
| Server page store (`server/gitstore`) | a git repository per team repo, one mutex each | `WriteWithOptions`, `ReadPage(At)`, `ListPages`, `ChangedSince`, history, diff | create-only guard and parent check are decided on the version that is replaced; re-sent bytes are no new version |
| Sync engines (`syncops/pull,push,resolve,repair,ensurebase,status.go`) | none of their own; they read, decide, fetch, then write working files and sync state | pull, push, resolve `--ours`/`--theirs`, EnsureBase/repair, status | no lost update, no lost edit, truthful bases, conflicts persist |
| Sync state (`syncstate/base,conflicts,layout,view.go`, `sync/state.go`) | `state.json` (`page_shas`), `bases.json`, base files, `conflicts.json`, backups | load, put, save, verify | any half-saved combination is recognised as stale or is still true |
| Sync lock (`syncstate/lock.go`) | a lock file, a guard file, and files renamed aside | acquire, judge stale, reclaim, release | one holder; only a judged-stale file is removed |
| Sync client (`sync/client.go`) | HTTP client with a 30 s time-out | one call per server operation | a request given up on may still be carried out |
| Server handlers (`server/handler/handler.go`) | none; per-repository write lock per file | list, read, pull, push | each file of a request is refused or written by itself |

### Components around it

| Component | State | Operations | What makes it correct |
|---|---|---|---|
| Repository creation and membership (`server/handler/handler_repos,members,invites,activity.go`, `userstore/`) | SQLite rows, git directories, `createRepoMu` | create, init, push to a missing repository, members, invite keys, join, remove, sign-in | nothing of a deleted repository reaches the one that takes its directory; who reads or writes was let into this one; an owned repository stays owned |
| Server reads (`handler_diff,evolution.go`, `gitstore`, `sync/client.go`) | none; each read is several git processes | page, page at a commit, diff with blame, evolution, batch pull | contents stay with their shas, neighbours are neighbours, a pull gets all it needs |
| Capture buffers (`capture/`, `cli/capture.go`) | a JSONL buffer and a pending prompt per session | a hook process per prompt and per answer, prune | turns are not lost, doubled or renumbered; the whole reply is captured |
| Distill guard and handshake (`syncops/guard.go`, `mcp/tools.go`) | none | guard, PUSH_PAUSED, distill_done and its archiving | no pending session is overlooked |
| MCP server and merge briefs (`mcp/tools,merge.go`) | versions shown in this process (`briefSHAs`) | ctx_push with `resolved`, ctx_pull, ctx_write_page | an agent resolves onto what it was shown; merges end |
| Online status (`syncops/status.go`) | none | `ctx status` | what it says is so; what it cannot know it names |
| Page differ (`diff/section.go`) and the brief's comparison | none | sections, frontmatter, lines, both sides of a merge | the report rebuilds the new page |
| Error codes (`sync/errors.go`, `ui/errors.go`, `syncops/contract/errors.go`) | none | map an answer, wrap, envelope | only a deleted page is taken for deleted; a code survives the way up |
| Configuration and credentials (`config/`, `cli/auth,browserlogin,remote,join.go`) | `config.json`, project and home credentials | login, remote set, set-repo, join, checkout | which token goes to which server |
| Agent wiring (`cli/init,detach,hooks,mcp_install.go`, `cli/agentwire/`) | the agents' MCP and hook files, `.gitignore` | init, install, uninstall, detach | what others wrote stays, what ctx wrote goes |
| Authentication, tokens, routing (`auth/`, `handler_pats.go`, `server/`) | sessions, token rows | single statements | no protocol |
| Terminal, migration, generation, updater, indexer, docs dump | files read or written once | sequential | none that interleaves |

### How they interact

A command takes the clone's lock, lists the server's pages (one call), repairs
bases it cannot verify (EnsureBase; more reads), classifies every page from
working file, base record, listing and sidecar, exchanges pages with the server
(one call or several), and then writes: working files, then sync state in the
order of `syncstate/layout.go:27`. The user's editor takes no lock and may
change a file between any two of these steps. The server handles the files of a
push one at a time, each under one hold of the repository's mutex, and other
clones' requests come in between. The client may give up on a push the server
goes on with. The process may end anywhere, and every write may fail. The
hazards this gives rise to are listed, each at its line, in `PROJECT.json`.

Around that: the server decides who may use a repository, from rows that outlive
its directory. Agents work through the MCP server, a process of its own that
calls the same engines and keeps, per page, the version it has shown. Their
hooks write capture buffers that a push looks at. All commands find server and
token in three files that logins and checkouts change.

## 2. The modules

```
PageStore ─┐
Classify ──┴─ SafeSync ── SafeSyncInv ─┬─ MCSync            (TLC)
     │            └ INSTANCE SharedPages └─ SafeSyncProofs   (TLAPS)
     ├─ ClassifyCheck ─┐
     ├─ Status ── StatusCheck ─┤
     │   SectionDiff ── DiffCheck ─┤
     │    ErrorCodes ── ErrorCheck ─┤
PageStore ── ServerReads ───────┴─ MCAnswers             (TLC)
                 └─ ReadsInv ── ReadsProofs              (TLAPS)
Classify ── MergeHandshake ─┬─ MCMerge                       (TLC)
                            └─ MergeProofs                   (TLAPS)

RepoAccess ─┬─ MCAccess                                                       (TLC)
            └─ AccessProofs                                                   (TLAPS)

SyncLock ─┬─ MCLock                                                           (TLC)
          └─ SyncLockProofs                                                   (TLAPS)
CaptureBuffer ── DistillPush ── CaptureInv ─┬─ MCWorkstation                  (TLC)
                                            └─ CaptureTypes ── CaptureProofs  (TLAPS)

SignIn ─┬─ MCAnswers                                                          (TLC)
Wiring ─┼─ MCWorkstation                                                      (TLC)
        ├─ WorkstationProofs                                                  (TLAPS)
        └ ClassifyCheck, StatusCheck and ErrorCheck, for the proofs
```

`Tables` holds what the four checks of pure operators share: a question asked, an
answer given. **MCAnswers** (the tables, the reads, the sign-in) and **MCWorkstation**
(the agents' configuration, the capture buffers) each check parts that share no
state: which part moves in a behaviour is fixed at its start (`part`),
and the others rest.

**Classify** is the decision table as operators: a local side (absent, invalid,
valid with a hash), a base side (none, stale, valid) and a remote side (unknown,
absent, present) give one page state, conflict kind and note; `ApplySidecar` is
the overlay that turns a modified page with a recorded conflict into a conflict;
`OnlineRemote` and `OfflineRemote` are the two ways `View.gather` builds the
remote side. **ClassifyCheck** states the README's table independently, as a
relation between the sides rather than as the code's order of tests, and
compares the two.

**PageStore** is the server's copy: `log`, the commits in order; `tip`, the last
commit of each page (what `git log -n1 -- path` answers); `born`, where the
present life of the repository begins. A git sha is a position in `log`, and 0
the empty string: a sha is never reused, which positions share. `StoreWrite` is
`WriteWithOptions` with its two refusals and its no-op; `StoreWipe` is the
operator deleting the repository directory, which a later push re-creates
(`handler.go:515`), so that clones hold shas no request can resolve.

**SafeSync** composes any number of clones with the store. Its state and the
code's:

| Variable | Code |
|---|---|
| `file[c][p]` | the working file: absent, unparsable (`Broken`), or a content |
| `meta[c][p].sha` | `page_shas` of `state.json` |
| `meta[c][p].recSha, recHash` | the page's record in `bases.json` |
| `meta[c][p].base` | the base file |
| `meta[c][p].side` | the server sha of the page's record in `conflicts.json` |
| `backup[c][p]` | `.contexo/.sync/backup/`: the file written last, and all older ones |
| `op[c]` | the command that holds the clone's lock, with a job per page |
| `late` | files of push requests whose client has gone |
| `held`, `told` | history variables: contents the user has had in the file, versions the user resolved against |

One action per phase that can interleave with something:

| Actions | Code |
|---|---|
| `PullBegin`, `PullFetch`, `PullApply`, `PullWrite`, `PullWriteFails`, `PullFinish` | `pull.go`: PREPARE and CLASSIFY, FETCH per page, the re-read, the rename, a failed write that ends APPLY but not FINISH, FINISH |
| `PushBegin`, `PushServe`, `PushNote`, `PushFinish` | `push.go`: classification and the request's contents, the server's handling of one file, the fetch for a listed conflict's sidecar, pushApply |
| `ResolveOurs`, `ResolveDrop`, `TheirsBegin`, `TheirsBackup`, `TheirsWrite`, `TheirsFinish` | `resolve.go` |
| `Repair` (and inside `PullBegin`, `PushBegin`) | `repair.go`: EnsureBase, with any subset of its requests failing |
| `GiveUp`, `LateWrite` | a command that ends before it saved anything; the server carrying out what it had received |
| `Edit`, `PeerWrite`, `Wipe`, `Damage` | the user, an older or foreign client, the operator, a lost or unreadable file |

`Landings` is the write order of `layout.go`: a crash leaves a prefix (any of
the base files, then `bases.json`, `conflicts.json`, `state.json`); pull and
push go on after a failed write, so with I/O faults any combination is left.
`ResolveOurs` and `Repair` are single steps because nothing they read is read
again and nothing they write is read by another process before they finish; the
landing still cuts their writes anywhere.

**SharedPages** is the abstract specification: a history per page that only
grows, and writers who may replace the current version of a page only when they
know it. It has no bases, sidecars, requests or crashes. `SafeSync!SharedSpec`
is the refinement: history is `log`, current is `tip`, and a clone's user knows
a version if its content was once in the working file, or the user resolved
against it (`Known`).

**SyncLock** is `syncstate/lock.go`, which gives SafeSync its "one operation per
clone": any number of processes, on one machine or two, with one directory.

| Variable | Code |
|---|---|
| `lock` | the file `.sync/lock`: identity (inode and mtime), the process that made it, whether its JSON is written, whether it has reached its age limit |
| `guard` | the file `.sync/lock.guard` |
| `pc[p]` | the call the process makes next |
| `mem[p]` | its local variables: reclaim or unlock, the lock file judged (or created), the guard file judged (or created), the file renamed aside, the try of `takeLockGuard` |

| Actions | Code |
|---|---|
| `Request`, `Create`, `Write`, `WriteFails`, `Discard` | `Lock`/`TryLock`, `createLockFile` |
| `Read`, `Poll`, `GiveUp` | `readLockFile` and `judgeLock`; the poll loop of `Lock`, its deadline, `TryLock` |
| `Unlock` | the function `Lock` returned |
| `Guard`, `StatGuard`, `Clear`, `Aside` | `takeLockGuard`, `clearStaleGuard`: O_EXCL create, stat, rename aside, put back or drop |
| `Check`, `Remove`, `LastCheck`, `LastRemove` | `removeLockIfUnchanged`, under the guard and without it |
| `Release`, `Unguard` | `releaseLockGuard`: stat, then remove |
| `Crash`, `AgeLock`, `AgeGuard` | a process ends; a file reaches ten minutes (thirty seconds unwritten), five seconds |

Every system call that another process could observe is a step of its own.

**SafeSyncInv** holds the inductive invariants, **MCSync** the TLC instances,
**SafeSyncProofs** the theorems.

**RepoAccess** is who may use a repository. Rows (`role`, `keys`, `feed`) are
kept per id, content per directory (`gen`, the directory's life): two ids may
name one directory, and an operator deletes a directory but not its rows. A
request (`req[r]`) is a little state machine; one step is what runs between two
points where another request can interfere, so that a handler holding
`createRepoMu` (`mu`) from check to write is one step. A push and a pull carry the
life they decided on or read (`saw`) to their writes, which do not look at the
directory again: a page is stored with that life and the one it lands in
(`Stored`), an activity row says what life it is about and which there is when it
lands (`Row`).

| Actions | Code |
|---|---|
| `Enter`, `Lock`, `Purge`, `Own` | `createRepoAsOwner`, `createLegacyRepo`: the checks, the mutex and `git init`, the purge of the old rows, the owner's row |
| `Decide`, `Write`, `Record` | `requireMemberAfterCreate`, the push's pages, its activity rows |
| `Check`, `Look`, `Recheck` | `Read`, `Pull`, `ListMembers`: membership before and after the read |
| `Mint`, `ListKeys`, `Revoke`, `Expire`, `Join`, `Remove`, `Adopt`, `Claim`, `Upsert`, `Count` | invite keys, joining under the cap, removal, adoption of ownerless repositories, sign-in |

**ServerReads** runs every read as its sequence of git processes over the log of
PageStore, with pushes, a wiped repository and a change of the server's version
between any two. `Find`, `Blob`, `BlobOfCommit` read a page; `DiffTo`,
`DiffFrom`, `DiffLeft`, `DiffRight`, `DiffBlame` a diff; `LogPath`, `Entry` an
evolution; `List`, `BatchHead`, `Changed`, `ReadNext`, `Take`, `MissingRead`,
`Pulled` a pull with `last_pull_sha`, its fallback to single reads included.
**ReadsInv** has its inductive invariant, **ReadsProofs** the theorems.

**CaptureBuffer** has the hooks as processes (`hk[h]`) that take one system call
per step: stash and take the prompt, wait for the transcript (`LatestTurn`),
read the records, append a line or rewrite the file through `.tmp`, prune what
is thirty days old. **DistillPush** adds `ctx_push`: the guard lists, stats and
reads the buffers one by one, the push is paused, and `distill_done` archives.
**CaptureInv** has the inductive invariants; the theorems are in **CaptureTypes**
(types, the guard) and **CaptureProofs** (turns and replies).

**MergeHandshake** is one page between an agent, its MCP process, a user and
teammates. A text is the set of changes it contains: merging is union, and a
lost change is one the next version lacks. `reg` is the entry of `briefSHAs`,
`side` the conflict sidecar with or without its content file; `CallPush`,
`Resolve`, `Fresh`, `Content`, `List`, `NoteConflict`, `Send` are the phases of
ctx_push, `CallPull` and `WritePage` the other tools. It uses Classify for the
page's state. Its invariant and theorems are in **MergeProofs**.

**SignIn** has the three files of a workstation (`config`, `project`, `home`,
with `linked` when two are one file), the login as steps that may be cut, tabs
of abandoned logins, the pickers and the checkout of a project. `Read`,
`ResolveRemote`, `Refusal` and `Callback` are the functions that decide. A token
is named by the server that issued it.

**Wiring** has each agent's file as the set of its entries, each with its list,
its group and its owner. A command has a set of files left to write (`job.todo`)
and takes them in the code's order (`IsNext`); detach first decides (`Detach`), then waits for an answer (`Answer`), and then
acts on what it decided. `EditFile` is everybody else: the user and other programs
add and remove entries of their own (`UsersEdits`), remove one of ctx's or put one
back as a checkout does, that of another version of ctx included (`CtxEdits`),
delete the file, write comments into it or take them out (`Edited`). A clone may
come with entries of another version and with one hook of two (`Found`). What
excuses a command is history of its job that no guard reads: the files in which
others changed ctx's entries when it was through with them (`touched`), those in
which detach found the prompt's hook alone (`half`).
Their theorems are in **WorkstationProofs**, with those about the page-state
table and status; those about RepoAccess are in **AccessProofs**.

**SectionDiff**, **Status**, **ErrorCodes** are pure operators: the differ and the
brief's comparison of two sides; the status document from everything it reads;
the way of a failure from the server's answer to exit code and envelope. Their
`Check` modules state what the result must mean, without the code's case
distinctions.

### Abstractions, and what they leave out

- A content stands for the bytes `SanitizeContent` and `Normalize` agree on
  (pull writes sanitised bytes, push sends normalised ones; hashes compare
  normalised ones).
- `Peers` are writers that send no parent, or always the latest: clients older
  than safe sync, and scripts. Their overwriting is their own; the properties
  are about the clones' pushes.
- One batch pull with `last_pull_sha` and one read per page both deliver a page
  as the server has it at some moment after the listing: `PullFetch` reads it
  per page, which allows every outcome of the batch and more.
- Of a conflict SafeSync keeps the recorded server version; its content file,
  kind and base only matter to what is shown (MergeHandshake has the content
  file), and to whether a push rewrites the record (`again` in `PushBegin`).
- In SafeSync the lock is assumed: one operation per clone at a time. That is
  `Exclusion` of SyncLock, under its conditions (section 6, and the ten minutes
  after which a lock is broken even if its holder lives).
- SyncLock reduces time to the limits of the code: a file is old or not. Unless
  `"slow"` is a fault, a file that its process is not done with does not grow
  old. Polling intervals, deadlines and the four attempts of a round become a
  free choice between trying again and giving up. An unlock that waited its six
  seconds in vain is a fault (`"io"`), because a guard is cleared after five.
  File identities are taken least unused first: only equality is ever asked.
  Processes are not restarted (a reused pid counts as alive and delays a reclaim
  to ten minutes), and one is always left. Not modelled: file systems without
  hard links, lock files that no ctx wrote, partial writes of the one line.
- Left out: names that differ only in case, legacy lower-case keys, `index.md`
  and `tags.md`, the dry run, JSON documents, messages.
- RepoAccess abstracts a page to the fact that something was stored, and by whom,
  decided in which life; a feed row to its id and the two lives. SQLite
  statements are atomic.
- CaptureBuffer names a record by the exchanges its prompt and reply come from;
  a transcript is the sequence of its blocks (text, tool, result), the last of
  which lands late. Only sessions of one kind in the instance have hooks that
  overlap, are killed or fire twice, to keep the run small.
- MergeHandshake makes a pull one step and a push three (list, note, send): how
  engines interleave below that is SafeSync's subject.
- SignIn abstracts a repository id to whether there is one; Wiring abstracts an
  entry's command line to whose it is and of which version of ctx. A hook group
  that is malformed (no list of hooks in it) is not modelled; the code drops one
  that it rewrites.

## 3. The runs

Every run on the server's log bounds it by `MaxCommits` (the guard of
`StoreWrite`); the other bounds are named below and in the modules. Deadlock is
checked where no run can stop: in the sync and lock runs edits and requests
remain possible. The others are finite by their bounds (requests, edits, faults,
questions) and end, and say `CHECK_DEADLOCK FALSE`.

| Run | Instance | What it shows |
|---|---|---|
| `answers` | tables: 3 shas, 3 hashes; pages of up to two sections; runs of up to four lines; two paths that differ in case. Reads: 2 pages, 2 contents, 4 commits, three with a wipe, an older server. Sign-in: 2 servers, two files each in four shapes, cut and failed writes | the page-state table is README's; no silent server change; offline and online agree; the overlay is safe; diffs rebuild; briefs announce; codes survive; status tells the truth; what a read of several git calls may and may not answer; tokens stay where they belong |
| `races` | 2 clones, 1 page, 2 contents, 3 commits; pull, push, `--ours`; a deleted and re-created repository, whose history is followed to two commits | unchanged is equal, a conflict is about a newer version, SafeSync implements SharedPages (no clone replaces a version it does not know) |
| `retry` | 1 clone and a peer, 2 contents and an unparsable file; pull, push, `--ours`, repair, cut at every write; abandoned requests | type and inductive invariant; no lost update; conflict records stay until settled |
| `theirs` | 1 clone and a peer; pull, push, `--theirs`, repair; edits at any moment between steps; failed writes, lost index and base files, two backups in one second | no local edit is lost, and base records stay true |
| `lock_crash` | 3 processes, one on another machine; crashes outside the guard, failed writes, removes and unlocks without the guard | one process inside, no live lock removed, and the invariant from which that is proved |
| `lock_orphan` | 3 processes, any of which but one may die anywhere; fair | no fresh guard is deleted by another process, and whatever is left behind, who keeps asking gets in |
| `lock_four` | 4 processes of one machine, which may die inside the guard | a finding: two are inside |
| `access` | 2 requests at a time, 3 in a behaviour; 2 users and the legacy key; 2 ids of one directory and another; 2 lives, deletions at any moment | creation, purge, membership, keys, caps and ownership |
| `access_feed` | the same | a finding: activity of a deleted repository in the feed of the new one |
| `merge` | 3 versions by teammates, 2 edits, 3 failures: lost requests and replies, restarts, an agent that pushes unmerged, unparsable files; fair | nothing is overwritten, the base is never newer than what was shown, a merge ends |
| `merge_beside` | the same with a terminal that pulls, 1 failure | a finding: a version is overwritten unseen |
| `workstation` | wiring: five agent files, at most one of them found at first, an edit by others at any moment, kills and failures. Capture: a session with a transcript and one without, whose hooks overlap, die and fire twice; buffers of 4, dropping 3; either one push or a doubled firing | others' entries stay, ctx's go; turns, numbers, prompts and replies; the distill guard |

Why these bounds suffice for what they ask: a lost update needs a base, a
version that replaces it and a push from the base, three commits; the edit that
is pushed and the version it replaces are two contents, and that versions of
equal contents are told apart by their shas is what two contents make happen
most often. One clone with a peer exercises everything a second clone could do
to the first (a peer may write anything at any time); two full clones check that
clones do not spoil each other. One page suffices because pages only meet in
what an operation does one page after the other, and in its end, which the
landings cut anywhere. That more clones, pages, contents and commits change
nothing is what the theorems say: each safety property of SafeSync that a
passing run checks is proved for all values (section 4, with the faults that
`NoLocalEditLost` and `ConflictIsNewer` exclude).

In `access` two requests at a time are what a race needs, and the third makes
their outcome visible; two lives are one deletion, two ids of a directory what
the purge must not forget. In the reads of `answers` a version before, at and after the one
that is read, and a commit to the other page, are four commits. In `races` and
`answers` a history that a deletion cuts in two is one commit shorter, which keeps
the runs short: what a deletion spoils is that a sha kept from before it means
nothing after it, and that takes one commit on either side. In `workstation` a
buffer of four that holds three turns when the run begins, and dropped three
before, overflows with its second new turn, and its earlier turns make the numbers
differ from the count; it drops three so that `RoomToDrop` (section 4) holds with
two hooks, as it does in the code, where an overflow drops a hundred. In `merge` the second stale brief
needs two versions after the first, and a lost reply one of the agent's own. In the
sign-in of `answers` a second server is one the token was not issued by. In the
wiring of `workstation` an edit falls before, into or after a command's plan, and
what was found at first may be all that stands between one file and the commands:
the files of one project meet only in the order in which a command takes them.

A property of several parts is defined as their conjunction, next to them, and
each part has a comment and a bug of its own: `ClassifySound`, `DiffReplays`,
`CodesSurvive`, `StatusTruthful`, `AnswersSound`, `NeighboursOnly`, `LoginSound`
(answers), `CreationSound`, `OldRowsGone`, `LetInOnly` (access), `BuffersSound`,
`WiringSound` (workstation), `BriefSound` (merge). The type invariant of a module
is the first part of one of them.

Every property of a passing run is paired in `PROJECT.json` with plausible bugs
that break it there (a base taken from the file instead of the bytes sent, a
file not read again before it is replaced, a guard dropped, a repair that
forgets a conflict, ...). The mutated forms stand next to the definitions they
replace and are marked "Variant".

For SyncLock, two processes can disagree about a third one's file, so that three
are the least that matter: one that left a lock or a guard and two that clean up
behind it. `GuardStays` and `LockIsReached` are asked of three when a guard may be
left behind; `Exclusion` is asked of four, and fails (the findings below). The 14
identities of `lock_orphan`, the 12 of `lock_crash` and the 17 of `lock_four` are never all in
use: a process refers to three at most.

Fairness. SafeSync, RepoAccess, ServerReads, CaptureBuffer, SignIn and Wiring
assume none, because no liveness is claimed there: commands and requests are
made by people and agents, and nothing in the code retries on its own. In
`lock_orphan` every step a process makes inside `Lock` or unlock is weakly fair
(the scheduler runs it, and the loops of `Lock` and `releaseLock` poll), and so
is time for files left alone (`AgeLock`, `AgeGuard`). Asking, releasing, giving
up and dying are not: `LockIsReached` allows that everybody stops wanting it. In
`merge` a tool call that was made runs to its end (weakly fair: it is a process
with time-outs), and the agent does what the brief's STEPS ask of it, write the
merge and call ctx_push again (strongly fair, since a restart or a failure may
disable a call for a while). Teammates, the user and failures are only bounded:
`MergeEnds` is what the handshake gives an agent that goes on.

### Findings

**A retried merge is re-based onto a version the agent was never shown**
(`merge_beside`, `NothingOverwritten`). ctx_push with `resolved` re-bases the page
and forgets the brief's entry (`mcp/tools.go:804`), and only then pushes. If that
request fails, a teammate pushes again and a `ctx pull` in a terminal records the
new version in the conflict sidecar, the retry finds no entry, takes the
sidecar's version for the one it showed (`tools.go:779-783`), and overwrites it.
`tools.go:665` says "never onto a newer one", and the brief itself, `merge.go:133`,
"nothing is overwritten". Without a second process that pulls it does not happen:
`merge` has every other fault.

**Four processes and a guard left behind** (`lock_four`, `Exclusion`). A process dies
with the lock and inside the guard, and two judge its guard stale. The first clears
it, takes a fresh guard and re-reads the dead process's lock. The second, still
clearing, renames that fresh guard aside (`syncstate/lock.go:436`); before it can put it
back a third takes a guard at the empty path, and `os.Link` fails, "a guard created
at the path in the meantime wins" (`lock.go:444-452`). Now two are under a guard, and
the third re-reads the dead process's lock as well. The first removes that lock and
acquires its own; the third's remove deletes the new one, and the second acquires it
too: two are inside. `lock.go:74-81` says "two waiters reclaiming the same stale lock
cannot both win, and an unlock never deletes a lock another acquisition wrote" and "no
process deletes another's fresh guard". Among three, one of them dead, nobody is left
to take the empty path; while nobody dies inside the guard `Exclusion` is proved for
any number (section 4). It takes a process killed inside a guard that is held for well
under a second, and three commands that meet when that guard turns five seconds old.

**Activity of a deleted repository in the feed of the new one** (`access_feed`,
`NothingStale`). A pull writes its activity row after its last membership check, a push
after its pages, and neither looks at the repository again (`handler.go:718-733`,
`handler_activity.go:152-158`). If the operator deletes the directory and it is created
again in between, the row lands after that creation's purge. `handler_repos.go:104-105`
says of the rows of a deleted repository "They are purged before the owner row exists,
so an old member, invite key or activity feed cannot reach the new repo". `OldRowsGone` is
what holds (`access`): no membership, no key, and no row that was there when the old
life ended.

## 4. The proofs

`SafeSyncProofs` is checked by `tlapm` for every set of clones, peers, pages and
contents and every `MaxCommits`, `Commands` and `Faults`, under the assumptions
declared with the constants: `MaxCommits` is a natural number, clones are not
peers, `Absent` is neither a content nor an unparsable one, contents and
unparsable files are disjoint, commands and faults are the known ones.

| Theorem | Says |
|---|---|
| `TypeCorrectness` | `Spec => []TypeOK` |
| `Invariance` | `Spec => []IInv` |
| `RecordsAreTruthful` | `Spec => []BaseTruthful` |
| `UnchangedPagesAreEqual` | `Spec => []UnchangedIsEqual` |
| `NoUpdateIsLost` | `Spec => NoLostUpdate` |
| `NoEditIsLost` | `"window" \notin Faults` implies `Spec => NoLocalEditLost` |
| `SharedRefinement` | `Spec => SharedSpec` |

The argument. `BaseTruthful` is what everything rests on: a record names a
version the user knows and holds that version's content. It is not inductive,
because a record is written from what an operation fetched, sent or found many
steps before. `IInv` adds what connects those moments: the tip of a page is a
version of that page (`TipOK`); what is in a file has been in it (`FileOK`);
what a job fetched is a version of its page, what it wrote or found equal the
user has had, what it sent is on record as it was sent, what it is about to
replace is published or backed up (`JobsOK`); and a request that is still on its
way carries a parent its user knows (`LateOK`). From `LateOK` and
`BaseTruthful`, the parent of any write that is not refused is the version it
replaces, and known: that is `NoLostUpdate` and the one step of the refinement
that is not a stutter. `UnchangedIsEqual` follows from `BaseTruthful` and the
decision table: a page is unchanged only if its base is verified, the server is
at the base sha and the hashes agree.

The layout of SafeSyncProofs: lemmas on the log (appending keeps every version: `Known` only
grows), on what `Repaired`, `Landed` and the records of each command preserve
(any landing of true records over true records is true: `Sound`), one lemma per
action for the invariant, and the temporal steps.

The last part of `SafeSyncProofs` is about what a conflict record is worth.

| Theorem | Says |
|---|---|
| `ConflictsStay` | `Spec => ConflictsPersist` |
| `ConflictsAreNewer` | `Whole` implies `Spec => []ConflictIsNewer`, where `Whole` is neither `"crash"` nor `"io"` in `Faults` |

`IInv` says that versions exist, not which is the later one, and a conflict is
settled by a *later* version. `ConflictInv` adds the order: a tip is the last
version of its page (`TipLast`), so that whatever an operation fetched or
published is no older than the sidecar it clears; a sidecar is a version of its
page (`SideOK`); a job that is going to clear a sidecar has at least its version
in hand, and one that is going to record one has a version of the page
(`RecentJob`). Under `Whole` the base record is for the page's sha and a sidecar
is for a newer one (`Settled`); without it an operation that was cut between two
files leaves a page and a sidecar that disagree (section 6).

`SyncLockProofs` is checked for every set of processes and identities, under the
assumption `Timely`: neither `"orphan"` nor `"slow"` is among the faults.

| Theorem | Says |
|---|---|
| `LockInvariance` | `Timely => (Spec => []LockInv)` |
| `LockExcludes` | `Timely => (Spec => []Exclusion)` |
| `LiveLocksStay` | `Timely => (Spec => LiveLockStays)` |
| `GuardsStay` | `Timely => (Spec => GuardStays)` |

`Exclusion` is not inductive: nothing in it stops a process about to remove a
file from removing a newer one. `LockInv` says why it does not: whoever is past
`takeLockGuard` made the file at the guard's path, so that one process at a time
compares and deletes (`GuardOK`); a process between the creation and the removal
of its lock finds its own file at the path (`HandOK`); and while a file judged
stale is still at the path, its maker is through with it (`JudgedOK`), so that
what a reclaim removes nobody uses. `Timely` is what makes a stale guard
impossible. It is needed: the finding of `lock_four` is what happens without it.

`MergeProofs` is checked for every `MaxPeerPushes`, `MaxEdits`, `MaxFaults` and
`Faults`.

| Theorem | Says |
|---|---|
| `NeverAhead` | `Spec => []BriefNotAhead` |
| `BriefsAreSound` | `Alone => (Spec => []BriefSound)` |
| `RebasedOnShown` | `Alone => (Spec => NeverNewer)` |
| `NothingIsOverwritten` | `Alone => (Spec => NothingOverwritten)` |

`Alone` says that `"beside"` and `"killed"` are not among the faults: the first is
the finding of `merge_beside`, the second a call cut between recording a sidecar
and returning its brief. `NothingOverwritten` is about a push, the invariant about
everything between the brief and that push. Versions grow (`Grown`); the working
file contains the version it is based on, and, once the agent has merged, the
merge (`FileCovers`); what is being sent contains the base and is in the file
(`SendCovers`); a merge that is to be written, or has been, contains a version
that was shown and is no older than the base, the registry and, unless a brief is
on its way, the sidecar (`TaskCovers`); and a call that re-bases without a
registered brief finds no sidecar (`CallKnows`). `BornOnly` and `EachAdds` bound
the number of versions for the type invariant: each adds a change that somebody
made.

`ReadsProofs` is checked for every set of pages and contents, every server version,
every log and every cap, with no further hypothesis.

| Theorem | Says |
|---|---|
| `ReadsAnswer` | `ReadsSpec => []AnswersSound` |
| `HistoryIsHistory` | `ReadsSpec => []NeverHeadForHistory` |
| `HistoriesConnect` | `ReadsSpec => []NeighboursOnly` |
| `PullsMissNothing` | `ReadsSpec => []PullGetsAll` |

The properties speak of finished answers; `ReadsInvariant` (ReadsInv, checked by
TLC on the instance of `answers` before it was proved) says for each operation what
is in hand at each point: a sha found is a commit of the page it was found for
(`Found`), a pair of contents is what the two commits wrote (`DiffOK`), the
versions walked so far have no gap (`EvolutionOK`), what the listing asked for is
taken or still to be read (`PullOK`). Most of it holds only of operations into
which no deletion fell (`Fresh`); `History` is what the log itself provides.

`WorkstationProofs` has four parts. The theorems on SignIn are checked for every
set of servers and every `Faults`, under the assumptions that the hosted server is one of them and that `Unset`, `Absent` and
`Torn` are none of the things they are told apart from.

| Theorem | Says |
|---|---|
| `SignInInvariance` | `SignInSpec => []SignInInv` |
| `HostedTokensStayHome` | `Steady => (SignInSpec => []HostedStaysHome)`, where `Steady` is `"swap"` not in `Faults` |
| `LoginIsSound` | `SignInSpec => []LoginSound` |
| `RepliesAreOwn` | `SignInSpec => ReplyIsOwn` |

`HostedStaysHome` is about the request just sent; the invariant carries it back to
where the request came from: credentials with a hosted token name a server that
may have it (`CredsOK`), a login about to write such credentials has such a server
(`SavingOK`), and a browser login that was told no server finds none in
config.json but the hosted one from its refusal to its save (`BrowserOK`, which is
what `Steady` is for). For `LoginSound` the file that will be read holds what the
login wrote (`WrittenOK`), with a token and a server (`TokensOK`).

Those on Wiring are checked for every set of files, agents and mishaps and any number
of edits, with no further hypothesis.

| Theorem | Says |
|---|---|
| `WiringInvariance` | `WiringSpec => []WiringInv` |
| `WiringIsSound` | `WiringSpec => []WiringSound` |
| `OthersAreKept` | `WiringSpec => OthersKept` |

`DetachComplete` and `InitComplete` speak of the end of a command; `WiringInv` says
of each file the command is through with that it is clean, or wired in full
(`FilesOK`). Nothing makes the two hooks of a file come and go together: a clone may
bring one, and others may take one out at any moment. What makes it true all the
same is on the command's side: what init leaves of a file it can write is full from
any content (`Wires`), what an uninstall leaves is clean from any content (`Unwires`),
and a file that detach leaves out is clean unless it holds the prompt's hook alone
(`NotWired`, `half`). A change of ctx's entries after the command is through with
the file is on record (`OthersEdit`, `touched`).

Those on the page-state table and on status are about one question and its answer,
for every set of shas and of hashes, and every set of paths.

| Theorem | Says |
|---|---|
| `ClassifyIsSound` | `StateSpec => []ClassifySound` |
| `StatusIsTruthful` | `StatusSpec => []StatusTruthful` |

`StateSpec` asks what the run asks, for all sides, and `StatusSpec` more than it: every page may have any file, any
record that is true, any listed version and any sidecar, and there is a listing
or a reason why not exactly when the server was asked (`Question`; `RunsQuestions`
is the lemma that the run's questions are among them). `StatusAssumption` says
that a sha is a positive number and that knowledge pages are pages. Both rest
on the rows of the table (`ClassifyRows`, `StateRows`, `StateIs`), which follow the
code's order of tests once and are cited from there on. That no warning is given
twice needs no induction, because a merged warning is a union over its code.

The last part is about one failure and what is shown of it.

| Theorem | Says |
|---|---|
| `CodesAreKept` | `ErrorSpec => []CodesSurvive` |

`ErrorSpec` asks about every fact on every route, and about every chain of errors
that is not empty: of any length, with any codes and any advice, where an error
whose code has details carries those of its code or none (the run's chains are
among them: `RunsFailures`). Nothing is proved by induction over the chain. What
decides is one layer, the contract error nearest the surface or else the first
code hook (`CodeIs`), and a layer put around a chain, or advice put into one of its
layers, moves that layer without changing it (`SameSources`). `mergeAdvice` is a
recursive function over the advice; that it keeps every text, each once, is
shown by the least length at which it would not (`MergedIs`). The facts go through the
handlers' answers and `map404` one by one (`ReadIs`).

`CaptureTypes` and `CaptureProofs` are checked for every set of sessions and hooks
(both finite), every cap and number of exchanges, every set of transcript shapes and
every choice of the sessions whose hooks overlap, are killed or fire twice, under
`CaptureAssumption` (an exchange's transcript ends in a text, an overflow drops at
least one and no more than the cap) and `EarlierAssumption` (the buffers a run
finds were written by hooks that ran one by one).

| Theorem | Says |
|---|---|
| `GuardHolds` | `DistillSpec => []GuardSound` |
| `NothingIsLost` | `DistillSpec => []NothingLost` |
| `TurnsInOrder` | `DistillSpec => [](CaptureTypeOK /\ TurnsIncrease /\ PromptUsedOnce)` |
| `BuffersAreSound` | `RoomToDrop /\ DistillSpec => []BuffersSound` |
| `RepliesComplete` | `LastTextApart /\ DistillSpec => []ReplyComplete` |

Everything here is about a process that has read something and writes later. The
invariants (CaptureInv) say what its reading is still worth. `TypeInv` counts: the
numbers in a buffer are at most the number of Stop hooks that fired and no
longer wait to write (`Written`). `GuardInv`: a session that the guard has passed
was without a fresh turn at some moment of the check, and one that it has not is
still on its list. `Apart` and `RewriteInv`: unless two processes have rewritten or
removed one buffer at once (`clash`), or two hooks of the session overlapped
(`mixed`), the temporary file is its rewriter's. `LossInv`: what a rewriter read
includes every turn of the buffer it will replace, and what is about to be pruned is
old. `TurnInv` and `PromptInv`: a lone hook's reading stays true, and a prompt that
is still in its file or in a hook's hands is in no record yet. `BoundInv`: there is
room below `Cap` for every hook that has read the buffer below its cap. `ReplyInv`:
what the transcript holds when the reply is read is all of the exchange, or all
but the last text.

Two hypotheses are named. `RoomToDrop`: an overflow drops more turns than there are
other hooks, so that none of them can bring a shortened buffer above its cap
(`BufferBounded` fails without it, section 6; the code drops 100,
`capture/buffer.go:31`). `LastTextApart`: a text before the final one is followed by
something else, or a reader could not tell that the final one has not landed. TLC
evaluates both on the instance of `workstation` and checks every invariant there.
Buffers are filtered by `Pick`, a recursive function: what it returns for every
buffer is shown by the least length at which it would not (`PickElements`).

`AccessProofs` is checked for every set of users, requests and directories, every
finite set of ids, every traffic and every rows of earlier servers, with deletions
at any moment; the last three theorems in a deployment that is `Orderly`.

| Theorem | Says |
|---|---|
| `AccessTypes` | `AccessSpec => []AccessTypeOK` |
| `OwnedStay` | `AccessSpec => OwnedStaysOwned` |
| `CreationIsSound` | `Orderly` implies `AccessSpec => []CreationSound` |
| `RowsAreFresh` | `Orderly` implies `AccessSpec => []MembersAndKeysFresh` |
| `WritersAreMembers` | `Orderly` implies `AccessSpec => []WrittenByMembers` |

What takes an owner's row away is a removal, which leaves the last one, and the
purge of a creation. That the purge meets nobody's repository is the invariant:
createRepoMu is held by the one request between its git init and its last row
(`MutexOK`), and the life that request has begun has not been settled
(`InMaking`), however the operator deletes directories meanwhile.

`Orderly` has three parts, and MCAccess assumes the same. Nobody signs in beside
other users (`Sessions = "first"`): the first sign-in adopts every repository
without an owner, and the claim could otherwise fall into a creation of the same
directory. Canonical ids name different directories (`OneName`), which a file
system that folds case does not grant. And the rows a server starts with are in
order (`OldSound`): nobody is over the cap, a living repository has only its own
keys and only its maker as owner, and before the first user everything was made
by the legacy key. The rows of repositories that are gone are arbitrary.

The invariant, `MakingInv`, says what a creation relies on at each of its points
(`MakingOK`): from the listing of the known ids to the purge, every row under an
id of the directory is under one of the ids that will be purged; between the
purge and the owner's row there are none; the life in the making is the
request's own, and its user is below the cap. The first is the reason why
`DirName` is purged as well as the id: while a request waits for the mutex an
owner's row can appear under an id it has not listed, but only under a canonical
one (`CanonicalRow`). `RowsOK` says of a life that is settled that its members
were let into it and its maker owns it, `RefusedOK` that who was refused their own
repository was refused one whose creation failed: a push decides while nobody
holds the mutex, so a life is settled by then or dead for good (`Dead`).
`WritesInv` adds that who is about to write was let into the life in which that was
decided, if its creation ever succeeds; the life the page lands in may be a later
one, of which it says nothing (section 6).
TLC checked `MakingInv` and `WritesInv` first, in `access` and with three lives and
deletions at any moment.

Model-checked only:

- `DiffReplays` and `BothChangedListed`: the differ's sections, its renames and its
  table of lines are recursive functions and selections (`SelectSeq`) over
  sequences. What they compute for every input is an induction over that data,
  which was not attempted.
- The activity rows of `OldRowsGone`, and `SeenByMembers`. They hold when a request
  lies across one deletion and re-creation of its directory, which is what two
  lives in `access` allow, and not across two (section 6).
- `GuardStays` among three processes when guards are left behind (`lock_orphan`):
  the theorem on it assumes `Timely`.
- `LockIsReached` and `MergeEnds`, since liveness is out of the prover's reach.

## 5. What is not modelled, and the plan

Next, in order:

1. **`SeenByMembers`** as a theorem about one deletion under a request: its
   invariant is which life a read has seen.
2. **Pull convergence** as liveness of SafeSync: under weak fairness of the steps
   of a command that runs, and repeated pulls, a clone that is not edited
   reaches the server's version.
3. **SafeSync below MergeHandshake**: the abstraction of a pull to one step shown
   by a refinement.

Not planned: authentication, tokens and routing (cryptography and single
statements), the terminal, migration, generation, updater, indexer, docs dump
(sequential file and process I/O), encoding of the JSON contract, the formats of
transcripts. Their rows in `PROJECT.json` say why.

## 6. Known limits of the code

Met while modelling; each is a fault constant of a module that the passing runs
leave out, or an exemption that a property names. Turning the fault on shows it.
Two more, and one of the merge handshake, contradict what a comment says: they are
the findings of section 3.

- **An edit inside the write window** (`"window"` of SafeSync breaks
  `NoLocalEditLost`): between the re-read of pull and the rename of
  `WriteFileAtomic`. The comment at `syncops/pull.go:475` concedes it.
- **Backups are named by the second** (`syncstate/layout.go:101`): of two
  `resolve --theirs` of a page within one, with an edit in between, the second
  replaces the backup of the first. `NoLocalEditLost` speaks of the moment of
  replacement only.
- **A cut `resolve --ours`** (`"crash"` with `ConflictIsNewer`, what `Whole` is for
  in section 4): ended between
  `bases.json` and `state.json`, it comes back from the next repair as a conflict
  with the older version (`repair.go:465`). The next pull settles it.
- **A holder paused for more than five seconds** (`"slow"` breaks `GuardStays`):
  `releaseLockGuard` compares and removes in two steps (`lock.go:461-465`).
- **Overlapping hooks of one session**: `NothingLost` and `TurnsIncrease` exempt
  sessions whose buffer is rewritten, or numbered, by two processes at once;
  `AppendTurn` takes no lock. `BufferBounded` says how far the cap is then passed:
  by one turn per other hook, as long as an overflow drops more turns than there
  are such hooks. A rewriter that drops two, beside one hook, can be caught by
  an archiving between its read and its rename; its rewritten buffer and what was
  added to the new one meanwhile then exceed that. The code keeps 500 and drops 100
  (`capture/buffer.go:30-31`).
- **A config.json that changes under a login** (`"swap"` breaks
  `HostedStaysHome`): the configuration is read again after the browser
  (`auth.go:150`), and what was decided on the first reading stands. Pickers and
  `join` save the copy they read before their request.
- **An MCP server killed inside a call** (`"killed"` of MergeHandshake, in no run):
  a conflict may be recorded in the sidecar and its brief never be shown; an agent
  that then names the page in `resolved` is taken to have seen it, as in the
  finding.
- **A page pushed into a replaced repository**: a push decides membership once
  (`handler.go:515`) and then writes (`handler.go:601-625`) into whatever repository the
  directory holds by then. If an operator deleted it and somebody created it again in
  between, the page is in the new one, whose owner has not let its writer in.
  `WrittenByMembers` speaks of the life in which the push was decided.
- **A directory deleted and re-created twice under one request** (three lives in
  `access`). A read passes its first check in the first life, reads the second and
  is answered if its caller redeems an invite key of the second after that one is
  deleted too: `memberAfterRead` looks at rows, which outlive the directory, and
  the join of a directory that is gone succeeds. And an activity row
  written between the listing of ids of one creation and its purge stays, when
  nothing else of that spelling of the id was left to list.
- **The first sign-in adopts what is gone** (`GoogleAuth`, `handler_auth.go:58-67`): a directory
  deleted between the listing and its claim leaves its adopter an owner's row,
  which counts against the cap until the directory is created again.
- **config.json is written in place**: cut short, it makes every command fail,
  login included.
- **detach deletes .mcp.json by its plan**: an entry added while it waits for an
  answer goes with the file (`detach.go:273`); `OthersKept` names the exemption.
- **detach leaves a hook behind when it finds one of two**: whether hooks are wired
  is judged by `Stop` for Codex (`codexhooks.go:87`) and by the reply event for
  Cursor, so a file with only the prompt's hook, from a clone or after an edit, reads
  as not wired, and detach leaves it out (`detach.go:180-184`). `ctx hooks uninstall`
  takes it out. `DetachComplete` names the exemption (`half`).
- **A brief may call a merge "auto-mergeable"** when one side renamed a section
  that the other edited or removed, or both changed the preamble
  (`mcp/merge.go:103-113`): only equal headings of modified and renamed sections
  are compared. `BothChangedListed` states what is.
- **Fresh at the boundary**: whether a push is blocked status asks of the guard
  itself (`status.go:207`), but the flag it shows beside each session has its own rule:
  a buffer exactly six hours old is "fresh" there (`status.go:168`, not before) and not
  for the guard (`guard.go:132`, after).
- **A line of more than a megabyte ends a page for the differ**: the scanner stops
  without an error (`diff/section.go:209`). `EveryLineKept` is about ordinary lines.
- **A home credentials file that cannot be replaced** (`auth.go:185`) may keep an old
  token; SignIn has the write that is cut, not the one that changes nothing.
