----------------------------- MODULE LocalIndex -----------------------------
(***************************************************************************)
(* One node of a sync pair: the files its user edits, the index the        *)
(* provider keeps of them (FileIndex), the watch loop that follows the     *)
(* file system (_watch_loop), the worker thread that applies a remote file *)
(* (apply_remote), the verify loop, and the restart of the process with    *)
(* the index it had saved.  The other side of the sessions is one peer,    *)
(* reduced to the index it would send.                                     *)
(*                                                                         *)
(* Interleavings.  The watch loop, the session and the verify loop are     *)
(* coroutines of one event loop: between two awaits nothing else of that   *)
(* loop runs, so while a batch of changes is handled (batch # {}) only the *)
(* user and the worker thread move.  The user is another process and moves *)
(* at any time.                                                            *)
(***************************************************************************)
EXTENDS SyncEngine, FiniteSets

CONSTANTS
    Self, Peer,         \* the two node ids
    Content,            \* the contents (checksums) a file can have
    Dir, InDir,         \* a directory, and the paths that lie in it
    Strategy,           \* conflict_strategy of both nodes
    Env,                \* what the environment does, see EnvKinds
    MaxTime             \* bound on the clock: no edit or crash after it

EnvKinds ==
    {"write",           \* the user writes files
     "delete",          \* the user deletes files
     "dir",             \* the user moves the directory away and back
     "swap",            \* ... and may do so before the watcher has noticed
     "early",           \* the user may edit between the scan and the watch
     "race",            \* the user may edit a file while it is being applied
     "stop",            \* the process stops with its index saved, and restarts
     "crash",           \* ... or at any other moment
     "exclude",         \* the exclude patterns change at a restart
     "learn",           \* the peer takes our versions
     "cross",           \* ... and may do so while we apply its version
     "peer",            \* the peer's user edits
     "pull",            \* we take the peer's versions
     "rot",             \* content changes on disk without a new mtime
     "verify"}          \* the verify loop is configured

ASSUME NodeAssumption ==
    /\ Self \in Node /\ Peer \in Node /\ Self # Peer
ASSUME DataAssumption ==
    /\ Content \subseteq Nat \ {NoSum}
    /\ Dir \notin Path /\ InDir \subseteq Path
    /\ MaxTime \in Nat
    /\ Env \subseteq EnvKinds

VARIABLES
    now,                \* the clock that stamps modification times
    disk,               \* path -> file under the watched directory
    away, aside,        \* Dir has been moved away, and what it held then
    phase,              \* "down", "scanned" (index built), "up" (watching)
    excluded,           \* the paths the exclude patterns match
    entries,            \* FileIndex._entries
    corrupted,          \* FileIndex._corrupted
    stored,             \* .synak/index.json
    changes,            \* file-system events awatch has not yielded yet
    batch,              \* the part of the yielded set still to be handled
    dirty,              \* the flag of the same name in _watch_loop
    todo,               \* paths _compute_needed chose and not yet pulled
    session,            \* our session with the peer is open
    job,                \* the apply_remote in the worker thread, or NoJob
    peer                \* the peer's index

vars == <<now, disk, away, aside, phase, excluded, entries, corrupted, stored,
          changes, batch, dirty, todo, session, job, peer>>

user   == <<now, disk, away, aside>>
watch  == <<changes, batch, dirty>>
pull   == <<todo, session, job>>

NoJob == [path |-> Dir, entry |-> NoEntry, step |-> "none"]
Jobs  == [path : Path, entry : Entry, step : {"write", "record"}]

Change == {"changed", "deleted"} \X (Path \cup {Dir})

TypeOK ==
    /\ now \in Nat
    /\ disk \in [Path -> File]
    /\ away \in BOOLEAN /\ aside \in [InDir -> File]
    /\ phase \in {"down", "scanned", "up"}
    /\ excluded \subseteq Path
    /\ entries \in Index /\ stored \in Index /\ peer \in Index
    /\ corrupted \subseteq Path
    /\ changes \subseteq Change /\ batch \subseteq Change
    /\ dirty \in BOOLEAN
    /\ todo \subseteq Path /\ session \in BOOLEAN
    /\ job \in Jobs \cup {NoJob}

Init ==
    /\ now = 0
    /\ disk = [p \in Path |-> Absent]
    /\ away = FALSE /\ aside = [p \in InDir |-> Absent]
    /\ phase = "down"
    /\ excluded = {}
    /\ entries = EmptyIndex /\ stored = EmptyIndex /\ peer = EmptyIndex
    /\ corrupted = {}
    /\ changes = {} /\ batch = {} /\ dirty = FALSE
    /\ todo = {} /\ session = FALSE /\ job = NoJob

-----------------------------------------------------------------------------
(* The user                                                                *)

\* Events reach the watcher only once it is registered.
Notify(c) == changes' = IF phase = "up" THEN changes \cup {c} ELSE changes

\* p can be reached: its directory is in place.
Reachable(p) == p \in InDir => ~away

\* The windows a user may hit only when Env says so.
MayEdit(p) ==
    /\ now < MaxTime /\ Reachable(p)
    /\ phase = "scanned" => "early" \in Env
    /\ job.path = p => "race" \in Env

UserWrite(p, s) ==
    /\ "write" \in Env /\ MayEdit(p)
    /\ now' = now + 1
    /\ disk' = [disk EXCEPT ![p] = [sum |-> s, mtime |-> now + 1]]
    /\ Notify(<<"changed", p>>)
    /\ UNCHANGED <<away, aside, phase, excluded, entries, corrupted, stored, batch,
                   dirty, pull, peer>>

UserDelete(p) ==
    /\ "delete" \in Env /\ MayEdit(p)
    /\ Exists(disk[p])
    /\ now' = now + 1
    /\ disk' = [disk EXCEPT ![p] = Absent]
    /\ Notify(<<"deleted", p>>)
    /\ UNCHANGED <<away, aside, phase, excluded, entries, corrupted, stored, batch,
                   dirty, pull, peer>>

\* The directory is moved out of the watched tree: one event, for Dir.
UserMoveAway ==
    /\ "dir" \in Env /\ ~away
    /\ \A p \in InDir : MayEdit(p)
    /\ \E p \in InDir : Exists(disk[p])
    /\ now' = now + 1
    /\ away' = TRUE
    /\ aside' = [p \in InDir |-> disk[p]]
    /\ disk' = [p \in Path |-> IF p \in InDir THEN Absent ELSE disk[p]]
    /\ Notify(<<"deleted", Dir>>)
    /\ UNCHANGED <<phase, excluded, entries, corrupted, stored, batch, dirty,
                   pull, peer>>

\* It comes back as it was, modification times included.
UserMoveBack ==
    /\ "dir" \in Env /\ away
    /\ phase = "scanned" => "early" \in Env
    /\ <<"deleted", Dir>> \in changes \cup batch => "swap" \in Env
    /\ away' = FALSE
    /\ aside' = [p \in InDir |-> Absent]
    /\ disk' = [p \in Path |-> IF p \in InDir THEN aside[p] ELSE disk[p]]
    /\ Notify(<<"changed", Dir>>)
    /\ UNCHANGED <<now, phase, excluded, entries, corrupted, stored, batch,
                   dirty, pull, peer>>

\* A content changes under the file system: no event, no new time.
DiskRot(p, s) ==
    /\ "rot" \in Env /\ now < MaxTime
    /\ Exists(disk[p]) /\ job = NoJob
    /\ now' = now + 1
    /\ disk' = [disk EXCEPT ![p].sum = s]
    /\ UNCHANGED <<away, aside, phase, excluded, entries, corrupted, stored, watch,
                   pull, peer>>

-----------------------------------------------------------------------------
(* Start, stop and crash                                                   *)

\* What the walk of the directory sees at p.
Seen(p, excl) == IF p \in excl THEN Absent ELSE disk[p]

\* _init_index: load, scan and save, before anything else of the provider.
Start(excl) ==
    /\ phase = "down"
    /\ excl # excluded => "exclude" \in Env
    /\ phase' = "scanned"
    /\ excluded' = excl
    /\ entries' = [p \in Path |-> ScanEntry(stored[p], Seen(p, excl), Self)]
    /\ stored' = entries'
    /\ corrupted' = {}
    /\ UNCHANGED <<user, watch, pull, peer>>

\* The watch task runs for the first time and awatch registers.
WatchStart ==
    /\ phase = "scanned"
    /\ phase' = "up"
    /\ UNCHANGED <<user, excluded, entries, corrupted, stored, watch, pull, peer>>

\* The process ends, by stop() or by a crash: neither saves the index.
Halt ==
    /\ "crash" \in Env \/ ("stop" \in Env /\ stored = entries)
    /\ now < MaxTime
    /\ phase # "down"
    /\ now' = now + 1
    /\ phase' = "down"
    /\ entries' = stored
    /\ corrupted' = {}
    /\ changes' = {} /\ batch' = {} /\ dirty' = FALSE
    /\ todo' = {} /\ session' = FALSE /\ job' = NoJob
    /\ UNCHANGED <<disk, away, aside, excluded, stored, peer>>

-----------------------------------------------------------------------------
(* The watch loop                                                          *)

\* A coroutine of the event loop other than the watch loop may run.
LoopFree == phase = "up" /\ batch = {}

TakeBatch ==
    /\ LoopFree /\ ~dirty
    /\ changes # {}
    /\ batch' = changes
    /\ changes' = {}
    /\ UNCHANGED <<user, phase, excluded, entries, corrupted, stored, dirty,
                   pull, peer>>

ScanOneAt(p) ==
    IF p \in excluded THEN entries[p] ELSE ScanOne(entries[p], disk[p], Self)

\* A deleted directory is taken for a deleted file (variant).
HandledFlat(c) ==
    [p \in Path |->
        CASE c = <<"changed", p>>   -> ScanOneAt(p)
          [] c = <<"deleted", p>>   -> MarkDeleted(entries[p], disk[p], Self)
          [] c = <<"changed", Dir>> ->
                IF p \in InDir /\ ~away THEN ScanOneAt(p) ELSE entries[p]
          [] OTHER                  -> entries[p]]

\* The index after one element of the set awatch yielded.  A deleted path
\* that is no tombstone now falls through to mark_dir_deleted, which changes
\* the paths below it: none when the path is a file.
Handled(c) ==
    [p \in Path |->
        CASE c = <<"changed", p>>   -> ScanOneAt(p)
          [] c = <<"deleted", p>>   -> MarkDeleted(entries[p], disk[p], Self)
          [] c = <<"changed", Dir>> ->
                IF p \in InDir /\ ~away THEN ScanOneAt(p) ELSE entries[p]
          [] c = <<"deleted", Dir>> ->
                IF p \in InDir THEN MarkDirDeleted(entries[p], Self) ELSE entries[p]
          [] OTHER                  -> entries[p]]

\* The elements come in the order of a Python set: any.
HandleChange(c) ==
    /\ phase = "up" /\ c \in batch
    /\ batch' = batch \ {c}
    /\ entries' = Handled(c)
    /\ dirty' = (dirty \/ entries' # entries)
    /\ UNCHANGED <<user, phase, excluded, corrupted, stored, changes, pull, peer>>

WatchSave ==
    /\ LoopFree /\ dirty
    /\ stored' = entries
    /\ dirty' = FALSE
    /\ UNCHANGED <<user, phase, excluded, entries, corrupted, changes, batch,
                   pull, peer>>

\* The verify loop hashes one file and flags a mismatch.  Without "race" it
\* only looks at files whose last event the watch loop has handled.
Verify(p) ==
    /\ "verify" \in Env /\ LoopFree
    /\ VerifyOne(entries[p], disk[p])
    /\ (changes # {} \/ job # NoJob) => "race" \in Env
    /\ corrupted' = corrupted \cup {p}
    /\ UNCHANGED <<user, phase, excluded, entries, stored, watch, pull, peer>>

-----------------------------------------------------------------------------
(* Sessions with the peer, seen from here                                  *)

\* Our own session: the choice of what to pull is made once, for all paths.
BeginSession ==
    /\ "pull" \in Env /\ LoopFree /\ ~session
    /\ session' = TRUE
    /\ todo' = {p \in Path : Needed(Strategy, entries, peer, corrupted, p)}
    /\ UNCHANGED <<user, phase, excluded, entries, corrupted, stored, watch,
                   job, peer>>

Apply(p) == job' = [path |-> p, entry |-> peer[p], step |-> "write"]

\* The next file of the pull phase arrives: it is applied unconditionally.
Pull(p) ==
    /\ LoopFree /\ job = NoJob /\ Reachable(p)
    /\ p \in todo /\ Live(peer[p])
    /\ todo' = todo \ {p}
    /\ Apply(p)
    /\ UNCHANGED <<user, phase, excluded, entries, corrupted, stored, watch,
                   session, peer>>

\* _apply_incoming_file of a session the peer opened: reconciled, then applied.
TakePush(p) ==
    /\ "pull" \in Env
    /\ LoopFree /\ job = NoJob /\ Reachable(p)
    /\ Live(peer[p]) /\ Accept(Strategy, entries[p], peer[p])
    /\ Apply(p)
    /\ UNCHANGED <<user, phase, excluded, entries, corrupted, stored, watch,
                   todo, session, peer>>

\* _apply_remote_deletions, the round after the deferral.
TakeDeletion(p) ==
    /\ "pull" \in Env
    /\ LoopFree /\ job = NoJob /\ Reachable(p)
    /\ Superseded(entries, peer, p)
    /\ Apply(p)
    /\ UNCHANGED <<user, phase, excluded, entries, corrupted, stored, watch,
                   todo, session, peer>>

\* apply_remote in the worker thread, up to the file being on disk.
ApplyWrite ==
    /\ job.step = "write"
    /\ now' = now + 1
    /\ disk' = [disk EXCEPT ![job.path] = WriteRemote(job.entry, now + 1)]
    /\ corrupted' = corrupted \ {job.path}
    /\ job' = [job EXCEPT !.step = "record"]
    /\ IF Live(job.entry) THEN Notify(<<"changed", job.path>>)
       ELSE IF Exists(disk[job.path]) THEN Notify(<<"deleted", job.path>>)
       ELSE UNCHANGED changes
    /\ UNCHANGED <<away, aside, phase, excluded, entries, stored, batch, dirty, todo,
                   session, peer>>

\* ... and the rest of it: the time is read back and the entry recorded.
ApplyRecord ==
    /\ job.step = "record"
    /\ entries' = [entries EXCEPT ![job.path] = RecordRemote(job.entry, disk[job.path])]
    /\ job' = NoJob
    /\ UNCHANGED <<user, phase, excluded, corrupted, stored, watch, todo,
                   session, peer>>

\* The pull phase is over and the session ends with a save.
EndSession ==
    /\ LoopFree /\ session /\ todo = {} /\ job = NoJob
    /\ session' = FALSE
    /\ stored' = entries
    /\ UNCHANGED <<user, phase, excluded, entries, corrupted, watch, todo, job,
                   peer>>

\* The connection is lost between two files: no save.
LoseSession ==
    /\ LoopFree /\ session /\ job = NoJob
    /\ now < MaxTime
    /\ now' = now + 1
    /\ session' = FALSE
    /\ todo' = {}
    /\ UNCHANGED <<disk, away, aside, phase, excluded, entries, corrupted, stored,
                   watch, job, peer>>

-----------------------------------------------------------------------------
(* The peer                                                                *)

\* The peer takes our version of p in one of its sessions, the content being
\* the one the entry names (a file that changes while it is served is the
\* business of SyncSession).
PeerLearn(p) ==
    /\ "learn" \in Env /\ LoopFree
    /\ job.path = p => "cross" \in Env
    /\ Live(entries[p]) => disk[p].sum = entries[p].sum
    /\ IF Live(entries[p]) THEN Accept(Strategy, peer[p], entries[p])
       ELSE Superseded(peer, entries, p)
    /\ peer' = [peer EXCEPT ![p] = entries[p]]
    /\ UNCHANGED <<user, phase, excluded, entries, corrupted, stored, watch,
                   pull>>

PeerEdit(p, s) ==
    /\ "peer" \in Env /\ now < MaxTime
    /\ now' = now + 1
    /\ peer' = [peer EXCEPT ![p] =
                   Record([sum |-> s, mtime |-> now + 1], Increment(@.clock, Peer))]
    /\ UNCHANGED <<disk, away, aside, phase, excluded, entries, corrupted, stored,
                   watch, pull>>

PeerRemove(p) ==
    /\ "peer" \in Env /\ now < MaxTime
    /\ Live(peer[p])
    /\ now' = now + 1
    /\ peer' = [peer EXCEPT ![p] = MakeTombstone(@, Peer)]
    /\ UNCHANGED <<disk, away, aside, phase, excluded, entries, corrupted, stored,
                   watch, pull>>

-----------------------------------------------------------------------------
User ==
    \/ \E p \in Path, s \in Content : UserWrite(p, s) \/ DiskRot(p, s)
    \/ \E p \in Path : UserDelete(p)
    \/ UserMoveAway
    \/ UserMoveBack

Process == (\E x \in SUBSET Path : Start(x)) \/ WatchStart \/ Halt

Watcher ==
    \/ TakeBatch
    \/ \E c \in Change : HandleChange(c)
    \/ WatchSave
    \/ \E p \in Path : Verify(p)

Sessions ==
    \/ BeginSession
    \/ \E p \in Path : Pull(p) \/ TakePush(p) \/ TakeDeletion(p)
    \/ ApplyWrite
    \/ ApplyRecord
    \/ EndSession
    \/ LoseSession

Remote ==
    \E p \in Path :
        PeerLearn(p) \/ PeerRemove(p) \/ \E s \in Content : PeerEdit(p, s)

Next == User \/ Process \/ Watcher \/ Sessions \/ Remote

Spec == Init /\ [][Next]_vars

\* The tasks of the event loop and of the worker thread run when they can;
\* the user, the peer, a crash and the loss of a connection owe us nothing.
Fairness ==
    /\ WF_vars(\E x \in SUBSET Path : Start(x)) /\ WF_vars(WatchStart)
    /\ WF_vars(TakeBatch) /\ WF_vars(\E c \in Change : HandleChange(c))
    /\ WF_vars(WatchSave)
    /\ WF_vars(BeginSession) /\ WF_vars(EndSession)
    /\ WF_vars(ApplyWrite) /\ WF_vars(ApplyRecord)
    /\ \A p \in Path : WF_vars(Verify(p)) /\ WF_vars(Pull(p))

FairSpec == Spec /\ Fairness

-----------------------------------------------------------------------------
(* Properties                                                              *)

\* Nothing is under way that could still change the index.
Settled == phase = "up" /\ changes = {} /\ batch = {} /\ job = NoJob

\* The entry says what is on disk.
Agrees(e, f) == Live(e) = Exists(f) /\ (Live(e) => e.sum = f.sum)

\* Once the watcher is idle the index describes the directory: no edit,
\* deletion, directory move, applied file or restart is left unnoticed
\* (_watch_loop, scan, apply_remote).
IndexTracksDisk ==
    Settled => \A p \in Path \ excluded : Agrees(entries[p], disk[p])

\* The index turns a live path into a tombstone on its own account only when
\* the file is gone, unless the exclude patterns have come to match it: peers
\* delete what we tombstone (mark_deleted "file is already back, not a real
\* deletion", mark_dir_deleted, scan).
TombstoneMeansGone ==
    [][\A p \in Path :
          (Live(entries[p]) /\ ~Live(entries'[p]) /\ job.step # "record"
             /\ phase' # "down" /\ p \notin excluded')
          => ~Exists(disk[p])]_vars

\* A version made on this node continues the one it replaces: between two
\* applied files every change of an entry while the daemon is up is one step
\* of our own component (scan_one, mark_deleted, mark_dir_deleted).
LocalStepsForward ==
    [][\A p \in Path :
          (phase = "up" /\ phase' = "up" /\ job.step # "record"
             /\ entries'[p] # entries[p])
          => entries'[p].clock = Increment(entries[p].clock, Self)]_vars

\* Nobody knows more of our own history of a path than we do: otherwise an
\* old tombstone at the peer is newer than the file our user has made since
\* (docs/provider-interface.md, "Rules" of the vector clock).
OwnHistoryKept ==
    phase = "up" =>
        \A p \in Path : peer[p].clock[Self] <= entries[p].clock[Self]

\* Equal clocks are the same version on both sides (reconcile).
SameClockSameVersion ==
    Settled =>
        \A p \in Path :
            Equals(peer[p].clock, entries[p].clock) => peer[p].sum = entries[p].sum

\* Once edits and corruption have stopped, a file whose content is not the
\* recorded one is replaced by the copy of a peer we are not behind
\* (_verify_loop, mark_corrupted, the last arm of _compute_needed).
CorruptionRepaired ==
    <>[](\A p \in Path :
            (/\ Live(entries[p]) /\ Live(peer[p]) /\ Exists(disk[p])
             /\ Reconcile(entries[p], peer[p]) = "keep_local")
            => Agrees(entries[p], disk[p]))
=============================================================================
