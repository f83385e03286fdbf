-------------------------- MODULE LocalIndexProofs --------------------------
(***************************************************************************)
(* What holds of LocalIndex for every set of nodes, paths and contents,    *)
(* every environment and every bound.                                      *)
(***************************************************************************)
EXTENDS LocalIndex, SyncEngineProofs

-----------------------------------------------------------------------------
(* Type correctness                                                        *)

\* The index starts well typed (__init__).
LEMMA TypeInit == Init => TypeOK
<1> SUFFICES ASSUME Init PROVE TypeOK
  OBVIOUS
<1>1. disk \in [Path -> File] /\ aside \in [InDir -> File]
  BY AbsentType DEF Init
<1>2. entries \in Index /\ stored \in Index /\ peer \in Index
  BY NoEntryType DEF Init, EmptyIndex, Index
<1>3. QED BY <1>1, <1>2 DEF Init, TypeOK

\* An edit keeps the state well typed.
LEMMA UserType ==
  ASSUME TypeOK, User
  PROVE  TypeOK'
<1>1. ASSUME NEW p \in Path, NEW s \in Content, UserWrite(p, s)
      PROVE  TypeOK'
  <2>1. [sum |-> s, mtime |-> now + 1] \in File
    BY DataAssumption DEF File, TypeOK
  <2>2. <<"changed", p>> \in Change
    BY DEF Change
  <2>3. QED BY <1>1, <2>1, <2>2 DEF TypeOK, UserWrite, Notify, pull
<1>2. ASSUME NEW p \in Path, NEW s \in Content, DiskRot(p, s)
      PROVE  TypeOK'
  <2>1. [disk[p] EXCEPT !.sum = s] \in File
    BY DataAssumption DEF File, TypeOK
  <2>2. disk' \in [Path -> File]
    BY <1>2, <2>1 DEF DiskRot, TypeOK
  <2>3. QED BY <1>2, <2>2 DEF TypeOK, DiskRot, watch, pull
<1>3. ASSUME NEW p \in Path, UserDelete(p)
      PROVE  TypeOK'
  <2>1. <<"deleted", p>> \in Change
    BY DEF Change
  <2>2. QED BY <1>3, <2>1, AbsentType DEF TypeOK, UserDelete, Notify, pull
<1>4. CASE UserMoveAway
  <2>1. <<"deleted", Dir>> \in Change
    BY DEF Change
  <2>2. disk' \in [Path -> File] /\ aside' \in [InDir -> File]
    BY <1>4, AbsentType, DataAssumption DEF TypeOK, UserMoveAway
  <2>3. QED BY <1>4, <2>1, <2>2 DEF TypeOK, UserMoveAway, Notify, pull
<1>5. CASE UserMoveBack
  <2>1. <<"changed", Dir>> \in Change
    BY DEF Change
  <2>2. disk' \in [Path -> File] /\ aside' \in [InDir -> File]
    BY <1>5, AbsentType, DataAssumption DEF TypeOK, UserMoveBack
  <2>3. QED BY <1>5, <2>1, <2>2 DEF TypeOK, UserMoveBack, Notify, pull
<1>6. QED BY <1>1, <1>2, <1>3, <1>4, <1>5 DEF User

\* A start (_init_index), the watch and a halt keep the state well typed.
LEMMA ProcessType ==
  ASSUME TypeOK, Process
  PROVE  TypeOK'
<1>1. ASSUME NEW x \in SUBSET Path, Start(x)
      PROVE  TypeOK'
  <2>1. \A p \in Path : Seen(p, x) \in File /\ stored[p] \in Entry
    BY AbsentType DEF Seen, TypeOK, Index
  <2>2. \A p \in Path : ScanEntry(stored[p], Seen(p, x), Self) \in Entry
    BY <2>1, ScanEntryType, NodeAssumption
  <2>3. entries' \in Index /\ stored' \in Index
    BY <1>1, <2>2 DEF Start, Index
  <2>4. QED BY <1>1, <2>3 DEF TypeOK, Start, user, watch, pull
<1>2. CASE WatchStart
  BY <1>2 DEF TypeOK, WatchStart, user, watch, pull
<1>3. CASE Halt
  <2>1. now' \in Nat
    BY <1>3 DEF TypeOK, Halt
  <2>2. QED BY <1>3, <2>1 DEF TypeOK, Halt
<1>4. QED BY <1>1, <1>2, <1>3 DEF Process

\* Every element of a batch leaves an index.
LEMMA HandledType ==
  ASSUME TypeOK, NEW c \in Change
  PROVE  Handled(c) \in Index
<1>1. \A p \in Path : entries[p] \in Entry /\ disk[p] \in File
  BY DEF TypeOK, Index
<1>2. \A p \in Path : ScanOneAt(p) \in Entry
  BY <1>1, ScanOneType, NodeAssumption DEF ScanOneAt
<1>3. \A p \in Path : MarkDeleted(entries[p], disk[p], Self) \in Entry
                      /\ MarkDirDeleted(entries[p], Self) \in Entry
  BY <1>1, MarkType, NodeAssumption
<1>4. QED BY <1>1, <1>2, <1>3 DEF Handled, Index

\* The watch loop and the verify loop keep the state well typed.
LEMMA WatcherType ==
  ASSUME TypeOK, Watcher
  PROVE  TypeOK'
<1>1. CASE TakeBatch
  BY <1>1 DEF TypeOK, TakeBatch, user, pull
<1>2. ASSUME NEW c \in Change, HandleChange(c)
      PROVE  TypeOK'
  <2>1. entries' \in Index
    BY <1>2, HandledType DEF HandleChange
  <2>2. dirty' \in BOOLEAN
    BY <1>2 DEF HandleChange
  <2>3. QED BY <1>2, <2>1, <2>2 DEF TypeOK, HandleChange, user, pull
<1>3. CASE WatchSave
  BY <1>3 DEF TypeOK, WatchSave, user, pull
<1>4. ASSUME NEW p \in Path, Verify(p)
      PROVE  TypeOK'
  BY <1>4 DEF TypeOK, Verify, user, watch, pull
<1>5. QED BY <1>1, <1>2, <1>3, <1>4 DEF Watcher

\* A session and its apply_remote jobs keep the state well typed.
LEMMA SessionsType ==
  ASSUME TypeOK, Sessions
  PROVE  TypeOK'
<1>1. \A p \in Path : [path |-> p, entry |-> peer[p], step |-> "write"] \in Jobs
  BY DEF TypeOK, Index, Jobs
<1>2. CASE BeginSession
  BY <1>2 DEF TypeOK, BeginSession, user, watch
<1>3. ASSUME NEW p \in Path, Pull(p)
      PROVE  TypeOK'
  BY <1>1, <1>3 DEF TypeOK, Pull, Apply, user, watch
<1>4. ASSUME NEW p \in Path, TakePush(p)
      PROVE  TypeOK'
  BY <1>1, <1>4 DEF TypeOK, TakePush, Apply, user, watch
<1>5. ASSUME NEW p \in Path, TakeDeletion(p)
      PROVE  TypeOK'
  BY <1>1, <1>5 DEF TypeOK, TakeDeletion, Apply, user, watch
<1>6. CASE ApplyWrite
  <2>1. job \in Jobs /\ job.path \in Path /\ job.entry \in Entry
    BY <1>6 DEF TypeOK, ApplyWrite, NoJob, Jobs
  <2>2. WriteRemote(job.entry, now + 1) \in File
    BY <2>1, ApplyType, AbsentType DEF TypeOK
  <2>3. job' \in Jobs
    BY <1>6, <2>1 DEF ApplyWrite, Jobs
  <2>4. changes' \subseteq Change
    BY <1>6, <2>1 DEF TypeOK, ApplyWrite, Notify, Change
  <2>5. now' \in Nat
    BY <1>6 DEF TypeOK, ApplyWrite
  <2>6. disk' \in [Path -> File]
    BY <1>6, <2>1, <2>2 DEF TypeOK, ApplyWrite
  <2>7. corrupted' \subseteq Path
    BY <1>6 DEF TypeOK, ApplyWrite
  <2>8. QED BY <1>6, <2>3, <2>4, <2>5, <2>6, <2>7 DEF TypeOK, ApplyWrite
<1>7. CASE ApplyRecord
  <2>1. job.path \in Path /\ job.entry \in Entry
    BY <1>7 DEF TypeOK, ApplyRecord, NoJob, Jobs
  <2>2. RecordRemote(job.entry, disk[job.path]) \in Entry
    BY <2>1, ApplyType DEF TypeOK
  <2>3. entries' \in Index
    BY <1>7, <2>2 DEF TypeOK, ApplyRecord, Index
  <2>4. QED BY <1>7, <2>3 DEF TypeOK, ApplyRecord, user, watch
<1>8. CASE EndSession
  BY <1>8 DEF TypeOK, EndSession, user, watch
<1>9. CASE LoseSession
  <2>1. now' \in Nat
    BY <1>9 DEF TypeOK, LoseSession
  <2>2. QED BY <1>9, <2>1 DEF TypeOK, LoseSession, watch
<1>10. QED BY <1>2, <1>3, <1>4, <1>5, <1>6, <1>7, <1>8, <1>9 DEF Sessions

\* A step of the peer keeps the state well typed.
LEMMA RemoteType ==
  ASSUME TypeOK, Remote
  PROVE  TypeOK'
<1>1. ASSUME NEW p \in Path, PeerLearn(p)
      PROVE  TypeOK'
  BY <1>1 DEF TypeOK, Index, PeerLearn, user, watch, pull
<1>2. ASSUME NEW p \in Path, NEW s \in Content, PeerEdit(p, s)
      PROVE  TypeOK'
  <2>1. [sum |-> s, mtime |-> now + 1] \in File
    BY DataAssumption DEF File, TypeOK
  <2>2. Increment(peer[p].clock, Peer) \in Clock
    BY IncrementType, NodeAssumption DEF TypeOK, Index, Entry
  <2>3. peer' \in Index
    BY <1>2, <2>1, <2>2, RecordType DEF TypeOK, Index, PeerEdit
  <2>4. QED BY <1>2, <2>3 DEF TypeOK, PeerEdit, watch, pull
<1>3. ASSUME NEW p \in Path, PeerRemove(p)
      PROVE  TypeOK'
  <2>1. MakeTombstone(peer[p], Peer) \in Entry
    BY MakeTombstoneType, NodeAssumption DEF TypeOK, Index
  <2>2. peer' \in Index
    BY <1>3, <2>1 DEF TypeOK, Index, PeerRemove
  <2>3. QED BY <1>3, <2>2 DEF TypeOK, PeerRemove, watch, pull
<1>4. QED BY <1>1, <1>2, <1>3 DEF Remote

\* Every variable keeps its type, whatever the environment does.
THEOREM TypeCorrect == Spec => []TypeOK
<1>1. Init => TypeOK
  BY TypeInit
<1>2. TypeOK /\ [Next]_vars => TypeOK'
  <2>1. ASSUME TypeOK, UNCHANGED vars PROVE TypeOK'
    BY <2>1 DEF TypeOK, vars
  <2>2. QED BY <2>1, UserType, ProcessType, WatcherType, SessionsType, RemoteType
            DEF Next
<1>3. QED BY <1>1, <1>2, PTL DEF Spec

-----------------------------------------------------------------------------
(* Our own history                                                         *)

\* The environments without a restart, where the peer does not read our index
\* while its own version is being applied.
CalmEnv == Env \cap {"crash", "stop", "cross"} = {}

\* What makes OwnHistoryKept inductive: it must hold before the daemon is up,
\* and the version in the worker thread is no older than the peer's.
HistoryInv ==
    /\ TypeOK
    /\ \A p \in Path : peer[p].clock[Self] <= entries[p].clock[Self]
    /\ phase = "down" => \A p \in Path : peer[p].clock[Self] = 0
    /\ job # NoJob => peer[job.path].clock[Self] <= job.entry.clock[Self]

\* The components the history invariant compares are numbers.
LEMMA CountersAreNumbers ==
  ASSUME NEW i \in Index, NEW p \in Path
  PROVE  i[p] \in Entry /\ i[p].clock \in Clock /\ i[p].clock[Self] \in Nat
  BY NodeAssumption DEF Index, Entry, Clock

\* With empty indexes nobody is ahead of us.
LEMMA HistoryInit == Init => HistoryInv
<1> SUFFICES ASSUME Init PROVE HistoryInv
  OBVIOUS
<1>1. \A p \in Path : peer[p].clock[Self] = 0 /\ entries[p].clock[Self] = 0
  BY NodeAssumption DEF Init, EmptyIndex, NoEntry, ZeroClock
<1>2. job = NoJob
  BY DEF Init
<1>3. QED BY <1>1, <1>2, TypeInit DEF HistoryInv

\* A step that leaves the entries, the peer and the worker thread alone.
LEMMA HistoryUnchanged ==
  ASSUME HistoryInv, TypeOK', UNCHANGED <<entries, peer, job>>,
         phase' = "down" => phase = "down"
  PROVE  HistoryInv'
  BY DEF HistoryInv

\* A step of ours that lets no own component fall.
LEMMA HistoryEntriesGrow ==
  ASSUME HistoryInv, TypeOK', UNCHANGED <<peer, job>>, phase' # "down",
         \A p \in Path : entries[p].clock[Self] <= entries'[p].clock[Self]
  PROVE  HistoryInv'
<1>1. ASSUME NEW p \in Path
      PROVE  peer'[p].clock[Self] <= entries'[p].clock[Self]
  <2>1. peer[p].clock[Self] <= entries[p].clock[Self]
    BY DEF HistoryInv
  <2>2. /\ peer[p].clock[Self] \in Nat
        /\ entries[p].clock[Self] \in Nat
        /\ entries'[p].clock[Self] \in Nat
    BY CountersAreNumbers DEF HistoryInv, TypeOK
  <2>3. QED BY <2>1, <2>2
<1>2. QED BY <1>1 DEF HistoryInv

\* The worker thread is handed the peer's own version.
LEMMA HistoryApply ==
  ASSUME HistoryInv, TypeOK', NEW p \in Path, Apply(p),
         UNCHANGED <<entries, peer, phase>>
  PROVE  HistoryInv'
<1>1. job'.path = p /\ job'.entry = peer[p]
  BY DEF Apply
<1>2. peer'[p].clock[Self] <= job'.entry.clock[Self]
  BY <1>1, CountersAreNumbers DEF HistoryInv, TypeOK
<1>3. QED BY <1>1, <1>2 DEF HistoryInv

\* An edit touches no clock.
LEMMA HistoryUser ==
  ASSUME HistoryInv, User
  PROVE  HistoryInv'
<1>1. TypeOK'
  BY UserType DEF HistoryInv
<1>2. UNCHANGED <<entries, peer, job>> /\ phase' = phase
  BY DEF User, UserWrite, DiskRot, UserDelete, UserMoveAway, UserMoveBack, pull
<1>3. QED BY <1>1, <1>2, HistoryUnchanged

\* Without stop and crash only the first start runs scan, over clocks of zero.
LEMMA HistoryProcess ==
  ASSUME CalmEnv, HistoryInv, Process
  PROVE  HistoryInv'
<1>1. TypeOK'
  BY ProcessType DEF HistoryInv
<1>2. ASSUME NEW x \in SUBSET Path, Start(x)
      PROVE  HistoryInv'
  <2>1. ASSUME NEW p \in Path
        PROVE  peer'[p].clock[Self] <= entries'[p].clock[Self]
    <3>1. peer'[p].clock[Self] = 0
      BY <1>2 DEF HistoryInv, Start
    <3>2. entries'[p].clock[Self] \in Nat
      BY <1>1, CountersAreNumbers DEF TypeOK
    <3>3. QED BY <3>1, <3>2
  <2>2. phase' # "down" /\ UNCHANGED <<job, peer>>
    BY <1>2 DEF Start, pull
  <2>3. QED BY <1>1, <2>1, <2>2 DEF HistoryInv
<1>3. CASE WatchStart
  <2>1. UNCHANGED <<entries, peer, job>> /\ phase' = "up"
    BY <1>3 DEF WatchStart, pull
  <2>2. QED BY <1>1, <2>1, HistoryUnchanged
<1>4. CASE Halt
  BY <1>4 DEF Halt, CalmEnv
<1>5. QED BY <1>2, <1>3, <1>4 DEF Process

\* The watch loop only raises our own component.
LEMMA HistoryWatcher ==
  ASSUME HistoryInv, Watcher
  PROVE  HistoryInv'
<1>1. TypeOK'
  BY WatcherType DEF HistoryInv
<1>2. ASSUME NEW c \in Change, HandleChange(c)
      PROVE  HistoryInv'
  <2>1. ASSUME NEW p \in Path
        PROVE  entries[p].clock[Self] <= entries'[p].clock[Self]
    <3>1. entries[p] \in Entry /\ disk[p] \in File
      BY DEF HistoryInv, TypeOK, Index
    <3>2. entries[p].clock[Self] \in Nat
      BY CountersAreNumbers DEF HistoryInv, TypeOK
    <3>3. entries[p].clock[Self] <= ScanOneAt(p).clock[Self]
      BY <3>1, <3>2, OwnComponentGrows, NodeAssumption DEF ScanOneAt
    <3>4. /\ entries[p].clock[Self]
                <= MarkDeleted(entries[p], disk[p], Self).clock[Self]
          /\ entries[p].clock[Self]
                <= MarkDirDeleted(entries[p], Self).clock[Self]
      BY <3>1, OwnComponentGrows, NodeAssumption
    <3>5. entries'[p] \in {entries[p], ScanOneAt(p),
                           MarkDeleted(entries[p], disk[p], Self),
                           MarkDirDeleted(entries[p], Self)}
      BY <1>2 DEF HandleChange, Handled
    <3>6. QED BY <3>2, <3>3, <3>4, <3>5
  <2>2. UNCHANGED <<peer, job>> /\ phase' # "down"
    BY <1>2 DEF HandleChange, pull
  <2>3. QED BY <1>1, <2>1, <2>2, HistoryEntriesGrow
<1>3. CASE TakeBatch
  <2>1. UNCHANGED <<entries, peer, job>> /\ phase' = phase
    BY <1>3 DEF TakeBatch, pull
  <2>2. QED BY <1>1, <2>1, HistoryUnchanged
<1>4. CASE WatchSave
  <2>1. UNCHANGED <<entries, peer, job>> /\ phase' = phase
    BY <1>4 DEF WatchSave, pull
  <2>2. QED BY <1>1, <2>1, HistoryUnchanged
<1>5. ASSUME NEW p \in Path, Verify(p)
      PROVE  HistoryInv'
  <2>1. UNCHANGED <<entries, peer, job>> /\ phase' = phase
    BY <1>5 DEF Verify, pull
  <2>2. QED BY <1>1, <2>1, HistoryUnchanged
<1>6. QED BY <1>2, <1>3, <1>4, <1>5 DEF Watcher

\* What a session brings from the peer is not behind us in our own component.
LEMMA HistorySessions ==
  ASSUME HistoryInv, Sessions
  PROVE  HistoryInv'
<1>1. TypeOK'
  BY SessionsType DEF HistoryInv
<1>2. ASSUME BeginSession \/ EndSession \/ LoseSession
      PROVE  HistoryInv'
  <2>1. UNCHANGED <<entries, peer, job>> /\ phase' = phase
    BY <1>2 DEF BeginSession, EndSession, LoseSession
  <2>2. QED BY <1>1, <2>1, HistoryUnchanged
<1>3. ASSUME NEW p \in Path, Pull(p) \/ TakePush(p) \/ TakeDeletion(p)
      PROVE  HistoryInv'
  <2>1. Apply(p) /\ UNCHANGED <<entries, peer, phase>>
    BY <1>3 DEF Pull, TakePush, TakeDeletion
  <2>2. QED BY <1>1, <2>1, HistoryApply
<1>4. CASE ApplyWrite
  <2>1. UNCHANGED <<entries, peer, phase>>
    BY <1>4 DEF ApplyWrite
  <2>2. job \in Jobs
    BY <1>4 DEF HistoryInv, TypeOK, ApplyWrite, NoJob
  <2>3. job # NoJob
    BY <1>4 DEF ApplyWrite, NoJob
  <2>4. job'.path = job.path /\ job'.entry = job.entry
    BY <1>4, <2>2 DEF ApplyWrite, Jobs
  <2>5. QED BY <1>1, <2>1, <2>3, <2>4 DEF HistoryInv
<1>5. CASE ApplyRecord
  <2>1. job \in Jobs /\ job # NoJob
    BY <1>5 DEF HistoryInv, TypeOK, ApplyRecord, NoJob
  <2>2. job.path \in Path /\ job.entry \in Entry
    BY <2>1 DEF Jobs
  <2>3. RecordRemote(job.entry, disk[job.path]).clock = job.entry.clock
    BY <2>2 DEF RecordRemote, Entry
  <2>4. UNCHANGED <<peer, phase>> /\ job' = NoJob
    BY <1>5 DEF ApplyRecord
  <2>5. ASSUME NEW p \in Path
        PROVE  peer'[p].clock[Self] <= entries'[p].clock[Self]
    <3>1. CASE p = job.path
      <4>1. entries'[p].clock = job.entry.clock
        BY <1>5, <2>3, <3>1 DEF ApplyRecord, HistoryInv, TypeOK, Index
      <4>2. QED BY <2>1, <2>4, <3>1, <4>1 DEF HistoryInv
    <3>2. CASE p # job.path
      <4>1. entries'[p] = entries[p]
        BY <1>5, <3>2 DEF ApplyRecord, HistoryInv, TypeOK, Index
      <4>2. QED BY <2>4, <4>1 DEF HistoryInv
    <3>3. QED BY <3>1, <3>2
  <2>6. QED BY <1>1, <2>4, <2>5 DEF HistoryInv
<1>6. QED BY <1>2, <1>3, <1>4, <1>5 DEF Sessions

\* The peer learns our component from us and raises only its own.
LEMMA HistoryRemote ==
  ASSUME CalmEnv, HistoryInv, Remote
  PROVE  HistoryInv'
<1>1. TypeOK'
  BY RemoteType DEF HistoryInv
<1>2. ASSUME NEW p \in Path, PeerLearn(p)
      PROVE  HistoryInv'
  <2>1. /\ phase = "up" /\ UNCHANGED <<entries, job, phase>>
        /\ peer' = [peer EXCEPT ![p] = entries[p]]
        /\ job.path # p
    BY <1>2 DEF PeerLearn, LoopFree, pull, CalmEnv
  <2>2. ASSUME NEW q \in Path
        PROVE  peer'[q].clock[Self] <= entries'[q].clock[Self]
    BY <2>1, CountersAreNumbers DEF HistoryInv, TypeOK, Index
  <2>3. job # NoJob => peer'[job.path] = peer[job.path]
    BY <2>1 DEF HistoryInv, TypeOK, Index, Jobs
  <2>4. QED BY <1>1, <2>1, <2>2, <2>3 DEF HistoryInv
<1>3. ASSUME UNCHANGED <<entries, job, phase>>,
             \A q \in Path : peer'[q].clock[Self] = peer[q].clock[Self]
      PROVE  HistoryInv'
  <2>1. job # NoJob => job.path \in Path
    BY DEF HistoryInv, TypeOK, Jobs
  <2>2. QED BY <1>1, <1>3, <2>1 DEF HistoryInv
<1>4. ASSUME NEW p \in Path
      PROVE  Increment(peer[p].clock, Peer)[Self] = peer[p].clock[Self]
  BY CountersAreNumbers, NodeAssumption DEF Increment, Clock, HistoryInv, TypeOK
<1>5. ASSUME NEW p \in Path, NEW s \in Content, PeerEdit(p, s)
      PROVE  HistoryInv'
  <2>1. UNCHANGED <<entries, job, phase>>
    BY <1>5 DEF PeerEdit, pull
  <2>2. \A q \in Path : peer'[q].clock[Self] = peer[q].clock[Self]
    BY <1>4, <1>5 DEF PeerEdit, Record, HistoryInv, TypeOK, Index
  <2>3. QED BY <1>3, <2>1, <2>2
<1>6. ASSUME NEW p \in Path, PeerRemove(p)
      PROVE  HistoryInv'
  <2>1. UNCHANGED <<entries, job, phase>>
    BY <1>6 DEF PeerRemove, pull
  <2>2. \A q \in Path : peer'[q].clock[Self] = peer[q].clock[Self]
    BY <1>4, <1>6 DEF PeerRemove, MakeTombstone, HistoryInv, TypeOK, Index
  <2>3. QED BY <1>3, <2>1, <2>2
<1>7. QED BY <1>2, <1>5, <1>6 DEF Remote

\* No step breaks the invariant in a calm environment.
LEMMA HistoryStep ==
  ASSUME CalmEnv, HistoryInv, [Next]_vars
  PROVE  HistoryInv'
<1>1. ASSUME UNCHANGED vars PROVE HistoryInv'
  BY <1>1 DEF HistoryInv, TypeOK, vars
<1>2. QED BY <1>1, HistoryUser, HistoryProcess, HistoryWatcher,
             HistorySessions, HistoryRemote DEF Next

\* As long as the daemon is not restarted and no session crosses another on
\* the same path, no peer ever holds a later number of ours than we do.
THEOREM OwnHistory ==
  ASSUME CalmEnv
  PROVE  Spec => []OwnHistoryKept
<1>1. Init => HistoryInv
  BY HistoryInit
<1>2. HistoryInv /\ [Next]_vars => HistoryInv'
  BY HistoryStep
<1>3. HistoryInv => OwnHistoryKept
  BY DEF HistoryInv, OwnHistoryKept
<1>4. QED BY <1>1, <1>2, <1>3, PTL DEF Spec
-----------------------------------------------------------------------------
(* Steps of our own                                                        *)

\* What a step other than the watcher's, a start, a halt or the record of an
\* applied file does to the entries: nothing.
LEMMA EntriesOnlyThere ==
  ASSUME [Next]_vars, entries' # entries
  PROVE  \/ \E c \in Change : HandleChange(c)
         \/ \E x \in SUBSET Path : Start(x)
         \/ Halt
         \/ ApplyRecord
<1>1. ASSUME User PROVE entries' = entries
  BY <1>1 DEF User, UserWrite, DiskRot, UserDelete, UserMoveAway, UserMoveBack
<1>2. ASSUME WatchStart PROVE entries' = entries
  BY <1>2 DEF WatchStart
<1>3. ASSUME TakeBatch \/ WatchSave \/ \E p \in Path : Verify(p)
      PROVE  entries' = entries
  BY <1>3 DEF TakeBatch, WatchSave, Verify
<1>4. ASSUME \/ BeginSession \/ EndSession \/ LoseSession \/ ApplyWrite
             \/ \E p \in Path : Pull(p) \/ TakePush(p) \/ TakeDeletion(p)
      PROVE  entries' = entries
  BY <1>4 DEF BeginSession, EndSession, LoseSession, ApplyWrite, Pull, TakePush,
              TakeDeletion
<1>5. ASSUME Remote PROVE entries' = entries
  BY <1>5 DEF Remote, PeerLearn, PeerEdit, PeerRemove
<1>6. ASSUME UNCHANGED vars PROVE entries' = entries
  BY <1>6 DEF vars
<1>7. CASE Next
  BY <1>1, <1>2, <1>3, <1>4, <1>5, <1>7 DEF Next, Process, Watcher, Sessions
<1>8. QED BY <1>6, <1>7

\* What an event does to one entry: scan_one, mark_deleted, mark_dir_deleted
\* or nothing.
LEMMA HandledEntry ==
  ASSUME NEW c \in Change, HandleChange(c), NEW p \in Path
  PROVE  \/ entries'[p] = entries[p]
         \/ /\ c = <<"changed", p>> \/ (c = <<"changed", Dir>> /\ p \in InDir /\ ~away)
            /\ p \notin excluded
            /\ entries'[p] = ScanOne(entries[p], disk[p], Self)
         \/ /\ c = <<"deleted", p>>
            /\ entries'[p] = MarkDeleted(entries[p], disk[p], Self)
         \/ /\ c = <<"deleted", Dir>> /\ p \in InDir
            /\ entries'[p] = MarkDirDeleted(entries[p], Self)
  BY DEF HandleChange, Handled, ScanOneAt

\* Whatever the environment does, a version made while the daemon is up is
\* one step of our own component after the one it replaces (_watch_loop).
THEOREM StepsForward == Spec => LocalStepsForward
<1>1. ASSUME [Next]_vars, NEW p \in Path, phase = "up", phase' = "up",
             job.step # "record", entries'[p] # entries[p]
      PROVE  entries'[p].clock = Increment(entries[p].clock, Self)
  <2>1. PICK c \in Change : HandleChange(c)
    BY <1>1, EntriesOnlyThere DEF Start, Halt, ApplyRecord
  <2>2. \/ entries'[p] = ScanOne(entries[p], disk[p], Self)
        \/ entries'[p] = MarkDeleted(entries[p], disk[p], Self)
        \/ entries'[p] = MarkDirDeleted(entries[p], Self)
    BY <1>1, <2>1, HandledEntry
  <2>3. QED BY <1>1, <2>2 DEF ScanOne, MarkDeleted, MarkDirDeleted, Record,
                              MakeTombstone
<1>2. [Next]_vars =>
        [\A p \in Path :
            (phase = "up" /\ phase' = "up" /\ job.step # "record"
               /\ entries'[p] # entries[p])
            => entries'[p].clock = Increment(entries[p].clock, Self)]_vars
  BY <1>1
<1>3. QED BY <1>2, PTL DEF Spec, LocalStepsForward

-----------------------------------------------------------------------------
(* Tombstones                                                              *)

\* The environments where a directory is not moved back before its removal was
\* noticed, and no file is edited while the worker thread applies it.
OrderlyEnv == Env \cap {"swap", "race"} = {}

\* What makes TombstoneMeansGone hold: the event that a directory is gone is
\* only handled while it is, and its files with it.
AwayInv ==
    /\ TypeOK
    /\ away => \A p \in InDir : ~Exists(disk[p])
    /\ ~away => \A p \in InDir : aside[p] = Absent
    /\ (away /\ job # NoJob) => job.path \notin InDir
    /\ <<"deleted", Dir>> \in changes \cup batch => away

\* A directory that was never moved holds what it holds.
LEMMA AwayInit == Init => AwayInv
  BY TypeInit DEF Init, AwayInv

\* A step that leaves the files and the worker thread alone and brings no
\* event.
LEMMA AwayUnchanged ==
  ASSUME AwayInv, TypeOK', UNCHANGED <<disk, away, aside>>,
         job' = job \/ job' = NoJob,
         changes' \cup batch' \subseteq changes \cup batch
  PROVE  AwayInv'
  BY DEF AwayInv

\* No edit reaches into a directory that is away, and its move is one event.
LEMMA AwayUser ==
  ASSUME OrderlyEnv, AwayInv, User
  PROVE  AwayInv'
<1> USE DataAssumption
<1>1. TypeOK'
  BY UserType DEF AwayInv
<1>2. ASSUME NEW p \in Path, NEW s \in Content, UserWrite(p, s)
      PROVE  AwayInv'
  <2>1. /\ UNCHANGED <<away, aside, batch, job>>
        /\ \A q \in InDir : away => disk'[q] = disk[q]
    BY <1>2 DEF UserWrite, MayEdit, Reachable, pull, AwayInv, TypeOK
  <2>2. <<"deleted", Dir>> \in changes' => <<"deleted", Dir>> \in changes
    BY <1>2 DEF UserWrite, Notify
  <2>3. QED BY <1>1, <2>1, <2>2 DEF AwayInv
<1>3. ASSUME NEW p \in Path, UserDelete(p)
      PROVE  AwayInv'
  <2>1. /\ UNCHANGED <<away, aside, batch, job>>
        /\ \A q \in InDir : away => disk'[q] = disk[q]
    BY <1>3 DEF UserDelete, MayEdit, Reachable, pull, AwayInv, TypeOK
  <2>2. <<"deleted", Dir>> \in changes' => <<"deleted", Dir>> \in changes
    BY <1>3 DEF UserDelete, Notify
  <2>3. QED BY <1>1, <2>1, <2>2 DEF AwayInv
<1>4. ASSUME NEW p \in Path, NEW s \in Content, DiskRot(p, s)
      PROVE  AwayInv'
  <2>1. /\ UNCHANGED <<away, aside, changes, batch, job>>
        /\ \A q \in InDir : away => disk'[q] = disk[q]
    BY <1>4 DEF DiskRot, watch, pull, AwayInv, TypeOK
  <2>2. QED BY <1>1, <2>1 DEF AwayInv
<1>5. CASE UserMoveAway
  <2>1. away' /\ UNCHANGED <<batch, job>>
    BY <1>5 DEF UserMoveAway, pull
  <2>2. \A q \in InDir : ~Exists(disk'[q])
    BY <1>5 DEF UserMoveAway, AwayInv, TypeOK, Exists, Absent
  <2>3. job.path \notin InDir
    BY <1>5 DEF UserMoveAway, MayEdit, OrderlyEnv
  <2>4. QED BY <1>1, <2>1, <2>2, <2>3 DEF AwayInv
<1>6. CASE UserMoveBack
  <2>1. ~away' /\ UNCHANGED <<batch, job>>
    BY <1>6 DEF UserMoveBack, pull
  <2>2. \A q \in InDir : aside'[q] = Absent
    BY <1>6 DEF UserMoveBack
  <2>3. <<"deleted", Dir>> \notin changes' \cup batch'
    BY <1>6 DEF UserMoveBack, Notify, OrderlyEnv
  <2>4. QED BY <1>1, <2>1, <2>2, <2>3 DEF AwayInv
<1>7. QED BY <1>2, <1>3, <1>4, <1>5, <1>6 DEF User

\* A file is only applied where its directory is in place.
LEMMA AwaySessions ==
  ASSUME AwayInv, Sessions
  PROVE  AwayInv'
<1>1. TypeOK'
  BY SessionsType DEF AwayInv
<1>2. ASSUME BeginSession \/ EndSession \/ LoseSession \/ ApplyRecord
      PROVE  AwayInv'
  <2>1. /\ UNCHANGED <<disk, away, aside, changes, batch>>
        /\ job' = job \/ job' = NoJob
    BY <1>2 DEF BeginSession, EndSession, LoseSession, ApplyRecord, user, watch
  <2>2. QED BY <1>1, <2>1, AwayUnchanged
<1>3. ASSUME NEW p \in Path, Pull(p) \/ TakePush(p) \/ TakeDeletion(p)
      PROVE  AwayInv'
  <2>1. UNCHANGED <<disk, away, aside, changes, batch>>
    BY <1>3 DEF Pull, TakePush, TakeDeletion, user, watch
  <2>2. job'.path = p /\ (p \in InDir => ~away)
    BY <1>3 DEF Pull, TakePush, TakeDeletion, Apply, Reachable
  <2>3. QED BY <1>1, <2>1, <2>2 DEF AwayInv
<1>4. CASE ApplyWrite
  <2>1. job # NoJob /\ job \in Jobs
    BY <1>4 DEF ApplyWrite, NoJob, AwayInv, TypeOK
  <2>2. job'.path = job.path
    BY <1>4, <2>1 DEF ApplyWrite, Jobs
  <2>3. UNCHANGED <<away, aside, batch>>
    BY <1>4 DEF ApplyWrite
  <2>4. away => \A q \in InDir : disk'[q] = disk[q]
    BY <1>4, <2>1, DataAssumption DEF ApplyWrite, AwayInv, TypeOK
  <2>5. <<"deleted", Dir>> \in changes' => <<"deleted", Dir>> \in changes
    BY <1>4, <2>1, DataAssumption DEF ApplyWrite, Notify, Jobs
  <2>6. QED BY <1>1, <2>1, <2>2, <2>3, <2>4, <2>5 DEF AwayInv
<1>5. QED BY <1>2, <1>3, <1>4 DEF Sessions

\* No step breaks the invariant in an orderly environment.
LEMMA AwayStep ==
  ASSUME OrderlyEnv, AwayInv, [Next]_vars
  PROVE  AwayInv'
<1>1. ASSUME UNCHANGED vars PROVE AwayInv'
  BY <1>1 DEF AwayInv, TypeOK, vars
<1>2. ASSUME Process PROVE AwayInv'
  <2>1. /\ UNCHANGED <<disk, away, aside>>
        /\ job' = job \/ job' = NoJob
        /\ changes' \cup batch' \subseteq changes \cup batch
    BY <1>2 DEF Process, Start, WatchStart, Halt, user, watch, pull
  <2>2. QED BY <1>2, <2>1, ProcessType, AwayUnchanged DEF AwayInv
<1>3. ASSUME Watcher PROVE AwayInv'
  <2>1. /\ UNCHANGED <<disk, away, aside, job>>
        /\ changes' \cup batch' \subseteq changes \cup batch
    BY <1>3 DEF Watcher, TakeBatch, HandleChange, WatchSave, Verify, user, watch, pull
  <2>2. QED BY <1>3, <2>1, WatcherType, AwayUnchanged DEF AwayInv
<1>4. ASSUME Remote PROVE AwayInv'
  <2>1. UNCHANGED <<disk, away, aside, job, changes, batch>>
    BY <1>4 DEF Remote, PeerLearn, PeerEdit, PeerRemove, user, watch, pull
  <2>2. QED BY <1>4, <2>1, RemoteType, AwayUnchanged DEF AwayInv
<1>5. QED BY <1>1, <1>2, <1>3, <1>4, AwayUser, AwaySessions DEF Next

\* In an orderly environment a live entry becomes a tombstone of ours only
\* when its file is gone (scan, mark_deleted, mark_dir_deleted).
THEOREM TombstonesTrue ==
  ASSUME OrderlyEnv
  PROVE  Spec => TombstoneMeansGone
<1>1. Init => AwayInv
  BY AwayInit
<1>2. AwayInv /\ [Next]_vars => AwayInv'
  BY AwayStep
<1>3. ASSUME AwayInv, [Next]_vars, NEW p \in Path, Live(entries[p]),
             ~Live(entries'[p]), job.step # "record", phase' # "down",
             p \notin excluded'
      PROVE  ~Exists(disk[p])
  <2>1. entries' # entries
    BY <1>3
  <2>2. ASSUME NEW x \in SUBSET Path, Start(x) PROVE ~Exists(disk[p])
    <3>1. entries'[p] = ScanEntry(stored[p], disk[p], Self)
      BY <1>3, <2>2 DEF Start, Seen
    <3>2. QED BY <1>3, <3>1 DEF ScanEntry, Record, Live
  <2>3. ASSUME NEW c \in Change, HandleChange(c) PROVE ~Exists(disk[p])
    <3>1. \/ entries'[p] = ScanOne(entries[p], disk[p], Self)
          \/ entries'[p] = MarkDeleted(entries[p], disk[p], Self)
          \/ c = <<"deleted", Dir>> /\ p \in InDir
      BY <1>3, <2>3, HandledEntry
    <3>2. c \in batch
      BY <2>3 DEF HandleChange
    <3>3. QED BY <1>3, <3>1, <3>2 DEF ScanOne, MarkDeleted, Record, Live, AwayInv
  <2>4. QED BY <1>3, <2>1, <2>2, <2>3, EntriesOnlyThere DEF Halt, ApplyRecord
<1>4. AwayInv /\ [Next]_vars =>
        [\A p \in Path :
            (Live(entries[p]) /\ ~Live(entries'[p]) /\ job.step # "record"
               /\ phase' # "down" /\ p \notin excluded')
            => ~Exists(disk[p])]_vars
  BY <1>3
<1>5. QED BY <1>1, <1>2, <1>4, PTL DEF Spec, TombstoneMeansGone
-----------------------------------------------------------------------------
(* Equal clocks                                                            *)

\* Equal clocks stand for equal contents.
Same(e, f) == Equals(e.clock, f.clock) => e.sum = f.sum

\* What makes SameClockSameVersion inductive.  A new version must have a clock
\* nobody holds: we raise a component of which nobody knows more than we do
\* (HistoryInv, and the version in the worker thread), the peer one of which we
\* know no more than it does.
SameInv ==
    /\ HistoryInv
    /\ phase = "down" =>
          /\ job = NoJob
          /\ entries = EmptyIndex /\ stored = EmptyIndex
    /\ \A p \in Path :
          /\ entries[p].clock[Peer] <= peer[p].clock[Peer]
          /\ Same(peer[p], entries[p])
    /\ job # NoJob =>
          /\ job.entry.clock[Self] <= entries[job.path].clock[Self]
          /\ job.entry.clock[Peer] <= peer[job.path].clock[Peer]
          /\ Same(entries[job.path], job.entry)
          /\ Same(peer[job.path], job.entry)

\* Clocks that differ in a component are not equal.
LEMMA DifferentClocks ==
  ASSUME NEW e \in Entry, NEW f \in Entry, NEW n \in Node,
         e.clock[n] < f.clock[n]
  PROVE  Same(e, f) /\ Same(f, e)
<1>1. e.clock[n] \in Nat /\ f.clock[n] \in Nat
  BY DEF Entry, Clock
<1>2. e.clock[n] # f.clock[n]
  BY <1>1
<1>3. QED BY <1>2 DEF Same, Equals

\* What increment() does to the two components.
LEMMA IncrementParts ==
  ASSUME NEW c \in Clock
  PROVE  /\ Increment(c, Self)[Self] = c[Self] + 1
         /\ Increment(c, Self)[Peer] = c[Peer]
         /\ Increment(c, Peer)[Peer] = c[Peer] + 1
         /\ Increment(c, Peer)[Self] = c[Self]
  BY NodeAssumption DEF Increment, Clock

\* The components the invariants compare are numbers.
LEMMA PartsAreNumbers ==
  ASSUME NEW e \in Entry
  PROVE  e.clock \in Clock /\ e.clock[Self] \in Nat /\ e.clock[Peer] \in Nat
  BY NodeAssumption DEF Entry, Clock

\* The version handed to the worker thread is an entry of a path.
LEMMA JobType ==
  ASSUME TypeOK, job # NoJob
  PROVE  job \in Jobs /\ job.path \in Path /\ job.entry \in Entry
  BY DEF TypeOK, Jobs

\* With empty indexes all versions are the same.
LEMMA SameInit == Init => SameInv
<1> SUFFICES ASSUME Init PROVE SameInv
  OBVIOUS
<1>1. \A p \in Path : peer[p] = entries[p] /\ entries[p].clock[Peer] = 0
  BY NodeAssumption DEF Init, EmptyIndex, NoEntry, ZeroClock
<1>2. QED BY <1>1, HistoryInit DEF Init, SameInv, Same

\* A step that leaves the index, the peer and the worker thread alone.
LEMMA SameUnchanged ==
  ASSUME SameInv, HistoryInv', UNCHANGED <<entries, peer>>,
         phase' = "down" => (phase = "down" /\ UNCHANGED stored),
         \/ job' = NoJob
         \/ job # NoJob /\ job'.path = job.path /\ job'.entry = job.entry
         \/ job' = job
  PROVE  SameInv'
  BY DEF SameInv

\* New versions of ours: each entry stays or has its own component raised.
LEMMA SameOwnVersion ==
  ASSUME SameInv, HistoryInv', UNCHANGED <<peer, job>>, phase' # "down",
         \A p \in Path :
            \/ entries'[p] = entries[p]
            \/ entries'[p].clock = Increment(entries[p].clock, Self)
  PROVE  SameInv'
<1>1. \A p \in Path : entries[p] \in Entry /\ entries'[p] \in Entry /\ peer[p] \in Entry
  BY DEF SameInv, HistoryInv, TypeOK, Index
<1>2. ASSUME NEW p \in Path
      PROVE  /\ entries[p].clock[Self] <= entries'[p].clock[Self]
             /\ entries'[p].clock[Peer] = entries[p].clock[Peer]
             /\ entries'[p] # entries[p] =>
                  entries[p].clock[Self] < entries'[p].clock[Self]
  <2>1. entries[p].clock \in Clock /\ entries[p].clock[Self] \in Nat
    BY <1>1, PartsAreNumbers
  <2>2. QED BY <2>1, IncrementParts
<1>3. ASSUME NEW p \in Path
      PROVE  entries'[p].clock[Peer] <= peer'[p].clock[Peer]
                /\ Same(peer'[p], entries'[p])
  <2>1. CASE entries'[p] = entries[p]
    BY <2>1 DEF SameInv
  <2>2. CASE entries'[p] # entries[p]
    <3>1. /\ peer[p].clock[Self] <= entries[p].clock[Self]
          /\ entries[p].clock[Peer] <= peer[p].clock[Peer]
      BY DEF SameInv, HistoryInv
    <3>2. peer[p].clock[Self] < entries'[p].clock[Self]
      BY <1>1, <1>2, <2>2, <3>1, PartsAreNumbers
    <3>3. Same(peer[p], entries'[p])
      BY <1>1, <3>2, DifferentClocks, NodeAssumption
    <3>4. QED BY <1>2, <3>1, <3>3
  <2>3. QED BY <2>1, <2>2
<1>4. ASSUME job # NoJob
      PROVE  /\ job.entry.clock[Self] <= entries'[job.path].clock[Self]
             /\ Same(entries'[job.path], job.entry)
  <2>1. job.path \in Path /\ job.entry \in Entry
    BY <1>4, JobType DEF SameInv, HistoryInv
  <2>2. /\ job.entry.clock[Self] <= entries[job.path].clock[Self]
        /\ Same(entries[job.path], job.entry)
    BY <1>4 DEF SameInv
  <2>3. PICK p \in Path : p = job.path
    BY <2>1
  <2>4. PICK e \in Entry : e = job.entry
    BY <2>1
  <2>5. /\ e.clock[Self] \in Nat /\ entries[p].clock[Self] \in Nat
        /\ entries'[p].clock[Self] \in Nat
    BY <1>1, PartsAreNumbers
  <2>6. e.clock[Self] <= entries'[p].clock[Self]
    BY <1>2, <2>2, <2>3, <2>4, <2>5
  <2>7. CASE entries'[p] = entries[p]
    BY <2>2, <2>3, <2>4, <2>6, <2>7
  <2>8. CASE entries'[p] # entries[p]
    <3>1. e.clock[Self] < entries'[p].clock[Self]
      BY <1>2, <2>2, <2>3, <2>4, <2>5, <2>8
    <3>2. Same(entries'[p], e)
      BY <1>1, <3>1, DifferentClocks, NodeAssumption
    <3>3. QED BY <2>3, <2>4, <2>6, <3>2
  <2>9. QED BY <2>7, <2>8
<1>5. QED BY <1>3, <1>4 DEF SameInv

\* A new version of the peer: its own component is raised.
LEMMA SamePeerVersion ==
  ASSUME SameInv, HistoryInv', UNCHANGED <<entries, stored, job, phase>>,
         \A p \in Path :
            \/ peer'[p] = peer[p]
            \/ peer'[p].clock = Increment(peer[p].clock, Peer)
  PROVE  SameInv'
<1>1. \A p \in Path : entries[p] \in Entry /\ peer[p] \in Entry /\ peer'[p] \in Entry
  BY DEF SameInv, HistoryInv, TypeOK, Index
<1>2. ASSUME NEW p \in Path
      PROVE  /\ peer[p].clock[Peer] <= peer'[p].clock[Peer]
             /\ peer'[p] # peer[p] => peer[p].clock[Peer] < peer'[p].clock[Peer]
  <2>1. peer[p].clock \in Clock /\ peer[p].clock[Peer] \in Nat
    BY <1>1, PartsAreNumbers
  <2>2. QED BY <2>1, IncrementParts
<1>3. ASSUME NEW p \in Path, NEW e \in Entry,
             e.clock[Peer] <= peer[p].clock[Peer], Same(peer[p], e)
      PROVE  e.clock[Peer] <= peer'[p].clock[Peer] /\ Same(peer'[p], e)
  <2>1. /\ e.clock[Peer] \in Nat /\ peer[p].clock[Peer] \in Nat
        /\ peer'[p].clock[Peer] \in Nat
    BY <1>1, PartsAreNumbers
  <2>2. e.clock[Peer] <= peer'[p].clock[Peer]
    BY <1>2, <1>3, <2>1
  <2>3. CASE peer'[p] # peer[p]
    <3>1. e.clock[Peer] < peer'[p].clock[Peer]
      BY <1>2, <1>3, <2>1, <2>3
    <3>2. QED BY <1>1, <2>2, <3>1, DifferentClocks, NodeAssumption
  <2>4. QED BY <1>3, <2>2, <2>3
<1>4. ASSUME NEW p \in Path
      PROVE  entries[p].clock[Peer] <= peer'[p].clock[Peer]
                /\ Same(peer'[p], entries[p])
  BY <1>1, <1>3 DEF SameInv
<1>5. ASSUME job # NoJob
      PROVE  /\ job.entry.clock[Peer] <= peer'[job.path].clock[Peer]
             /\ Same(peer'[job.path], job.entry)
  <2>1. job.path \in Path /\ job.entry \in Entry
    BY <1>5, JobType DEF SameInv, HistoryInv
  <2>2. QED BY <1>3, <1>5, <2>1 DEF SameInv
<1>6. QED BY <1>4, <1>5 DEF SameInv
\* The worker thread is handed the peer's own version.
LEMMA SameApply ==
  ASSUME SameInv, HistoryInv', NEW p \in Path, Apply(p), phase = "up",
         UNCHANGED <<entries, stored, peer, phase>>
  PROVE  SameInv'
<1>1. job'.path = p /\ job'.entry = peer[p]
  BY DEF Apply
<1>2. peer[p] \in Entry /\ entries[p] \in Entry
  BY DEF SameInv, HistoryInv, TypeOK, Index
<1>3. peer[p].clock[Self] <= entries[p].clock[Self]
  BY DEF SameInv, HistoryInv
<1>4. peer[p].clock[Peer] <= peer[p].clock[Peer]
  BY <1>2, PartsAreNumbers
<1>5. Same(entries[p], peer[p]) /\ Same(peer[p], peer[p])
  BY DEF SameInv, Same, Equals
<1>6. QED BY <1>1, <1>3, <1>4, <1>5 DEF SameInv

\* An edit touches no version.
LEMMA SameUser ==
  ASSUME SameInv, HistoryInv', User
  PROVE  SameInv'
<1>1. UNCHANGED <<entries, stored, peer, job, phase>>
  BY DEF User, UserWrite, DiskRot, UserDelete, UserMoveAway, UserMoveBack, pull
<1>2. QED BY <1>1, SameUnchanged

\* The first start makes its versions over clocks of zero.
LEMMA SameProcess ==
  ASSUME CalmEnv, SameInv, HistoryInv', Process
  PROVE  SameInv'
<1>1. ASSUME NEW x \in SUBSET Path, Start(x)
      PROVE  SameInv'
  <2>1. ASSUME NEW p \in Path
        PROVE  \/ entries'[p] = entries[p]
               \/ entries'[p].clock = Increment(entries[p].clock, Self)
    <3>1. entries[p] = NoEntry /\ stored[p] = NoEntry
      BY <1>1 DEF Start, SameInv, EmptyIndex
    <3>2. entries'[p] = ScanEntry(NoEntry, Seen(p, x), Self)
      BY <1>1, <3>1 DEF Start
    <3>3. QED BY <3>1, <3>2 DEF ScanEntry, Record, NoEntry, Live
  <2>2. UNCHANGED <<peer, job>> /\ phase' # "down"
    BY <1>1 DEF Start, pull
  <2>3. QED BY <2>1, <2>2, SameOwnVersion
<1>2. CASE WatchStart
  <2>1. UNCHANGED <<entries, peer, job>> /\ phase' = "up"
    BY <1>2 DEF WatchStart, pull
  <2>2. QED BY <2>1, SameUnchanged
<1>3. ASSUME Halt PROVE FALSE
  BY <1>3 DEF Halt, CalmEnv
<1>4. QED BY <1>1, <1>2, <1>3 DEF Process

\* The watch loop makes new versions with our own component raised.
LEMMA SameWatcher ==
  ASSUME SameInv, HistoryInv', Watcher
  PROVE  SameInv'
<1>1. ASSUME NEW c \in Change, HandleChange(c)
      PROVE  SameInv'
  <2>1. ASSUME NEW p \in Path
        PROVE  \/ entries'[p] = entries[p]
               \/ entries'[p].clock = Increment(entries[p].clock, Self)
    <3>1. \/ entries'[p] = entries[p]
          \/ entries'[p] = ScanOne(entries[p], disk[p], Self)
          \/ entries'[p] = MarkDeleted(entries[p], disk[p], Self)
          \/ entries'[p] = MarkDirDeleted(entries[p], Self)
      BY <1>1, HandledEntry
    <3>2. QED BY <3>1 DEF ScanOne, MarkDeleted, MarkDirDeleted, Record,
                          MakeTombstone
  <2>2. UNCHANGED <<peer, job>> /\ phase' # "down"
    BY <1>1 DEF HandleChange, pull
  <2>3. QED BY <2>1, <2>2, SameOwnVersion
<1>2. ASSUME TakeBatch \/ WatchSave \/ \E p \in Path : Verify(p)
      PROVE  SameInv'
  <2>1. UNCHANGED <<entries, peer, job>> /\ phase' = "up"
    BY <1>2 DEF TakeBatch, WatchSave, Verify, LoopFree, pull
  <2>2. QED BY <2>1, SameUnchanged
<1>3. QED BY <1>1, <1>2 DEF Watcher

\* What is recorded is the version that was received.
LEMMA SameSessions ==
  ASSUME SameInv, HistoryInv', Sessions
  PROVE  SameInv'
<1>1. ASSUME BeginSession \/ EndSession \/ LoseSession
      PROVE  SameInv'
  <2>1. UNCHANGED <<entries, peer, job>> /\ phase' = "up"
    BY <1>1 DEF BeginSession, EndSession, LoseSession, LoopFree
  <2>2. QED BY <2>1, SameUnchanged
<1>2. ASSUME NEW p \in Path, Pull(p) \/ TakePush(p) \/ TakeDeletion(p)
      PROVE  SameInv'
  <2>1. Apply(p) /\ phase = "up" /\ UNCHANGED <<entries, stored, peer, phase>>
    BY <1>2 DEF Pull, TakePush, TakeDeletion, LoopFree
  <2>2. QED BY <2>1, SameApply
<1>3. CASE ApplyWrite
  <2>1. job # NoJob
    BY <1>3 DEF ApplyWrite, NoJob
  <2>2. job'.path = job.path /\ job'.entry = job.entry
    BY <1>3, <2>1, JobType DEF ApplyWrite, Jobs, SameInv, HistoryInv
  <2>3. UNCHANGED <<entries, stored, peer, phase>>
    BY <1>3 DEF ApplyWrite
  <2>4. QED BY <2>1, <2>2, <2>3, SameUnchanged
<1>4. CASE ApplyRecord
  <2>1. job # NoJob
    BY <1>4 DEF ApplyRecord, NoJob
  <2>2. job.path \in Path /\ job.entry \in Entry
    BY <2>1, JobType DEF SameInv, HistoryInv
  <2>3. UNCHANGED <<peer, phase>> /\ job' = NoJob /\ phase # "down"
    BY <1>4, <2>1 DEF ApplyRecord, SameInv
  <2>4. /\ RecordRemote(job.entry, disk[job.path]).clock = job.entry.clock
        /\ RecordRemote(job.entry, disk[job.path]).sum = job.entry.sum
    BY <2>2 DEF RecordRemote, Entry
  <2>5. ASSUME NEW p \in Path
        PROVE  entries'[p].clock[Peer] <= peer[p].clock[Peer]
                  /\ Same(peer[p], entries'[p])
    <3>1. CASE p = job.path
      <4>1. entries'[p].clock = job.entry.clock /\ entries'[p].sum = job.entry.sum
        BY <1>4, <2>4, <3>1 DEF ApplyRecord, SameInv, HistoryInv, TypeOK, Index
      <4>2. job.entry.clock[Peer] <= peer[p].clock[Peer] /\ Same(peer[p], job.entry)
        BY <2>1, <3>1 DEF SameInv
      <4>3. QED BY <4>1, <4>2 DEF Same
    <3>2. CASE p # job.path
      <4>1. entries'[p] = entries[p]
        BY <1>4, <3>2 DEF ApplyRecord, SameInv, HistoryInv, TypeOK, Index
      <4>2. QED BY <4>1 DEF SameInv
    <3>3. QED BY <3>1, <3>2
  <2>6. QED BY <2>3, <2>5 DEF SameInv
<1>5. QED BY <1>1, <1>2, <1>3, <1>4 DEF Sessions

\* The peer takes our version as it is, or makes one of its own.
LEMMA SameRemote ==
  ASSUME CalmEnv, SameInv, HistoryInv', Remote
  PROVE  SameInv'
<1>1. ASSUME NEW p \in Path, PeerLearn(p)
      PROVE  SameInv'
  <2>1. /\ UNCHANGED <<entries, stored, job, phase>>
        /\ peer' = [peer EXCEPT ![p] = entries[p]]
        /\ job.path # p
    BY <1>1 DEF PeerLearn, pull, CalmEnv
  <2>2. ASSUME NEW q \in Path
        PROVE  entries[q].clock[Peer] <= peer'[q].clock[Peer]
                  /\ Same(peer'[q], entries[q])
    <3>1. CASE q = p
      <4>1. peer'[q] = entries[q]
        BY <2>1, <3>1 DEF SameInv, HistoryInv, TypeOK, Index
      <4>2. entries[q] \in Entry
        BY DEF SameInv, HistoryInv, TypeOK, Index
      <4>3. QED BY <4>1, <4>2, PartsAreNumbers DEF Same
    <3>2. CASE q # p
      <4>1. peer'[q] = peer[q]
        BY <2>1, <3>2 DEF SameInv, HistoryInv, TypeOK, Index
      <4>2. QED BY <4>1 DEF SameInv
    <3>3. QED BY <3>1, <3>2
  <2>3. job # NoJob => peer'[job.path] = peer[job.path]
    BY <2>1, JobType DEF SameInv, HistoryInv, TypeOK, Index
  <2>4. QED BY <2>1, <2>2, <2>3 DEF SameInv
<1>2. ASSUME NEW p \in Path, \/ PeerRemove(p)
                             \/ \E s \in Content : PeerEdit(p, s)
      PROVE  SameInv'
  <2>1. UNCHANGED <<entries, stored, job, phase>>
    BY <1>2 DEF PeerRemove, PeerEdit, pull
  <2>2. ASSUME NEW q \in Path
        PROVE  \/ peer'[q] = peer[q]
               \/ peer'[q].clock = Increment(peer[q].clock, Peer)
    BY <1>2 DEF PeerRemove, PeerEdit, Record, MakeTombstone, SameInv, HistoryInv,
                TypeOK, Index
  <2>3. QED BY <2>1, <2>2, SamePeerVersion
<1>3. QED BY <1>1, <1>2 DEF Remote

\* In the same environments two entries with equal clocks, ours and the
\* peer's, are one version: reconcile may keep either (reconcile).
THEOREM SameClock ==
  ASSUME CalmEnv
  PROVE  Spec => []SameClockSameVersion
<1>1. Init => SameInv
  BY SameInit
<1>2. SameInv /\ [Next]_vars => SameInv'
  <2> SUFFICES ASSUME SameInv, [Next]_vars PROVE SameInv'
    OBVIOUS
  <2>1. HistoryInv /\ HistoryInv'
    BY HistoryStep DEF SameInv
  <2>2. CASE UNCHANGED vars
    BY <2>1, <2>2, SameUnchanged DEF vars
  <2>3. QED BY <2>1, <2>2, SameUser, SameProcess, SameWatcher, SameSessions,
               SameRemote DEF Next
<1>3. SameInv => SameClockSameVersion
  BY DEF SameInv, SameClockSameVersion, Same
<1>4. QED BY <1>1, <1>2, <1>3, PTL DEF Spec
-----------------------------------------------------------------------------
(* The index describes the directory                                       *)

\* The environments where moreover nothing is edited before the watch is set
\* up, and no content changes behind the file system's back.
SeenEnv == Env \cap {"swap", "race", "early", "rot"} = {}

\* At time t the modification time of f tells whether e describes its content:
\* the shortcut of scan and scan_one never skips a file that has changed.
Stamped(e, f, t) ==
    /\ f.mtime <= t
    /\ Live(e) => (e.sum # NoSum /\ e.mtime <= t)
    /\ (Live(e) /\ Exists(f) /\ f.mtime = e.mtime) => f.sum = e.sum

\* ... of the entries in memory and in index.json, for the files in place and
\* for those that were moved away and may come back with their old times.
StampInv ==
    /\ \A p \in Path : /\ Stamped(entries[p], disk[p], now)
                       /\ Stamped(stored[p], disk[p], now)
                       /\ Live(peer[p]) => peer[p].sum # NoSum
    /\ \A p \in InDir : /\ Stamped(entries[p], aside[p], now)
                        /\ Stamped(stored[p], aside[p], now)

\* What the worker thread has put on disk is still there when it is recorded.
WrittenInv ==
    /\ phase # "up" => job = NoJob
    /\ Live(job.entry) => job.entry.sum # NoSum
    /\ job.step = "record" => Agrees(job.entry, disk[job.path])

\* An event of kind k that names p or its directory has yet to be handled.
Told(k, p) ==
    \/ <<k, p>> \in changes \cup batch
    \/ p \in InDir /\ <<k, Dir>> \in changes \cup batch

\* The event that will put the entry of p right.
Pending(p) == IF Exists(disk[p]) THEN Told("changed", p) ELSE Told("deleted", p)

Tracked(p) ==
    /\ phase = "scanned" => Agrees(entries[p], disk[p])
    /\ phase = "up" => \/ Agrees(entries[p], disk[p])
                       \/ Pending(p)
                       \/ job.step = "record" /\ job.path = p

\* What makes IndexTracksDisk inductive: where the index is wrong, the event
\* or the record that rights it is still to come.
TrackInv ==
    /\ AwayInv
    /\ StampInv
    /\ WrittenInv
    /\ \A p \in Path \ excluded : Tracked(p)

\* Time passes.
LEMMA StampedLater ==
  ASSUME NEW e \in Entry, NEW f \in File, NEW t \in Nat, NEW u \in Nat, t <= u,
         Stamped(e, f, t)
  PROVE  Stamped(e, f, u)
  BY DEF Stamped, Entry, File

\* The file goes.
LEMMA StampedAbsent ==
  ASSUME NEW e \in Entry, NEW f \in File, NEW t \in Nat, Stamped(e, f, t)
  PROVE  Stamped(e, Absent, t)
  BY DEF Stamped, Absent, Exists

\* The file is written at a time no entry has.
LEMMA StampedNew ==
  ASSUME NEW e \in Entry, NEW f \in File, NEW g \in File, NEW t \in Nat,
         Stamped(e, f, t), g.mtime = t + 1
  PROVE  Stamped(e, g, t + 1)
<1>1. Live(e) => e.mtime <= t /\ e.mtime # t + 1 /\ e.mtime <= t + 1
  BY DEF Stamped, Entry
<1>2. QED BY <1>1 DEF Stamped, File

\* A tombstone describes no content.
LEMMA StampedDead ==
  ASSUME NEW e \in Entry, NEW f \in File, NEW t \in Nat, ~Live(e), f.mtime <= t
  PROVE  Stamped(e, f, t)
  BY DEF Stamped

\* scan_one leaves an entry that describes the file it finds.
LEMMA ScanOneStamped ==
  ASSUME NEW e \in Entry, NEW f \in File, NEW n \in Node, NEW t \in Nat,
         Stamped(e, f, t)
  PROVE  /\ Stamped(ScanOne(e, f, n), f, t)
         /\ Exists(f) => Agrees(ScanOne(e, f, n), f)
         /\ ~Exists(f) => ScanOne(e, f, n) = e
  BY DEF Stamped, ScanOne, Changed, Record, Agrees, Live, Exists

\* scan leaves an entry that describes what it finds.
LEMMA ScanEntryStamped ==
  ASSUME NEW e \in Entry, NEW f \in File, NEW n \in Node, NEW t \in Nat,
         Stamped(e, f, t)
  PROVE  Stamped(ScanEntry(e, f, n), f, t) /\ Agrees(ScanEntry(e, f, n), f)
<1>1. CASE Exists(f) /\ ~Live(e)
  BY <1>1 DEF Stamped, ScanEntry, Record, Agrees, Live, Exists
<1>2. CASE Exists(f) /\ Live(e) /\ Changed(e, f)
  BY <1>2 DEF Stamped, ScanEntry, Record, Agrees, Live, Exists
<1>3. CASE Exists(f) /\ Live(e) /\ ~Changed(e, f)
  <2>1. ScanEntry(e, f, n) = e
    BY <1>3 DEF ScanEntry
  <2>2. f.sum = e.sum
    BY <1>3 DEF Stamped, Changed
  <2>3. QED BY <1>3, <2>1, <2>2 DEF Agrees
<1>4. CASE ~Exists(f) /\ Live(e)
  <2>1. ~Live(ScanEntry(e, f, n))
    BY <1>4 DEF ScanEntry, MakeTombstone, Live
  <2>2. QED BY <1>4, <2>1 DEF Stamped, Agrees, Live, Exists
<1>5. CASE ~Exists(f) /\ ~Live(e)
  <2>1. ScanEntry(e, f, n) = e
    BY <1>5 DEF ScanEntry
  <2>2. QED BY <1>5, <2>1 DEF Agrees, Live, Exists
<1>6. Live(e) \in BOOLEAN
  BY DEF Live
<1>7. QED BY <1>1, <1>2, <1>3, <1>4, <1>5

\* The entries and files the invariant compares have their types.
LEMMA StampTypes ==
  ASSUME TypeOK
  PROVE  /\ now \in Nat
         /\ \A p \in Path : /\ entries[p] \in Entry /\ stored[p] \in Entry
                            /\ peer[p] \in Entry /\ disk[p] \in File
         /\ \A p \in InDir : p \in Path /\ aside[p] \in File
  BY DataAssumption DEF TypeOK, Index

\* A step that leaves the files alone and makes no new entry of ours.
LEMMA StampUnchanged ==
  ASSUME TypeOK, TypeOK', StampInv, UNCHANGED <<disk, aside>>, now <= now',
         entries' \in {entries, stored}, stored' \in {entries, stored},
         \A p \in Path : Live(peer'[p]) => peer'[p].sum # NoSum
  PROVE  StampInv'
<1>1. ASSUME NEW p \in Path
      PROVE  /\ Stamped(entries'[p], disk'[p], now')
             /\ Stamped(stored'[p], disk'[p], now')
  <2>1. Stamped(entries'[p], disk[p], now) /\ Stamped(stored'[p], disk[p], now)
    BY DEF StampInv
  <2>2. /\ entries'[p] \in Entry /\ stored'[p] \in Entry /\ disk[p] \in File
        /\ now \in Nat /\ now' \in Nat
    BY DEF TypeOK, Index
  <2>3. QED BY <2>1, <2>2, StampedLater
<1>2. ASSUME NEW p \in InDir
      PROVE  /\ Stamped(entries'[p], aside'[p], now')
             /\ Stamped(stored'[p], aside'[p], now')
  <2>1. Stamped(entries'[p], aside[p], now) /\ Stamped(stored'[p], aside[p], now)
    BY DEF StampInv
  <2>2. /\ entries'[p] \in Entry /\ stored'[p] \in Entry /\ aside[p] \in File
        /\ now \in Nat /\ now' \in Nat
    BY DataAssumption DEF TypeOK, Index
  <2>3. QED BY <2>1, <2>2, StampedLater
<1>3. QED BY <1>1, <1>2 DEF StampInv

\* A step that moves, deletes or writes files.
LEMMA StampFiles ==
  ASSUME TypeOK, TypeOK', StampInv, UNCHANGED <<entries, stored, peer>>,
         now' \in {now, now + 1},
         \A p \in Path : \/ disk'[p] \in {disk[p], Absent}
                         \/ p \in InDir /\ disk'[p] = aside[p]
                         \/ now' = now + 1 /\ disk'[p].mtime = now + 1,
         \A p \in InDir : aside'[p] \in {aside[p], disk[p], Absent}
  PROVE  StampInv'
<1>1. now \in Nat /\ now' \in Nat /\ now <= now'
  BY DEF TypeOK
<1>2. ASSUME NEW p \in Path, NEW e \in Entry,
             Stamped(e, disk[p], now),
             p \in InDir => Stamped(e, aside[p], now)
      PROVE  /\ Stamped(e, disk'[p], now')
             /\ p \in InDir => Stamped(e, aside'[p], now')
  <2>1. disk[p] \in File /\ disk'[p] \in File
    BY DEF TypeOK
  <2>2. p \in InDir => aside[p] \in File /\ aside'[p] \in File
    BY DEF TypeOK
  <2>3. Stamped(e, disk[p], now') /\ Stamped(e, Absent, now')
    BY <1>1, <1>2, <2>1, StampedLater, StampedAbsent, AbsentType
  <2>4. p \in InDir => Stamped(e, aside[p], now')
    BY <1>1, <1>2, <2>2, StampedLater
  <2>5. (now' = now + 1 /\ disk'[p].mtime = now + 1) => Stamped(e, disk'[p], now')
    BY <1>1, <1>2, <2>1, StampedNew
  <2>6. QED BY <2>3, <2>4, <2>5
<1>3. ASSUME NEW p \in Path
      PROVE  /\ Stamped(entries[p], disk'[p], now')
             /\ Stamped(stored[p], disk'[p], now')
             /\ p \in InDir => Stamped(entries[p], aside'[p], now')
             /\ p \in InDir => Stamped(stored[p], aside'[p], now')
  BY <1>2, StampTypes DEF StampInv
<1>4. QED BY <1>3, DataAssumption DEF StampInv
\* An edit or a move gives a file a new time, or one it had.
LEMMA StampUser ==
  ASSUME SeenEnv, TypeOK, TypeOK', StampInv, User
  PROVE  StampInv'
<1>1. ASSUME NEW p \in Path, NEW s \in Content, UserWrite(p, s)
      PROVE  StampInv'
  <2>1. now' = now + 1 /\ UNCHANGED <<entries, stored, peer, aside>>
    BY <1>1 DEF UserWrite
  <2>2. \A q \in Path : disk'[q] = disk[q] \/ disk'[q].mtime = now + 1
    BY <1>1 DEF UserWrite, TypeOK
  <2>3. QED BY <2>1, <2>2, StampFiles
<1>2. ASSUME NEW p \in Path, UserDelete(p)
      PROVE  StampInv'
  <2>1. now' = now + 1 /\ UNCHANGED <<entries, stored, peer, aside>>
    BY <1>2 DEF UserDelete
  <2>2. \A q \in Path : disk'[q] \in {disk[q], Absent}
    BY <1>2 DEF UserDelete, TypeOK
  <2>3. QED BY <2>1, <2>2, StampFiles
<1>3. CASE UserMoveAway
  <2>1. now' = now + 1 /\ UNCHANGED <<entries, stored, peer>>
    BY <1>3 DEF UserMoveAway
  <2>2. /\ \A q \in Path : disk'[q] \in {disk[q], Absent}
        /\ \A q \in InDir : aside'[q] = disk[q]
    BY <1>3 DEF UserMoveAway
  <2>3. QED BY <2>1, <2>2, StampFiles
<1>4. CASE UserMoveBack
  <2>1. now' = now /\ UNCHANGED <<entries, stored, peer>>
    BY <1>4 DEF UserMoveBack
  <2>2. /\ \A q \in Path : disk'[q] = disk[q] \/ (q \in InDir /\ disk'[q] = aside[q])
        /\ \A q \in InDir : aside'[q] = Absent
    BY <1>4 DEF UserMoveBack
  <2>3. QED BY <2>1, <2>2, StampFiles
<1>5. ASSUME NEW p \in Path, NEW s \in Content, DiskRot(p, s)
      PROVE  FALSE
  BY <1>5 DEF DiskRot, SeenEnv
<1>6. QED BY <1>1, <1>2, <1>3, <1>4, <1>5 DEF User

\* A start describes what it sees; a halt forgets what was not saved.
LEMMA StampProcess ==
  ASSUME AwayInv, TypeOK', StampInv, Process
  PROVE  StampInv'
<1>1. TypeOK
  BY DEF AwayInv
<1>2. ASSUME NEW x \in SUBSET Path, Start(x)
      PROVE  StampInv'
  <2>1. /\ UNCHANGED <<now, disk, aside, peer>> /\ stored' = entries'
        /\ \A p \in Path : entries'[p] = ScanEntry(stored[p], Seen(p, x), Self)
    BY <1>2 DEF Start, user
  <2>2. ASSUME NEW p \in Path
        PROVE  /\ Stamped(entries'[p], disk[p], now)
               /\ p \in InDir => Stamped(entries'[p], aside[p], now)
    <3>1. /\ stored[p] \in Entry /\ entries'[p] \in Entry /\ disk[p] \in File
          /\ now \in Nat /\ Self \in Node
          /\ p \in InDir => aside[p] \in File /\ aside[p].mtime <= now
      BY <1>1, NodeAssumption DEF TypeOK, Index, StampInv, Stamped
    <3>2. Stamped(stored[p], disk[p], now) /\ disk[p].mtime <= now
      BY DEF StampInv, Stamped
    <3>3. Stamped(stored[p], Absent, now)
      BY <3>1, <3>2, StampedAbsent
    <3>4. CASE p \in x
      <4>1. entries'[p] = ScanEntry(stored[p], Absent, Self)
        BY <2>1, <3>4 DEF Seen
      <4>2. Agrees(entries'[p], Absent)
        BY <3>1, <3>3, <4>1, ScanEntryStamped, AbsentType
      <4>3. ~Live(entries'[p])
        BY <4>2 DEF Agrees, Exists, Absent
      <4>4. QED BY <3>1, <3>2, <4>3, StampedDead
    <3>5. CASE p \notin x
      <4>1. entries'[p] = ScanEntry(stored[p], disk[p], Self)
        BY <2>1, <3>5 DEF Seen
      <4>2. Stamped(entries'[p], disk[p], now) /\ Agrees(entries'[p], disk[p])
        BY <3>1, <3>2, <4>1, ScanEntryStamped
      <4>3. ASSUME p \in InDir PROVE Stamped(entries'[p], aside[p], now)
        <5>1. CASE away
          <6>1. ~Live(entries'[p])
            BY <4>2, <4>3, <5>1 DEF Agrees, AwayInv
          <6>2. QED BY <3>1, <4>3, <6>1, StampedDead
        <5>2. CASE ~away
          BY <3>1, <4>2, <4>3, <5>2, StampedAbsent DEF AwayInv
        <5>3. QED BY <5>1, <5>2
      <4>4. QED BY <4>2, <4>3
    <3>6. QED BY <3>4, <3>5
  <2>3. QED BY <2>1, <2>2, DataAssumption DEF StampInv
<1>3. CASE WatchStart
  <2>1. UNCHANGED <<now, disk, aside, entries, stored, peer>>
    BY <1>3 DEF WatchStart, user
  <2>2. QED BY <1>1, <2>1, StampTypes, StampUnchanged DEF StampInv
<1>4. CASE Halt
  <2>1. UNCHANGED <<disk, aside, stored, peer>> /\ entries' = stored /\ now' = now + 1
    BY <1>4 DEF Halt
  <2>2. now <= now'
    BY <1>1, <2>1 DEF TypeOK
  <2>3. QED BY <1>1, <2>1, <2>2, StampUnchanged DEF StampInv
<1>5. QED BY <1>2, <1>3, <1>4 DEF Process

\* The watch loop describes what it finds.
LEMMA StampWatcher ==
  ASSUME AwayInv, TypeOK', StampInv, Watcher
  PROVE  StampInv'
<1>1. TypeOK /\ now <= now
  BY DEF AwayInv, TypeOK
<1>2. ASSUME TakeBatch \/ WatchSave \/ \E p \in Path : Verify(p)
      PROVE  StampInv'
  <2>1. UNCHANGED <<now, disk, aside, entries, peer>> /\ stored' \in {entries, stored}
    BY <1>2 DEF TakeBatch, WatchSave, Verify, user
  <2>2. QED BY <1>1, <2>1, StampUnchanged DEF StampInv
<1>3. ASSUME NEW c \in Change, HandleChange(c)
      PROVE  StampInv'
  <2>1. UNCHANGED <<now, disk, aside, stored, peer>>
    BY <1>3 DEF HandleChange, user
  <2>2. ASSUME NEW p \in Path
        PROVE  /\ Stamped(entries'[p], disk[p], now)
               /\ p \in InDir => Stamped(entries'[p], aside[p], now)
    <3>1. /\ entries[p] \in Entry /\ entries'[p] \in Entry /\ disk[p] \in File
          /\ now \in Nat /\ Self \in Node
          /\ p \in InDir => aside[p] \in File /\ aside[p].mtime <= now
      BY <1>1, NodeAssumption DEF TypeOK, Index, StampInv, Stamped
    <3>2. /\ Stamped(entries[p], disk[p], now) /\ disk[p].mtime <= now
          /\ p \in InDir => Stamped(entries[p], aside[p], now)
      BY DEF StampInv, Stamped
    <3>3. \/ entries'[p] = entries[p]
          \/ ~Live(entries'[p])
          \/ entries'[p] = ScanOne(entries[p], disk[p], Self)
      <4>1. \/ entries'[p] = entries[p]
            \/ entries'[p] = ScanOne(entries[p], disk[p], Self)
            \/ entries'[p] = MarkDeleted(entries[p], disk[p], Self)
            \/ entries'[p] = MarkDirDeleted(entries[p], Self)
        BY <1>3, HandledEntry
      <4>2. QED BY <4>1 DEF MarkDeleted, MarkDirDeleted, MakeTombstone, Live
    <3>4. CASE entries'[p] = entries[p]
      BY <3>2, <3>4
    <3>5. CASE ~Live(entries'[p])
      BY <3>1, <3>2, <3>5, StampedDead
    <3>6. CASE entries'[p] = ScanOne(entries[p], disk[p], Self)
      <4>1. /\ Stamped(entries'[p], disk[p], now)
            /\ ~Exists(disk[p]) => entries'[p] = entries[p]
        BY <3>1, <3>2, <3>6, ScanOneStamped
      <4>2. ASSUME p \in InDir PROVE Stamped(entries'[p], aside[p], now)
        <5>1. CASE away
          BY <3>2, <4>1, <4>2, <5>1 DEF AwayInv
        <5>2. CASE ~away
          BY <3>1, <4>1, <4>2, <5>2, StampedAbsent DEF AwayInv
        <5>3. QED BY <5>1, <5>2
      <4>3. QED BY <4>1, <4>2
    <3>7. QED BY <3>3, <3>4, <3>5, <3>6
  <2>3. QED BY <2>1, <2>2, DataAssumption DEF StampInv
<1>4. QED BY <1>2, <1>3 DEF Watcher

\* A file that is applied gets a new time, which its entry records.
LEMMA StampSessions ==
  ASSUME AwayInv, TypeOK', StampInv, WrittenInv, Sessions
  PROVE  StampInv'
<1>1. TypeOK /\ now <= now /\ now <= now + 1
  BY DEF AwayInv, TypeOK
<1>2. ASSUME \/ BeginSession \/ EndSession \/ LoseSession
             \/ \E p \in Path : Pull(p) \/ TakePush(p) \/ TakeDeletion(p)
      PROVE  StampInv'
  <2>1. /\ UNCHANGED <<disk, aside, entries, peer>> /\ now' \in {now, now + 1}
        /\ stored' \in {entries, stored}
    BY <1>2 DEF BeginSession, EndSession, LoseSession, Pull, TakePush, TakeDeletion,
                user
  <2>2. QED BY <1>1, <2>1, StampUnchanged DEF StampInv
<1>3. CASE ApplyWrite
  <2>1. job \in Jobs /\ job.path \in Path /\ job.entry \in Entry
    BY <1>1, <1>3, JobType DEF ApplyWrite, NoJob
  <2>2. /\ now' = now + 1 /\ UNCHANGED <<aside, entries, stored, peer>>
        /\ disk' = [disk EXCEPT ![job.path] = WriteRemote(job.entry, now + 1)]
    BY <1>3 DEF ApplyWrite
  <2>3. ASSUME NEW q \in Path
        PROVE  disk'[q] \in {disk[q], Absent} \/ disk'[q].mtime = now + 1
    BY <1>1, <2>1, <2>2 DEF TypeOK, WriteRemote
  <2>4. QED BY <1>1, <2>2, <2>3, StampFiles
<1>4. CASE ApplyRecord
  <2>1. /\ job # NoJob /\ job.path \in Path /\ job.entry \in Entry
        /\ Agrees(job.entry, disk[job.path])
    BY <1>1, <1>4, JobType DEF ApplyRecord, NoJob, WrittenInv
  <2>2. UNCHANGED <<now, disk, aside, stored, peer>>
    BY <1>4 DEF ApplyRecord, user
  <2>3. ASSUME NEW p \in Path
        PROVE  /\ Stamped(entries'[p], disk[p], now)
               /\ p \in InDir => Stamped(entries'[p], aside[p], now)
    <3>1. /\ entries'[p] \in Entry /\ disk[p] \in File /\ now \in Nat
          /\ p \in InDir => aside[p] \in File /\ aside[p].mtime <= now
      BY <1>1 DEF TypeOK, Index, StampInv, Stamped
    <3>2. /\ Stamped(entries[p], disk[p], now) /\ disk[p].mtime <= now
          /\ p \in InDir => Stamped(entries[p], aside[p], now)
      BY DEF StampInv, Stamped
    <3>3. CASE p # job.path
      <4>1. entries'[p] = entries[p]
        BY <1>1, <1>4, <3>3 DEF ApplyRecord, TypeOK, Index
      <4>2. QED BY <3>2, <4>1
    <3>4. CASE p = job.path /\ Live(job.entry)
      <4>1. entries'[p] = [job.entry EXCEPT !.mtime = disk[p].mtime]
        BY <1>1, <1>4, <2>1, <3>4 DEF ApplyRecord, RecordRemote, Agrees, TypeOK, Index
      <4>2. entries'[p].mtime = disk[p].mtime /\ entries'[p].sum = disk[p].sum
        BY <2>1, <3>4, <4>1 DEF Agrees, Entry
      <4>3. Exists(disk[p])
        BY <2>1, <3>4 DEF Agrees
      <4>4. Stamped(entries'[p], disk[p], now)
        BY <3>2, <4>2, <4>3 DEF Stamped, Exists
      <4>5. p \in InDir => aside[p] = Absent
        BY <2>1, <3>4 DEF AwayInv
      <4>6. QED BY <3>1, <4>4, <4>5, StampedAbsent
    <3>5. CASE p = job.path /\ ~Live(job.entry)
      <4>1. entries'[p] = job.entry
        BY <1>1, <1>4, <3>5 DEF ApplyRecord, RecordRemote, TypeOK, Index
      <4>2. QED BY <3>1, <3>2, <3>5, <4>1, StampedDead
    <3>6. QED BY <3>3, <3>4, <3>5
  <2>4. QED BY <2>2, <2>3, DataAssumption DEF StampInv
<1>5. QED BY <1>2, <1>3, <1>4 DEF Sessions

\* What the peer holds live has a content.
LEMMA StampRemote ==
  ASSUME TypeOK, TypeOK', StampInv, Remote
  PROVE  StampInv'
<1>1. /\ UNCHANGED <<disk, aside, entries, stored>> /\ now' \in {now, now + 1}
  BY DEF Remote, PeerLearn, PeerEdit, PeerRemove, user
<1>2. ASSUME NEW q \in Path, Live(peer'[q])
      PROVE  peer'[q].sum # NoSum
  <2>1. \/ peer'[q] \in {peer[q], entries[q]}
        \/ peer'[q].sum \in Content
        \/ ~Live(peer'[q])
    BY DEF Remote, PeerLearn, PeerEdit, PeerRemove, Record, MakeTombstone, Live,
           TypeOK, Index
  <2>2. QED BY <1>2, <2>1, DataAssumption DEF StampInv, Stamped
<1>3. now <= now'
  BY <1>1 DEF TypeOK
<1>4. QED BY <1>1, <1>2, <1>3, StampUnchanged
\* A step that leaves the worker thread and the file it writes alone.
LEMMA WrittenUnchanged ==
  ASSUME TypeOK, WrittenInv,
         \/ job' = NoJob
         \/ /\ job' = job /\ phase' = phase
            /\ job # NoJob => disk'[job.path] = disk[job.path]
  PROVE  WrittenInv'
<1>1. NoJob.step # "record" /\ ~Live(NoJob.entry)
  BY DEF NoJob, NoEntry, Live
<1>2. CASE job' = NoJob
  BY <1>1, <1>2 DEF WrittenInv
<1>3. CASE job' = job /\ job = NoJob /\ phase' = phase
  BY <1>1, <1>3 DEF WrittenInv
<1>4. CASE job' = job /\ phase' = phase /\ disk'[job.path] = disk[job.path]
  BY <1>4 DEF WrittenInv
<1>5. QED BY <1>2, <1>3, <1>4

\* No edit reaches a file that is being applied.
LEMMA WrittenUser ==
  ASSUME SeenEnv, AwayInv, WrittenInv, User
  PROVE  WrittenInv'
<1>1. TypeOK /\ UNCHANGED <<job, phase>>
  BY DEF AwayInv, User, UserWrite, DiskRot, UserDelete, UserMoveAway, UserMoveBack,
         pull
<1>2. ASSUME job # NoJob PROVE disk'[job.path] = disk[job.path]
  <2>1. PICK q \in Path : q = job.path
    BY <1>1, <1>2, JobType
  <2>2. ASSUME NEW p \in Path, NEW s \in Content, UserWrite(p, s) \/ DiskRot(p, s)
        PROVE  disk'[q] = disk[q]
    BY <1>1, <2>1, <2>2 DEF UserWrite, DiskRot, MayEdit, SeenEnv, TypeOK
  <2>3. ASSUME NEW p \in Path, UserDelete(p) PROVE disk'[q] = disk[q]
    BY <1>1, <2>1, <2>3 DEF UserDelete, MayEdit, SeenEnv, TypeOK
  <2>4. ASSUME UserMoveAway PROVE disk'[q] = disk[q]
    BY <2>1, <2>4 DEF UserMoveAway, MayEdit, SeenEnv
  <2>5. ASSUME UserMoveBack PROVE disk'[q] = disk[q]
    BY <1>2, <2>1, <2>5 DEF UserMoveBack, AwayInv
  <2>6. QED BY <2>1, <2>2, <2>3, <2>4, <2>5 DEF User
<1>3. QED BY <1>1, <1>2, WrittenUnchanged

\* The worker thread is given a version with a content, and writes it.
LEMMA WrittenSessions ==
  ASSUME TypeOK, StampInv, WrittenInv, Sessions
  PROVE  WrittenInv'
<1>1. ASSUME BeginSession \/ EndSession \/ LoseSession
      PROVE  WrittenInv'
  <2>1. UNCHANGED <<job, phase, disk>>
    BY <1>1 DEF BeginSession, EndSession, LoseSession, user
  <2>2. QED BY <2>1, WrittenUnchanged
<1>2. ASSUME NEW p \in Path, Pull(p) \/ TakePush(p) \/ TakeDeletion(p)
      PROVE  WrittenInv'
  <2>1. phase' = "up" /\ job'.entry = peer[p] /\ job'.step = "write"
    BY <1>2 DEF Pull, TakePush, TakeDeletion, LoopFree, Apply
  <2>2. QED BY <2>1 DEF WrittenInv, StampInv
<1>3. CASE ApplyWrite
  <2>1. job # NoJob
    BY <1>3 DEF ApplyWrite, NoJob
  <2>2. job \in Jobs /\ job.path \in Path /\ job.entry \in Entry
    BY <2>1, JobType
  <2>3. /\ phase' = "up" /\ job'.entry = job.entry /\ job'.path = job.path
        /\ disk'[job.path] = WriteRemote(job.entry, now + 1)
    BY <1>3, <2>1, <2>2 DEF ApplyWrite, WrittenInv, Jobs, TypeOK
  <2>4. Agrees(job.entry, WriteRemote(job.entry, now + 1))
    BY <2>2 DEF Agrees, WriteRemote, WrittenInv, Live, Exists, Absent, Entry
  <2>5. QED BY <2>3, <2>4 DEF WrittenInv
<1>4. CASE ApplyRecord
  BY <1>4, WrittenUnchanged DEF ApplyRecord
<1>5. QED BY <1>1, <1>2, <1>3, <1>4 DEF Sessions

\* No step breaks what the worker thread relies on.
LEMMA WrittenStep ==
  ASSUME SeenEnv, AwayInv, StampInv, WrittenInv, [Next]_vars
  PROVE  WrittenInv'
<1>1. TypeOK
  BY DEF AwayInv
<1>2. ASSUME Process PROVE WrittenInv'
  <2>1. ASSUME NEW x \in SUBSET Path, Start(x) PROVE job' = NoJob
    BY <2>1 DEF Start, WrittenInv, pull
  <2>2. ASSUME WatchStart PROVE job' = NoJob
    BY <2>2 DEF WatchStart, WrittenInv, pull
  <2>3. job' = NoJob
    BY <1>2, <2>1, <2>2 DEF Process, Halt
  <2>4. QED BY <1>1, <2>3, WrittenUnchanged
<1>3. ASSUME Watcher \/ Remote \/ UNCHANGED vars PROVE WrittenInv'
  <2>1. UNCHANGED <<job, phase, disk>>
    BY <1>3 DEF Watcher, TakeBatch, HandleChange, WatchSave, Verify, Remote,
                PeerLearn, PeerEdit, PeerRemove, user, pull, vars
  <2>2. QED BY <1>1, <2>1, WrittenUnchanged
<1>4. QED BY <1>1, <1>2, <1>3, WrittenUser, WrittenSessions DEF Next

\* What makes the entry of a path agree stays until its event is handled.
LEMMA TrackedKept ==
  ASSUME NEW p \in Path, Tracked(p), entries'[p] = entries[p],
         changes \cup batch \subseteq changes' \cup batch',
         job' = job \/ job.step # "record",
         phase' = "scanned" => phase = "scanned",
         phase' = "up" => phase \in {"scanned", "up"},
         \/ disk'[p].sum = disk[p].sum
         \/ /\ phase' # "scanned"
            /\ phase' = "up" => \/ Pending(p)'
                                \/ job'.step = "record" /\ job'.path = p
  PROVE  Tracked(p)'
<1>1. CASE disk'[p].sum = disk[p].sum
  <2>1. Exists(disk'[p]) = Exists(disk[p])
    BY <1>1 DEF Exists
  <2>2. Agrees(entries[p], disk[p]) => Agrees(entries'[p], disk'[p])
    BY <1>1, <2>1 DEF Agrees
  <2>3. Pending(p) => Pending(p)'
    BY <2>1 DEF Pending, Told
  <2>4. QED BY <2>2, <2>3 DEF Tracked
<1>2. CASE /\ phase' # "scanned"
           /\ phase' = "up" => \/ Pending(p)'
                               \/ job'.step = "record" /\ job'.path = p
  BY <1>2 DEF Tracked
<1>3. QED BY <1>1, <1>2
\* Every edit is an event, or is made before the watch is set up and scanned.
LEMMA TrackedUser ==
  ASSUME SeenEnv, TrackInv, User, NEW p \in Path \ excluded
  PROVE  Tracked(p)'
<1>1. /\ Tracked(p) /\ p \in Path /\ TypeOK
      /\ UNCHANGED <<entries, job, phase, excluded, batch>>
  <2>1. Tracked(p) /\ p \in Path /\ TypeOK
    BY DEF TrackInv, AwayInv
  <2>2. UNCHANGED <<entries, job, phase, excluded, batch>>
    BY DEF User, UserWrite, DiskRot, UserDelete, UserMoveAway, UserMoveBack, pull,
           watch
  <2>3. QED BY <2>1, <2>2
<1>2. changes \subseteq changes'
  BY DEF User, UserWrite, DiskRot, UserDelete, UserMoveAway, UserMoveBack, Notify,
         watch
<1>3. ASSUME NEW q \in Path, NEW s \in Content, UserWrite(q, s)
      PROVE  Tracked(p)'
  <2>1. CASE q # p
    <3>1. disk'[p].sum = disk[p].sum
      BY <1>1, <1>3, <2>1 DEF UserWrite, TypeOK
    <3>2. QED BY <1>1, <1>2, <3>1, TrackedKept
  <2>2. CASE q = p
    <3>1. phase' # "scanned"
      BY <1>1, <1>3 DEF UserWrite, MayEdit, SeenEnv
    <3>2. Exists(disk'[p])
      BY <1>1, <1>3, <2>2, DataAssumption DEF UserWrite, TypeOK, Exists
    <3>3. phase' = "up" => Pending(p)'
      BY <1>1, <1>3, <2>2, <3>2 DEF UserWrite, Notify, Pending, Told
    <3>4. QED BY <1>1, <1>2, <3>1, <3>3, TrackedKept
  <2>3. QED BY <2>1, <2>2
<1>4. ASSUME NEW q \in Path, UserDelete(q)
      PROVE  Tracked(p)'
  <2>1. CASE q # p
    <3>1. disk'[p].sum = disk[p].sum
      BY <1>1, <1>4, <2>1 DEF UserDelete, TypeOK
    <3>2. QED BY <1>1, <1>2, <3>1, TrackedKept
  <2>2. CASE q = p
    <3>1. phase' # "scanned"
      BY <1>1, <1>4 DEF UserDelete, MayEdit, SeenEnv
    <3>2. ~Exists(disk'[p])
      BY <1>1, <1>4, <2>2 DEF UserDelete, TypeOK, Exists, Absent
    <3>3. phase' = "up" => Pending(p)'
      BY <1>1, <1>4, <2>2, <3>2 DEF UserDelete, Notify, Pending, Told
    <3>4. QED BY <1>1, <1>2, <3>1, <3>3, TrackedKept
  <2>3. QED BY <2>1, <2>2
<1>5. CASE UserMoveAway
  <2>1. CASE p \notin InDir
    <3>1. disk'[p].sum = disk[p].sum
      BY <1>1, <1>5, <2>1 DEF UserMoveAway
    <3>2. QED BY <1>1, <1>2, <3>1, TrackedKept
  <2>2. CASE p \in InDir
    <3>1. phase' # "scanned"
      BY <1>1, <1>5, <2>2 DEF UserMoveAway, MayEdit, SeenEnv
    <3>2. ~Exists(disk'[p])
      BY <1>1, <1>5, <2>2 DEF UserMoveAway, Exists, Absent
    <3>3. phase' = "up" => Pending(p)'
      BY <1>1, <1>5, <2>2, <3>2 DEF UserMoveAway, Notify, Pending, Told
    <3>4. QED BY <1>1, <1>2, <3>1, <3>3, TrackedKept
  <2>3. QED BY <2>1, <2>2
<1>6. CASE UserMoveBack
  <2>1. CASE p \notin InDir
    <3>1. disk'[p].sum = disk[p].sum
      BY <1>1, <1>6, <2>1 DEF UserMoveBack
    <3>2. QED BY <1>1, <1>2, <3>1, TrackedKept
  <2>2. CASE p \in InDir /\ ~Exists(aside[p])
    <3>1. ~Exists(disk[p])
      BY <1>6, <2>2 DEF UserMoveBack, TrackInv, AwayInv
    <3>2. disk'[p] = aside[p]
      BY <1>1, <1>6, <2>2 DEF UserMoveBack
    <3>3. disk'[p].sum = disk[p].sum
      BY <2>2, <3>1, <3>2 DEF Exists
    <3>4. QED BY <1>1, <1>2, <3>3, TrackedKept
  <2>3. CASE p \in InDir /\ Exists(aside[p])
    <3>1. phase' # "scanned"
      BY <1>1, <1>6 DEF UserMoveBack, SeenEnv
    <3>2. Exists(disk'[p])
      BY <1>1, <1>6, <2>3 DEF UserMoveBack
    <3>3. phase' = "up" => Pending(p)'
      BY <1>1, <1>6, <2>3, <3>2 DEF UserMoveBack, Notify, Pending, Told
    <3>4. QED BY <1>1, <1>2, <3>1, <3>3, TrackedKept
  <2>4. QED BY <2>1, <2>2, <2>3
<1>7. ASSUME NEW q \in Path, NEW s \in Content, DiskRot(q, s)
      PROVE  FALSE
  BY <1>7 DEF DiskRot, SeenEnv
<1>8. QED BY <1>3, <1>4, <1>5, <1>6, <1>7 DEF User

\* The start puts every entry right, and nothing is edited until the watch is.
LEMMA TrackedProcess ==
  ASSUME TrackInv, Process, NEW p \in Path \ excluded'
  PROVE  Tracked(p)'
<1>1. TypeOK
  BY DEF TrackInv, AwayInv
<1>2. ASSUME NEW x \in SUBSET Path, Start(x)
      PROVE  Tracked(p)'
  <2>1. /\ phase' = "scanned" /\ disk'[p] = disk[p]
        /\ entries'[p] = ScanEntry(stored[p], disk[p], Self)
    BY <1>2 DEF Start, Seen, user
  <2>2. /\ stored[p] \in Entry /\ disk[p] \in File /\ now \in Nat /\ Self \in Node
        /\ Stamped(stored[p], disk[p], now)
    BY <1>1, NodeAssumption DEF TypeOK, Index, TrackInv, StampInv
  <2>3. Agrees(entries'[p], disk'[p])
    BY <2>1, <2>2, ScanEntryStamped
  <2>4. QED BY <2>1, <2>3 DEF Tracked
<1>3. CASE WatchStart
  <2>1. /\ phase = "scanned" /\ phase' = "up"
        /\ UNCHANGED <<excluded, entries, disk, changes, batch, job>>
    BY <1>3 DEF WatchStart, user, watch, pull
  <2>2. QED BY <2>1, TrackedKept DEF TrackInv
<1>4. CASE Halt
  BY <1>4 DEF Halt, Tracked
<1>5. QED BY <1>2, <1>3, <1>4 DEF Process

\* The event that is handled puts the entry right, unless another one will.
LEMMA TrackedHandle ==
  ASSUME TrackInv, NEW c \in Change, HandleChange(c), NEW p \in Path \ excluded
  PROVE  Tracked(p)'
<1>1. /\ TypeOK /\ Stamped(entries[p], disk[p], now) /\ Tracked(p) /\ phase = "up"
      /\ UNCHANGED <<disk, job, phase, changes>> /\ batch' = batch \ {c} /\ c \in batch
  BY DEF TrackInv, AwayInv, StampInv, HandleChange, user, pull
<1>2. /\ entries[p] \in Entry /\ disk[p] \in File /\ now \in Nat /\ Self \in Node
      /\ p # Dir
  BY <1>1, NodeAssumption, DataAssumption DEF TypeOK, Index
<1>3. ASSUME c = <<"changed", p>> \/ (c = <<"changed", Dir>> /\ p \in InDir /\ ~away),
             Exists(disk[p])
      PROVE  Agrees(entries'[p], disk[p])
  <2>1. entries'[p] = ScanOne(entries[p], disk[p], Self)
    BY <1>2, <1>3 DEF HandleChange, Handled, ScanOneAt
  <2>2. QED BY <1>1, <1>2, <1>3, <2>1, ScanOneStamped
<1>4. ASSUME c = <<"deleted", p>> \/ (c = <<"deleted", Dir>> /\ p \in InDir),
             ~Exists(disk[p])
      PROVE  Agrees(entries'[p], disk[p])
  <2>1. \/ entries'[p] = MarkDeleted(entries[p], disk[p], Self)
        \/ entries'[p] = MarkDirDeleted(entries[p], Self)
    BY <1>2, <1>4 DEF HandleChange, Handled
  <2>2. ~Live(entries'[p])
    BY <1>4, <2>1 DEF MarkDeleted, MarkDirDeleted, MakeTombstone, Live
  <2>3. QED BY <1>4, <2>2 DEF Agrees, Live, Exists
<1>5. ASSUME Exists(disk[p]),
             ~(c = <<"changed", p>> \/ (c = <<"changed", Dir>> /\ p \in InDir /\ ~away))
      PROVE  entries'[p] = entries[p]
  <2>1. ~(c = <<"deleted", Dir>> /\ p \in InDir)
    BY <1>1, <1>5 DEF TrackInv, AwayInv
  <2>2. MarkDeleted(entries[p], disk[p], Self) = entries[p]
    BY <1>5 DEF MarkDeleted
  <2>3. QED BY <1>5, <2>1, <2>2, HandledEntry
<1>6. ASSUME ~Exists(disk[p]),
             ~(c = <<"deleted", p>> \/ (c = <<"deleted", Dir>> /\ p \in InDir))
      PROVE  entries'[p] = entries[p]
  <2>1. ScanOne(entries[p], disk[p], Self) = entries[p]
    BY <1>6 DEF ScanOne
  <2>2. QED BY <1>6, <2>1, HandledEntry
<1>7. CASE Exists(disk[p])
  <2>1. CASE c = <<"changed", p>> \/ (c = <<"changed", Dir>> /\ p \in InDir /\ ~away)
    BY <1>1, <1>3, <1>7, <2>1 DEF Tracked
  <2>2. CASE ~(c = <<"changed", p>> \/ (c = <<"changed", Dir>> /\ p \in InDir /\ ~away))
    <3>1. p \in InDir => ~away
      BY <1>7 DEF TrackInv, AwayInv
    <3>2. Told("changed", p) => Told("changed", p)'
      BY <1>1, <2>2, <3>1 DEF Told
    <3>3. entries'[p] = entries[p]
      BY <1>5, <1>7, <2>2
    <3>4. QED BY <1>1, <1>7, <3>2, <3>3 DEF Tracked, Pending
  <2>3. QED BY <2>1, <2>2
<1>8. CASE ~Exists(disk[p])
  <2>1. CASE c = <<"deleted", p>> \/ (c = <<"deleted", Dir>> /\ p \in InDir)
    BY <1>1, <1>4, <1>8, <2>1 DEF Tracked
  <2>2. CASE ~(c = <<"deleted", p>> \/ (c = <<"deleted", Dir>> /\ p \in InDir))
    <3>1. Told("deleted", p) => Told("deleted", p)'
      BY <1>1, <2>2 DEF Told
    <3>2. entries'[p] = entries[p]
      BY <1>6, <1>8, <2>2
    <3>3. QED BY <1>1, <1>8, <3>1, <3>2 DEF Tracked, Pending
  <2>3. QED BY <2>1, <2>2
<1>9. QED BY <1>7, <1>8
\* An applied file is an event, and its record puts the entry right.
LEMMA TrackedSessions ==
  ASSUME TrackInv, Sessions, NEW p \in Path \ excluded
  PROVE  Tracked(p)'
<1>1. TypeOK /\ Tracked(p) /\ p \in Path
  BY DEF TrackInv, AwayInv
<1>2. ASSUME \/ BeginSession \/ EndSession \/ LoseSession
             \/ \E q \in Path : Pull(q) \/ TakePush(q) \/ TakeDeletion(q)
      PROVE  Tracked(p)'
  <2>1. /\ UNCHANGED <<disk, entries, phase, changes, batch>> /\ phase = "up"
        /\ job' = job \/ job = NoJob
    BY <1>2 DEF BeginSession, EndSession, LoseSession, Pull, TakePush, TakeDeletion,
                LoopFree, user, watch
  <2>2. job' = job \/ job.step # "record"
    BY <2>1 DEF NoJob
  <2>3. QED BY <1>1, <2>1, <2>2, TrackedKept
<1>3. CASE ApplyWrite
  <2>1. job # NoJob /\ job.step # "record"
    BY <1>3 DEF ApplyWrite, NoJob
  <2>2. job \in Jobs /\ job.path \in Path
    BY <1>1, <2>1, JobType
  <2>3. /\ phase = "up" /\ UNCHANGED <<entries, phase, batch>>
        /\ changes \subseteq changes'
    BY <1>3, <2>1 DEF ApplyWrite, Notify, TrackInv, WrittenInv
  <2>4. CASE job.path # p
    <3>1. disk'[p].sum = disk[p].sum
      BY <1>1, <1>3, <2>4 DEF ApplyWrite, TypeOK
    <3>2. QED BY <1>1, <2>1, <2>3, <3>1, TrackedKept
  <2>5. CASE job.path = p
    <3>1. job'.step = "record" /\ job'.path = p
      BY <1>3, <2>2, <2>5 DEF ApplyWrite, Jobs
    <3>2. QED BY <2>3, <3>1 DEF Tracked
  <2>6. QED BY <2>4, <2>5
<1>4. CASE ApplyRecord
  <2>1. /\ job # NoJob /\ job.path \in Path /\ job.entry \in Entry /\ phase = "up"
        /\ Agrees(job.entry, disk[job.path])
    BY <1>1, <1>4, JobType DEF ApplyRecord, NoJob, TrackInv, WrittenInv
  <2>2. UNCHANGED <<disk, phase, changes, batch>>
    BY <1>4 DEF ApplyRecord, user, watch
  <2>3. CASE job.path # p
    <3>1. entries'[p] = entries[p]
      BY <1>1, <1>4, <2>3 DEF ApplyRecord, TypeOK, Index
    <3>2. Pending(p) => Pending(p)'
      BY <2>2 DEF Pending, Told
    <3>3. QED BY <1>1, <2>1, <2>2, <2>3, <3>1, <3>2 DEF Tracked
  <2>4. CASE job.path = p
    <3>1. entries'[p] = RecordRemote(job.entry, disk[p])
      BY <1>1, <1>4, <2>4 DEF ApplyRecord, TypeOK, Index
    <3>2. /\ RecordRemote(job.entry, disk[p]).deleted = job.entry.deleted
          /\ RecordRemote(job.entry, disk[p]).sum = job.entry.sum
      BY <2>1 DEF RecordRemote, Entry
    <3>3. Agrees(entries'[p], disk'[p])
      BY <2>1, <2>2, <2>4, <3>1, <3>2 DEF Agrees, Live
    <3>4. QED BY <2>1, <2>2, <3>3 DEF Tracked
  <2>5. QED BY <2>3, <2>4
<1>5. QED BY <1>2, <1>3, <1>4 DEF Sessions

\* No step leaves an entry wrong for good.
LEMMA TrackStep ==
  ASSUME SeenEnv, TrackInv, [Next]_vars
  PROVE  TrackInv'
<1>1. AwayInv' /\ TypeOK /\ TypeOK'
  BY AwayStep DEF SeenEnv, OrderlyEnv, TrackInv, AwayInv
<1>2. WrittenInv'
  BY WrittenStep DEF TrackInv
<1>3. StampInv'
  <2>1. ASSUME UNCHANGED vars PROVE StampInv'
    BY <2>1 DEF StampInv, TrackInv, vars
  <2>2. QED BY <1>1, <2>1, StampUser, StampProcess, StampWatcher, StampSessions,
               StampRemote DEF Next, TrackInv
<1>4. ASSUME NEW p \in Path \ excluded' PROVE Tracked(p)'
  <2>1. CASE Process
    BY <2>1, TrackedProcess
  <2>2. ASSUME excluded' = excluded, User \/ Sessions
        PROVE  Tracked(p)'
    BY <1>4, <2>2, TrackedUser, TrackedSessions
  <2>3. ASSUME excluded' = excluded, NEW c \in Change, HandleChange(c)
        PROVE  Tracked(p)'
    BY <1>4, <2>3, TrackedHandle
  <2>4. ASSUME \/ TakeBatch \/ WatchSave \/ \E q \in Path : Verify(q)
               \/ Remote \/ UNCHANGED vars
        PROVE  Tracked(p)'
    <3>1. /\ UNCHANGED <<disk, entries, phase, job, excluded>>
          /\ changes \cup batch = changes' \cup batch'
      BY <2>4 DEF TakeBatch, WatchSave, Verify, Remote, PeerLearn, PeerEdit,
                  PeerRemove, LoopFree, user, watch, pull, vars
    <3>2. Pending(p) => Pending(p)'
      BY <3>1 DEF Pending, Told
    <3>3. QED BY <1>4, <3>1, <3>2 DEF Tracked, TrackInv
  <2>5. ASSUME User \/ Sessions \/ \E c \in Change : HandleChange(c)
        PROVE  excluded' = excluded
    BY <2>5 DEF User, UserWrite, DiskRot, UserDelete, UserMoveAway, UserMoveBack,
                Sessions, BeginSession, EndSession, LoseSession, Pull, TakePush,
                TakeDeletion, ApplyWrite, ApplyRecord, HandleChange
  <2>6. QED BY <2>1, <2>2, <2>3, <2>4, <2>5 DEF Next, Watcher
<1>5. QED BY <1>1, <1>2, <1>3, <1>4 DEF TrackInv

\* With nothing on disk, nothing is missing from the index.
LEMMA TrackInit == Init => TrackInv
<1> SUFFICES ASSUME Init PROVE TrackInv
  OBVIOUS
<1>1. \A p \in Path : Stamped(NoEntry, Absent, 0)
  BY DEF Stamped, NoEntry, Absent, Live
<1>2. StampInv
  BY <1>1, DataAssumption DEF Init, StampInv, EmptyIndex, NoEntry, Live
<1>3. WrittenInv
  BY DEF Init, WrittenInv, NoJob, NoEntry, Live
<1>4. \A p \in Path : Tracked(p)
  BY DEF Init, Tracked
<1>5. QED BY <1>2, <1>3, <1>4, AwayInit DEF TrackInv

\* When every edit is seen by the scan or by the watch, the idle index says
\* what is on disk, whatever restarts, applied files and moves there were
\* (scan, _watch_loop, apply_remote).
THEOREM IndexTracks ==
  ASSUME SeenEnv
  PROVE  Spec => []IndexTracksDisk
<1>1. Init => TrackInv
  BY TrackInit
<1>2. TrackInv /\ [Next]_vars => TrackInv'
  BY TrackStep
<1>3. TrackInv => IndexTracksDisk
  BY DEF TrackInv, IndexTracksDisk, Settled, Tracked, Pending, Told, NoJob
<1>4. QED BY <1>1, <1>2, <1>3, PTL DEF Spec
=============================================================================
