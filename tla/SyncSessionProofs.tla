------------------------- MODULE SyncSessionProofs -------------------------
(***************************************************************************)
(* What holds of SyncSession.  Its types, for every set of nodes, links    *)
(* and paths, both strategies, every environment and every bound.  For two *)
(* nodes whose sessions do not cross (Orderly, below) equal clocks are one *)
(* version and no version makes way for an older one.  For any number of   *)
(* nodes whose sessions nobody interrupts (Calm) an index entry names the  *)
(* content on disk and the two ends of a connection never wait for each    *)
(* other.                                                                  *)
(***************************************************************************)
EXTENDS SyncSession, SyncEngineProofs, SequenceTheorems

-----------------------------------------------------------------------------
(* Types of what is sent and applied                                       *)

\* A modification time is a number.
LEMMA StampType ==
  ASSUME NEW t \in Nat, NEW c \in Nat
  PROVE  Stamp(t, c) \in Nat
<1>1. MaxTime + 1 \in Nat
  BY ModeAssumption
<1>2. t * (MaxTime + 1) \in Nat
  BY <1>1
<1>3. QED BY <1>2 DEF Stamp

\* A message goes to the end of a connection.
LEMMA SendType ==
  ASSUME NEW ch \in [Link -> Seq(Message)], NEW k \in Link, NEW m \in Message
  PROVE  Send(ch, k, m) \in [Link -> Seq(Message)]
<1>1. Append(ch[k], m) \in Seq(Message)
  BY AppendProperties
<1>2. QED BY <1>1 DEF Send

\* A message that has come is one, and is taken from the beginning.
LEMMA GotType ==
  ASSUME NEW ch \in [Link -> Seq(Message)], NEW k \in Link, ch[k] # <<>>
  PROVE  /\ Head(ch[k]) \in Message
         /\ [ch EXCEPT ![k] = Tail(@)] \in [Link -> Seq(Message)]
<1>1. Head(ch[k]) \in Message /\ Tail(ch[k]) \in Seq(Message)
  BY HeadTailProperties
<1>2. QED BY <1>1

\* The fields of a message are those of its type.
LEMMA MessageFields ==
  ASSUME NEW m \in Message
  PROVE  /\ m.type = "HELLO" => m.index \in Index
         /\ m.type = "GET_FILE" => m.path \in Path
         /\ m.type = "FILE_DATA" => m.path \in Path /\ m.entry \in Entry /\ m.content \in Nat
         /\ m.type = "RENAME_FILE" =>
              m.from \in Path /\ m.path \in Path /\ m.entry \in Entry
  BY DEF Message

\* A job is one, and so is the pair a rename makes.
LEMMA ApplyJob ==
  ASSUME NEW p \in Path, NEW e \in Entry, NEW c \in Nat
  PROVE  Apply(p, e, c) \in Job /\ <<Apply(p, e, c)>> \in Seq(Job)
  BY DEF Apply, Job

\* The two entries of a rename are jobs (_apply_rename).
LEMMA RenameJobsType ==
  ASSUME NEW n \in Node, NEW p \in Path, NEW q \in Path, NEW e \in Entry,
         index[n][p] \in Entry
  PROVE  RenameJobs(n, p, q, e) \in Seq(Job)
<1>1. MakeTombstone(index[n][p], n) \in Entry
  BY MakeTombstoneType
<1>2. /\ Apply(p, MakeTombstone(index[n][p], n), NoSum) \in Job
      /\ Apply(q, e, NoSum) \in Job
  BY <1>1, ApplyJob DEF NoSum
<1>3. QED BY <1>2 DEF RenameJobs

\* What the watcher makes of an entry is one.
LEMMA WatchedType ==
  ASSUME TypeOK, NEW n \in Node, NEW p \in Path
  PROVE  Watched(n, p) \in Entry
<1>1. index[n][p] \in Entry /\ disk[n][p] \in File
  BY DEF TypeOK, Index
<1>2. ScanOne(index[n][p], disk[n][p], n) \in Entry
  BY <1>1, ScanOneType
<1>3. QED BY <1>1, <1>2, MarkType DEF Watched

\* apply_remote leaves files and entries.
LEMMA AppliedType ==
  ASSUME TypeOK, NEW n \in Node, NEW j \in Job, Applied(n, j)
  PROVE  disk' \in [Node -> [Path -> File]] /\ index' \in [Node -> Index]
<1>1. j.path \in Path /\ j.entry \in Entry /\ j.content \in Nat
  BY DEF Job
<1>2. disk[n][j.path] \in File /\ now \in Nat
  BY <1>1 DEF TypeOK
<1>3. [sum |-> j.content, mtime |-> Stamp(now, j.content)] \in File
  BY <1>1, <1>2, StampType DEF File
<1>4. PICK f \in File : disk' = [disk EXCEPT ![n][j.path] = f]
  BY <1>2, <1>3, AbsentType DEF Applied
<1>5. disk' \in [Node -> [Path -> File]] /\ disk'[n][j.path] = f
  BY <1>1, <1>4 DEF TypeOK
<1>6. RecordRemote(j.entry, f) \in Entry
  BY <1>1, <1>2, ApplyType
<1>7. index' = [index EXCEPT ![n][j.path] = RecordRemote(j.entry, f)]
  BY <1>5 DEF Applied
<1>8. QED BY <1>1, <1>5, <1>6, <1>7 DEF TypeOK, Index

-----------------------------------------------------------------------------
(* Type correctness                                                        *)

FilesType ==
    /\ now \in Nat
    /\ disk \in [Node -> [Path -> File]]
    /\ index \in [Node -> Index]
    /\ copies \in [Node -> [Path -> Nat]]
    /\ pending \in [Node -> SUBSET Path]
    /\ retired \subseteq Nat
WiresType == up \in [Link -> Seq(Message)] /\ down \in [Link -> Seq(Message)]

\* A link has two ends.
LEMMA Ends ==
  ASSUME NEW k \in Link
  PROVE  k[1] \in Node /\ k[2] \in Node
  BY LinkAssumption

\* No entry is known and no session open.
LEMMA IdleTypes ==
  EmptyIndex \in Index /\ IdleInitiator \in Initiator /\ IdleListener \in Listener
<1>1. EmptyIndex \in Index
  BY NoEntryType DEF EmptyIndex, Index
<1>2. <<>> \in Seq(Job)
  OBVIOUS
<1>3. QED BY <1>1, <1>2 DEF IdleInitiator, IdleListener, Initiator, Listener

\* Every node begins without files.
LEMMA TypeInit == Init => TypeOK
<1> SUFFICES ASSUME Init PROVE TypeOK
  OBVIOUS
<1>1. FilesType
  BY AbsentType, IdleTypes DEF Init, FilesType, NoSum
<1>2. <<>> \in Seq(Message)
  OBVIOUS
<1>3. QED BY <1>1, <1>2, IdleTypes DEF Init, TypeOK, FilesType

\* An edit puts a file in place of another.
LEMMA PutType ==
  ASSUME TypeOK, NEW n \in Node, NEW p \in Path, NEW f \in File, Put(n, p, f)
  PROVE  disk' \in [Node -> [Path -> File]]
  BY DEF Put, TypeOK

\* A content that was there is one.
LEMMA RetireType ==
  ASSUME TypeOK, NEW n \in Node, NEW p \in Path, Retire(n, p)
  PROVE  retired' \subseteq Nat
<1>1. disk[n][p].sum \in Nat
  BY DEF TypeOK, File
<1>2. QED BY <1>1 DEF Retire, TypeOK

\* An edit leaves files.
LEMMA UsersType ==
  ASSUME TypeOK, Users
  PROVE  TypeOK'
<1>1. PICK n \in Node, p \in Path :
             \/ UserWrite(n, p)
             \/ UserDelete(n, p)
             \/ \E q \in Path : UserMove(n, p, q) \/ UserCopy(n, p, q)
  BY DEF Users
<1>2. /\ now' \in Nat
      /\ UNCHANGED <<index, copies, pending, ini, lis, up, down>>
  BY <1>1 DEF UserWrite, UserDelete, UserMove, UserCopy, Edit, TypeOK, wires
<1>3. /\ now \in Nat /\ now + 1 \in Nat
      /\ \A q \in Path : disk[n][q] \in File /\ disk[n][q].sum \in Nat
  BY DEF TypeOK, File
<1>4. disk' \in [Node -> [Path -> File]] /\ retired' \subseteq Nat
  <2>1. CASE UserWrite(n, p)
    <3>1. [sum |-> now + 1, mtime |-> Stamp(now + 1, now + 1)] \in File
      BY <1>3, StampType DEF File
    <3>2. QED BY <2>1, <3>1, PutType, RetireType DEF UserWrite
  <2>2. CASE UserDelete(n, p)
    BY <2>2, AbsentType, PutType, RetireType DEF UserDelete
  <2>3. ASSUME NEW q \in Path, UserMove(n, p, q)
        PROVE  disk' \in [Node -> [Path -> File]] /\ retired' \subseteq Nat
    <3>1. disk' = [disk EXCEPT ![n][p] = Absent, ![n][q] = disk[n][p]]
      BY <2>3 DEF UserMove
    <3>2. disk' \in [Node -> [Path -> File]]
      BY <1>3, <3>1, AbsentType DEF TypeOK
    <3>3. QED BY <2>3, <3>2, RetireType DEF UserMove
  <2>4. ASSUME NEW q \in Path, UserCopy(n, p, q)
        PROVE  disk' \in [Node -> [Path -> File]] /\ retired' \subseteq Nat
    <3>1. [sum |-> disk[n][p].sum, mtime |-> Stamp(now + 1, disk[n][p].sum)] \in File
      BY <1>3, StampType DEF File
    <3>2. QED BY <2>4, <3>1, PutType, RetireType DEF UserCopy
  <2>5. QED BY <1>1, <2>1, <2>2, <2>3, <2>4
<1>5. QED BY <1>2, <1>4 DEF TypeOK

\* What the watcher sees goes into the index.
LEMMA ObserveType ==
  ASSUME TypeOK, NEW n \in Node, NEW p \in Path, Observe(n, p)
  PROVE  TypeOK'
<1>1. index' \in [Node -> Index]
  BY WatchedType DEF Observe, TypeOK, Index
<1>2. QED BY <1>1 DEF Observe, TypeOK, wires

\* A coroutine of the initiator goes on.
LEMMA OneInitiator ==
  ASSUME TypeOK, NEW k \in Link, NEW r \in Initiator, ini' = [ini EXCEPT ![k] = r]
  PROVE  ini' \in [Link -> Initiator]
  BY DEF TypeOK

\* A coroutine of the listener goes on.
LEMMA OneListener ==
  ASSUME TypeOK, NEW k \in Link, NEW r \in Listener, lis' = [lis EXCEPT ![k] = r]
  PROVE  lis' \in [Link -> Listener]
  BY DEF TypeOK

\* The deletion pass notes paths, and makes one job at most.
LEMMA DeletionType ==
  ASSUME TypeOK, NEW n \in Node, NEW remote \in Index, NEW p \in Path
  PROVE  /\ Deferred(n, remote, p) \subseteq Path
         /\ Deletion(n, remote, p) \in Seq(Job)
<1>1. pending[n] \subseteq Path /\ remote[p] \in Entry
  BY DEF TypeOK, Index
<1>2. Deferred(n, remote, p) \subseteq Path
  BY <1>1 DEF Deferred
<1>3. <<Apply(p, remote[p], NoSum)>> \in Seq(Job)
  BY <1>1, ApplyJob DEF NoSum
<1>4. QED BY <1>2, <1>3 DEF Deletion

\* Conflict copies hold contents.
LEMMA CopyAsideType ==
  ASSUME TypeOK, NEW n \in Node, NEW P, CopyAside(n, P)
  PROVE  copies' \in [Node -> [Path -> Nat]]
<1>1. \A p \in Path : disk[n][p].sum \in Nat /\ copies[n][p] \in Nat
  BY DEF TypeOK, File
<1>2. QED BY <1>1 DEF CopyAside, TypeOK

\* A renamed file is one.
LEMMA RenameFileType ==
  ASSUME TypeOK, NEW n \in Node, NEW p \in Path, NEW q \in Path, RenameFile(n, p, q)
  PROVE  disk' \in [Node -> [Path -> File]]
<1>1. disk[n][p] \in File
  BY DEF TypeOK
<1>2. QED BY <1>1, AbsentType DEF RenameFile, TypeOK

\* The initiator opens a session, greets and is greeted.
LEMMA GreetingType ==
  ASSUME TypeOK, NEW k \in Link, Connect(k) \/ InitiatorHello(k)
  PROVE  TypeOK'
<1>1. ini[k] \in Initiator /\ up \in [Link -> Seq(Message)] /\ down \in [Link -> Seq(Message)]
  BY DEF TypeOK
<1>2. CASE Connect(k)
  <2>1. Hello(k[1]) \in Message
    BY Ends DEF Hello, Message, TypeOK
  <2>2. up' \in [Link -> Seq(Message)]
    BY <1>1, <1>2, <2>1, SendType DEF Connect
  <2>3. ini' \in [Link -> Initiator]
    BY <1>2 DEF Connect, TypeOK, Initiator
  <2>4. QED BY <1>2, <2>2, <2>3 DEF Connect, TypeOK, files
<1>3. CASE InitiatorHello(k)
  <2>1. down[k] # <<>> /\ Head(down[k]).type = "HELLO"
    BY <1>3 DEF InitiatorHello, Got
  <2>2. Head(down[k]) \in Message /\ down' \in [Link -> Seq(Message)]
    BY <1>1, <1>3, <2>1, GotType DEF InitiatorHello
  <2>3. PICK remote \in Index : remote = Head(down[k]).index
    BY <2>1, <2>2, MessageFields
  <2>4. PICK r : r = [ini[k] EXCEPT !.pc = "delete", !.remote = remote,
                                    !.todo = Tombstones(remote)]
    OBVIOUS
  <2>5. r \in Initiator
    BY <1>1, <2>4 DEF Initiator, Tombstones
  <2>6. ini' = [ini EXCEPT ![k] = r]
    BY <1>3, <2>3, <2>4 DEF InitiatorHello
  <2>7. QED BY <1>3, <2>2, <2>5, <2>6, OneInitiator DEF InitiatorHello, TypeOK, files
<1>4. QED BY <1>2, <1>3

\* The initiator deletes.
LEMMA InitiatorDeletionType ==
  ASSUME TypeOK, NEW k \in Link, NEW p \in Path, InitiatorDeletion(k, p)
  PROVE  TypeOK'
<1>1. ini[k] \in Initiator /\ ini[k].remote \in Index /\ k[1] \in Node
  BY Ends DEF TypeOK, Initiator
<1>2. pending' \in [Node -> SUBSET Path]
  BY <1>1, DeletionType DEF InitiatorDeletion, TypeOK
<1>3. PICK s \in Seq(Job) : s = Deletion(k[1], ini[k].remote, p)
  BY <1>1, DeletionType
<1>4. PICK r : r = [ini[k] EXCEPT !.todo = @ \ {p}, !.jobs = s]
  OBVIOUS
<1>5. r \in Initiator
  BY <1>1, <1>4 DEF Initiator
<1>6. ini' = [ini EXCEPT ![k] = r]
  BY <1>1, <1>3, <1>4 DEF InitiatorDeletion, TypeOK
<1>7. QED BY <1>2, <1>5, <1>6, OneInitiator DEF InitiatorDeletion, TypeOK, wires

\* Moves go from a path to a path (_apply_local_renames, and the push phase).
LEMMA MovesType ==
  ASSUME NEW local, NEW remote, NEW to \in [Path -> Path]
  PROVE  /\ RemoteMoves(local, remote, to) \subseteq Path \X Path
         /\ LocalMoves(local, remote, to) \subseteq Path \X Path
<1>1. ASSUME NEW x \in RemoteMoves(local, remote, to)
      PROVE  x \in Path \X Path
  <2>1. PICK p \in Path : x = <<p, to[p]>>
    BY <1>1 DEF RemoteMoves
  <2>2. QED BY <2>1
<1>2. ASSUME NEW x \in LocalMoves(local, remote, to)
      PROVE  x \in Path \X Path
  <2>1. PICK p \in Path : x = <<to[p], p>>
    BY <1>2 DEF LocalMoves
  <2>2. QED BY <2>1
<1>3. QED BY <1>1, <1>2

\* The initiator renames.
LEMMA InitiatorRenameType ==
  ASSUME TypeOK, NEW k \in Link,
         \/ \E to \in [Path -> Path] : FindRenames(k, to)
         \/ \E m \in Path \X Path : InitiatorRename(k, m)
  PROVE  TypeOK'
<1>1. ini[k] \in Initiator /\ ini[k].remote \in Index /\ k[1] \in Node
  BY Ends DEF TypeOK, Initiator
<1>2. ASSUME NEW to \in [Path -> Path], FindRenames(k, to)
      PROVE  TypeOK'
  <2>1. PICK mv \in SUBSET (Path \X Path) : mv = RemoteMoves(index[k[1]], ini[k].remote, to)
    BY MovesType
  <2>2. PICK r : r = [ini[k] EXCEPT !.pc = "rename", !.moves = mv]
    OBVIOUS
  <2>3. r \in Initiator
    BY <1>1, <2>2 DEF Initiator
  <2>4. ini' = [ini EXCEPT ![k] = r]
    BY <1>1, <1>2, <2>1, <2>2 DEF FindRenames, TypeOK
  <2>5. QED BY <1>2, <2>3, <2>4, OneInitiator DEF FindRenames, TypeOK, files, wires
<1>3. ASSUME NEW m \in Path \X Path, InitiatorRename(k, m)
      PROVE  TypeOK'
  <2>1. m[1] \in Path /\ m[2] \in Path /\ ini[k].remote[m[2]] \in Entry
        /\ index[k[1]][m[1]] \in Entry
    BY <1>1 DEF Index, TypeOK
  <2>2. PICK s \in Seq(Job) : s = RenameJobs(k[1], m[1], m[2], ini[k].remote[m[2]])
    BY <1>1, <2>1, RenameJobsType
  <2>3. PICK r : r = [ini[k] EXCEPT !.moves = @ \ {m}, !.jobs = s]
    OBVIOUS
  <2>4. r \in Initiator
    BY <1>1, <2>3 DEF Initiator
  <2>5. PICK q : q = [ini[k] EXCEPT !.moves = @ \ {m}]
    OBVIOUS
  <2>6. q \in Initiator
    BY <1>1, <2>5 DEF Initiator
  <2>7. CASE Renameable(k[1], m[1], ini[k].remote[m[2]])
    <3>1. RenameFile(k[1], m[1], m[2])
      BY <1>3, <2>7 DEF InitiatorRename
    <3>2. ini' = [ini EXCEPT ![k] = r]
      BY <1>1, <1>3, <2>2, <2>3, <2>7 DEF InitiatorRename, TypeOK
    <3>3. disk' \in [Node -> [Path -> File]] /\ ini' \in [Link -> Initiator]
      BY <1>1, <2>1, <2>4, <3>1, <3>2, RenameFileType, OneInitiator
    <3>4. QED BY <1>3, <3>3 DEF InitiatorRename, TypeOK, wires
  <2>8. CASE ~Renameable(k[1], m[1], ini[k].remote[m[2]])
    <3>1. ini' = [ini EXCEPT ![k] = q] /\ disk' = disk
      BY <1>1, <1>3, <2>5, <2>8 DEF InitiatorRename, TypeOK
    <3>2. QED BY <1>3, <2>6, <3>1, OneInitiator DEF InitiatorRename, TypeOK, wires
  <2>9. QED BY <2>7, <2>8
<1>4. QED BY <1>2, <1>3

\* The initiator pulls.
LEMMA PullType ==
  ASSUME TypeOK, NEW k \in Link,
         \/ ComputeNeeded(k)
         \/ \E p \in Path : RequestFile(k, p)
         \/ ReceiveFile(k)
  PROVE  TypeOK'
<1>1. /\ ini[k] \in Initiator /\ k[1] \in Node
      /\ up \in [Link -> Seq(Message)] /\ down \in [Link -> Seq(Message)]
  BY Ends DEF TypeOK
<1>2. CASE ComputeNeeded(k)
  <2>1. PICK T \in SUBSET Path :
               T = {p \in Path : Needed(Strategy, index[k[1]], ini[k].remote, {}, p)}
    OBVIOUS
  <2>2. PICK r : r = [ini[k] EXCEPT !.pc = "pull", !.todo = T]
    OBVIOUS
  <2>3. r \in Initiator
    BY <1>1, <2>2 DEF Initiator
  <2>4. ini' = [ini EXCEPT ![k] = r]
    BY <1>1, <1>2, <2>1, <2>2 DEF ComputeNeeded, TypeOK
  <2>5. \E P : CopyAside(k[1], P)
    BY <1>2 DEF ComputeNeeded
  <2>6. copies' \in [Node -> [Path -> Nat]] /\ ini' \in [Link -> Initiator]
    BY <1>1, <2>3, <2>4, <2>5, CopyAsideType, OneInitiator
  <2>7. QED BY <1>2, <2>6 DEF ComputeNeeded, TypeOK, wires
<1>3. ASSUME NEW p \in Path, RequestFile(k, p)
      PROVE  TypeOK'
  <2>1. [type |-> "GET_FILE", path |-> p] \in Message
    BY DEF Message
  <2>2. up' \in [Link -> Seq(Message)]
    BY <1>1, <1>3, <2>1, SendType DEF RequestFile
  <2>3. PICK r : r = [ini[k] EXCEPT !.pc = "wait", !.todo = @ \ {p}]
    OBVIOUS
  <2>4. r \in Initiator
    BY <1>1, <2>3 DEF Initiator
  <2>5. ini' = [ini EXCEPT ![k] = r]
    BY <1>1, <1>3, <2>3 DEF RequestFile, TypeOK
  <2>6. QED BY <1>3, <2>2, <2>4, <2>5, OneInitiator DEF RequestFile, TypeOK, files
<1>4. CASE ReceiveFile(k)
  <2>1. down[k] # <<>> /\ Head(down[k]).type = "FILE_DATA"
    BY <1>4 DEF ReceiveFile, Got
  <2>2. Head(down[k]) \in Message /\ down' \in [Link -> Seq(Message)]
    BY <1>1, <1>4, <2>1, GotType DEF ReceiveFile
  <2>3. PICK m \in Message : m = Head(down[k])
    BY <2>2
  <2>4. m.path \in Path /\ m.entry \in Entry /\ m.content \in Nat
    BY <2>1, <2>3, MessageFields
  <2>5. PICK s \in Seq(Job) : s = <<Apply(m.path, m.entry, m.content)>>
    BY <2>4, ApplyJob
  <2>6. PICK r : r = [ini[k] EXCEPT !.pc = "pull", !.jobs = s]
    OBVIOUS
  <2>7. r \in Initiator
    BY <1>1, <2>6 DEF Initiator
  <2>8. ini' = [ini EXCEPT ![k] = r]
    BY <1>1, <1>4, <2>3, <2>5, <2>6 DEF ReceiveFile, TypeOK
  <2>9. QED BY <1>4, <2>2, <2>7, <2>8, OneInitiator DEF ReceiveFile, TypeOK, files
<1>5. QED BY <1>2, <1>3, <1>4

\* The initiator pushes.
LEMMA PushType ==
  ASSUME TypeOK, NEW k \in Link,
         \/ \E old \in [Path -> Path] : FinishPull(k, old)
         \/ \E p \in Path : Push(k, p)
         \/ FinishPush(k)
  PROVE  TypeOK'
<1>1. /\ ini[k] \in Initiator /\ k[1] \in Node /\ index[k[1]] \in Index
      /\ up \in [Link -> Seq(Message)]
  BY Ends DEF TypeOK
<1>2. [type |-> "SYNC_DONE"] \in Message /\ [type |-> "ACK"] \in Message
  BY DEF Message
<1>3. ASSUME NEW old \in [Path -> Path], FinishPull(k, old)
      PROVE  TypeOK'
  <2>1. up' \in [Link -> Seq(Message)]
    BY <1>1, <1>2, <1>3, SendType DEF FinishPull
  <2>2. PICK T \in SUBSET Path :
               T = {p \in Path : Behind(index[k[1]], ini[k].remote, p)}
    OBVIOUS
  <2>3. PICK mv \in SUBSET (Path \X Path) : mv = LocalMoves(index[k[1]], ini[k].remote, old)
    BY MovesType
  <2>4. PICK r : r = [ini[k] EXCEPT !.pc = "push", !.snap = index[k[1]], !.todo = T,
                                    !.moves = mv]
    OBVIOUS
  <2>5. r \in Initiator
    BY <1>1, <2>4 DEF Initiator
  <2>6. ini' = [ini EXCEPT ![k] = r]
    BY <1>3, <2>2, <2>3, <2>4 DEF FinishPull
  <2>7. QED BY <1>3, <2>1, <2>5, <2>6, OneInitiator DEF FinishPull, TypeOK, files
<1>4. ASSUME NEW p \in Path, Push(k, p)
      PROVE  TypeOK'
  <2>1. ini' \in [Link -> Initiator]
    <3>1. PICK r : r = [ini[k] EXCEPT !.todo = @ \ {p}]
      OBVIOUS
    <3>2. r \in Initiator
      BY <1>1, <3>1 DEF Initiator
    <3>3. ini' = [ini EXCEPT ![k] = r]
      BY <1>1, <1>4, <3>1 DEF Push, TypeOK
    <3>4. QED BY <3>2, <3>3, OneInitiator
  <2>2. /\ ini[k].snap[p] \in Entry /\ ini[k].moves \in SUBSET (Path \X Path)
        /\ disk[k[1]][p].sum \in Nat
    BY <1>1 DEF Initiator, Index, TypeOK, File
  <2>3. [type |-> "FILE_DATA", path |-> p, entry |-> ini[k].snap[p],
         content |-> disk[k[1]][p].sum] \in Message
    BY <2>2 DEF Message
  <2>4. \A m \in ini[k].moves :
          [type |-> "RENAME_FILE", from |-> m[1], path |-> p,
           entry |-> ini[k].snap[p]] \in Message
    BY <2>2 DEF Message
  <2>5. up' \in [Link -> Seq(Message)]
    <3>1. CASE up' = up
      BY <1>1, <3>1
    <3>2. ASSUME NEW m \in Message, up' = Send(up, k, m)
          PROVE  up' \in [Link -> Seq(Message)]
      BY <1>1, <3>2, SendType
    <3>3. QED BY <1>4, <2>3, <2>4, <3>1, <3>2 DEF Push
  <2>6. QED BY <1>4, <2>1, <2>5 DEF Push, TypeOK, files
<1>5. CASE FinishPush(k)
  <2>1. up' \in [Link -> Seq(Message)]
    BY <1>1, <1>2, <1>5, SendType DEF FinishPush
  <2>2. QED BY <1>5, <2>1, IdleTypes, OneInitiator DEF FinishPush, TypeOK, files
<1>6. QED BY <1>3, <1>4, <1>5

\* The listener greets and is greeted.
LEMMA AnswerType ==
  ASSUME TypeOK, NEW k \in Link, Greet(k) \/ ListenerHello(k)
  PROVE  TypeOK'
<1>1. lis[k] \in Listener /\ up \in [Link -> Seq(Message)] /\ down \in [Link -> Seq(Message)]
  BY DEF TypeOK
<1>2. Hello(k[2]) \in Message
  BY Ends DEF Hello, Message, TypeOK
<1>3. Send(down, k, Hello(k[2])) \in [Link -> Seq(Message)]
  BY <1>1, <1>2, SendType
<1>4. CASE Greet(k)
  <2>1. lis' \in [Link -> Listener]
    BY <1>4 DEF Greet, TypeOK, Listener
  <2>2. QED BY <1>3, <1>4, <2>1 DEF Greet, TypeOK, files
<1>5. CASE ListenerHello(k)
  <2>1. up[k] # <<>> /\ Head(up[k]).type = "HELLO"
    BY <1>5 DEF ListenerHello, Got
  <2>2. Head(up[k]) \in Message /\ up' \in [Link -> Seq(Message)]
    BY <1>1, <1>5, <2>1, GotType DEF ListenerHello
  <2>3. PICK remote \in Index : remote = Head(up[k]).index
    BY <2>1, <2>2, MessageFields
  <2>4. PICK r : r = [lis[k] EXCEPT !.pc = "delete", !.remote = remote,
                                    !.todo = Tombstones(remote)]
    OBVIOUS
  <2>5. r \in Listener
    BY <1>1, <2>4 DEF Listener, Tombstones
  <2>6. lis' = [lis EXCEPT ![k] = r]
    BY <1>5, <2>3, <2>4 DEF ListenerHello
  <2>7. lis' \in [Link -> Listener]
    BY <2>5, <2>6, OneListener
  <2>8. down' \in [Link -> Seq(Message)]
    BY <1>1, <1>3, <1>5 DEF ListenerHello
  <2>9. QED BY <1>5, <2>2, <2>7, <2>8 DEF ListenerHello, TypeOK, files
<1>6. QED BY <1>4, <1>5

\* The listener deletes.
LEMMA ListenerDeletionType ==
  ASSUME TypeOK, NEW k \in Link, NEW p \in Path, ListenerDeletion(k, p)
  PROVE  TypeOK'
<1>1. lis[k] \in Listener /\ lis[k].remote \in Index /\ k[2] \in Node
  BY Ends DEF TypeOK, Listener
<1>2. pending' \in [Node -> SUBSET Path]
  BY <1>1, DeletionType DEF ListenerDeletion, TypeOK
<1>3. PICK s \in Seq(Job) : s = Deletion(k[2], lis[k].remote, p)
  BY <1>1, DeletionType
<1>4. PICK r : r = [lis[k] EXCEPT !.todo = @ \ {p}, !.jobs = s]
  OBVIOUS
<1>5. r \in Listener
  BY <1>1, <1>4 DEF Listener
<1>6. lis' = [lis EXCEPT ![k] = r]
  BY <1>1, <1>3, <1>4 DEF ListenerDeletion, TypeOK
<1>7. QED BY <1>2, <1>5, <1>6, OneListener DEF ListenerDeletion, TypeOK, wires

\* The listener serves.
LEMMA ServeType ==
  ASSUME TypeOK, NEW k \in Link, BeginServing(k) \/ Serve(k) \/ ServeDone(k) \/ AcceptAck(k)
  PROVE  TypeOK'
<1>1. /\ lis[k] \in Listener /\ k[2] \in Node
      /\ up \in [Link -> Seq(Message)] /\ down \in [Link -> Seq(Message)]
  BY Ends DEF TypeOK
<1>2. CASE BeginServing(k)
  <2>1. lis' \in [Link -> Listener]
    BY <1>2 DEF BeginServing, TypeOK, Listener
  <2>2. QED BY <1>2, <2>1 DEF BeginServing, TypeOK, files, wires
<1>3. ASSUME up[k] # <<>>, up' = [up EXCEPT ![k] = Tail(@)]
      PROVE  Head(up[k]) \in Message /\ up' \in [Link -> Seq(Message)]
  BY <1>1, <1>3, GotType
<1>4. CASE Serve(k)
  <2>1. /\ up[k] # <<>> /\ Head(up[k]).type = "GET_FILE"
        /\ Head(up[k]) \in Message /\ up' \in [Link -> Seq(Message)]
    BY <1>3, <1>4 DEF Serve, Got
  <2>2. PICK p \in Path : p = Head(up[k]).path
    BY <2>1, MessageFields
  <2>3. index[k[2]][p] \in Entry /\ disk[k[2]][p].sum \in Nat
    BY <1>1 DEF TypeOK, Index, File
  <2>4. [type |-> "FILE_DATA", path |-> p, entry |-> index[k[2]][p],
         content |-> disk[k[2]][p].sum] \in Message
    BY <2>3 DEF Message
  <2>5. down' \in [Link -> Seq(Message)]
    BY <1>1, <1>4, <2>2, <2>4, SendType DEF Serve
  <2>6. QED BY <1>4, <2>1, <2>5 DEF Serve, TypeOK, files
<1>5. CASE ServeDone(k)
  <2>1. up' \in [Link -> Seq(Message)]
    BY <1>3, <1>5 DEF ServeDone, Got
  <2>2. lis' \in [Link -> Listener]
    BY <1>5 DEF ServeDone, TypeOK, Listener
  <2>3. QED BY <1>5, <2>1, <2>2 DEF ServeDone, TypeOK, files
<1>6. CASE AcceptAck(k)
  <2>1. up' \in [Link -> Seq(Message)]
    BY <1>3, <1>6 DEF AcceptAck, Got
  <2>2. lis' \in [Link -> Listener]
    BY <1>6, IdleTypes, OneListener DEF AcceptAck
  <2>3. QED BY <1>6, <2>1, <2>2 DEF AcceptAck, TypeOK, files
<1>7. QED BY <1>2, <1>4, <1>5, <1>6

\* The listener accepts what is pushed.
LEMMA AcceptType ==
  ASSUME TypeOK, NEW k \in Link, AcceptFile(k) \/ AcceptRename(k)
  PROVE  TypeOK'
<1>1. /\ lis[k] \in Listener /\ k[2] \in Node /\ up \in [Link -> Seq(Message)]
  BY Ends DEF TypeOK
<1>2. up[k] # <<>> /\ up' = [up EXCEPT ![k] = Tail(@)]
  BY DEF AcceptFile, AcceptRename, Got
<1>3. Head(up[k]) \in Message /\ up' \in [Link -> Seq(Message)]
  BY <1>1, <1>2, GotType
<1>4. PICK m \in Message : m = Head(up[k])
  BY <1>3
<1>5. CASE AcceptFile(k)
  <2>1. m.path \in Path /\ m.entry \in Entry /\ m.content \in Nat
    BY <1>4, <1>5, MessageFields DEF AcceptFile, Got
  <2>2. PICK s \in Seq(Job) : s = <<Apply(m.path, m.entry, m.content)>>
    BY <2>1, ApplyJob
  <2>3. PICK r : r = [lis[k] EXCEPT !.jobs = s]
    OBVIOUS
  <2>4. r \in Listener
    BY <1>1, <2>3 DEF Listener
  <2>5. CASE Accept(Strategy, index[k[2]][m.path], m.entry)
    <3>1. lis' = [lis EXCEPT ![k] = r]
      BY <1>1, <1>4, <1>5, <2>2, <2>3, <2>5 DEF AcceptFile, TypeOK
    <3>2. \E P : CopyAside(k[2], P)
      BY <1>4, <1>5, <2>5 DEF AcceptFile
    <3>3. copies' \in [Node -> [Path -> Nat]] /\ lis' \in [Link -> Listener]
      BY <1>1, <2>4, <3>1, <3>2, CopyAsideType, OneListener
    <3>4. QED BY <1>3, <1>5, <3>3 DEF AcceptFile, TypeOK
  <2>6. CASE ~Accept(Strategy, index[k[2]][m.path], m.entry)
    <3>1. UNCHANGED <<lis, copies>>
      BY <1>4, <1>5, <2>6 DEF AcceptFile
    <3>2. QED BY <1>3, <1>5, <3>1 DEF AcceptFile, TypeOK
  <2>7. QED BY <2>5, <2>6
<1>6. CASE AcceptRename(k)
  <2>1. /\ m.from \in Path /\ m.path \in Path /\ m.entry \in Entry
        /\ index[k[2]][m.from] \in Entry
    BY <1>1, <1>4, <1>6, MessageFields DEF AcceptRename, Got, TypeOK, Index
  <2>2. PICK s \in Seq(Job) : s = RenameJobs(k[2], m.from, m.path, m.entry)
    BY <1>1, <2>1, RenameJobsType
  <2>3. PICK r : r = [lis[k] EXCEPT !.jobs = s]
    OBVIOUS
  <2>4. r \in Listener
    BY <1>1, <2>3 DEF Listener
  <2>5. CASE Renameable(k[2], m.from, m.entry)
    <3>1. RenameFile(k[2], m.from, m.path)
      BY <1>4, <1>6, <2>5 DEF AcceptRename
    <3>2. lis' = [lis EXCEPT ![k] = r]
      BY <1>1, <1>4, <1>6, <2>2, <2>3, <2>5 DEF AcceptRename, TypeOK
    <3>3. disk' \in [Node -> [Path -> File]] /\ lis' \in [Link -> Listener]
      BY <1>1, <2>1, <2>4, <3>1, <3>2, RenameFileType, OneListener
    <3>4. QED BY <1>3, <1>6, <3>3 DEF AcceptRename, TypeOK
  <2>6. CASE ~Renameable(k[2], m.from, m.entry)
    <3>1. UNCHANGED <<disk, lis>>
      BY <1>4, <1>6, <2>6 DEF AcceptRename
    <3>2. QED BY <1>3, <1>6, <3>1 DEF AcceptRename, TypeOK
  <2>7. QED BY <2>5, <2>6
<1>7. QED BY <1>5, <1>6

\* A worker thread applies a version.
LEMMA JobType ==
  ASSUME TypeOK, NEW k \in Link, InitiatorJob(k) \/ ListenerJob(k)
  PROVE  TypeOK'
<1>1. ini[k] \in Initiator /\ lis[k] \in Listener /\ k[1] \in Node /\ k[2] \in Node
  BY Ends DEF TypeOK
<1>2. ASSUME NEW s \in Seq(Job), s # <<>>
      PROVE  Head(s) \in Job /\ Tail(s) \in Seq(Job)
  BY <1>2, HeadTailProperties
<1>3. CASE InitiatorJob(k)
  <2>1. ini[k].jobs \in Seq(Job) /\ ini[k].jobs # <<>>
    BY <1>1, <1>3 DEF InitiatorJob, Initiator
  <2>2. Head(ini[k].jobs) \in Job /\ Tail(ini[k].jobs) \in Seq(Job)
    BY <1>2, <2>1
  <2>3. /\ disk' \in [Node -> [Path -> File]] /\ index' \in [Node -> Index]
        /\ UNCHANGED <<now, copies, pending, retired, lis, up, down>>
    BY <1>1, <1>3, <2>2, AppliedType DEF InitiatorJob, Applied, wires
  <2>4. PICK r : r = [ini[k] EXCEPT !.jobs = Tail(@)]
    OBVIOUS
  <2>5. r \in Initiator
    BY <1>1, <2>2, <2>4 DEF Initiator
  <2>6. ini' = [ini EXCEPT ![k] = r]
    BY <1>1, <1>3, <2>4 DEF InitiatorJob, TypeOK
  <2>7. QED BY <2>3, <2>5, <2>6, OneInitiator DEF TypeOK
<1>4. CASE ListenerJob(k)
  <2>1. lis[k].jobs \in Seq(Job) /\ lis[k].jobs # <<>>
    BY <1>1, <1>4 DEF ListenerJob, Listener
  <2>2. Head(lis[k].jobs) \in Job /\ Tail(lis[k].jobs) \in Seq(Job)
    BY <1>2, <2>1
  <2>3. /\ disk' \in [Node -> [Path -> File]] /\ index' \in [Node -> Index]
        /\ UNCHANGED <<now, copies, pending, retired, ini, up, down>>
    BY <1>1, <1>4, <2>2, AppliedType DEF ListenerJob, Applied, wires
  <2>4. PICK r : r = [lis[k] EXCEPT !.jobs = Tail(@)]
    OBVIOUS
  <2>5. r \in Listener
    BY <1>1, <2>2, <2>4 DEF Listener
  <2>6. lis' = [lis EXCEPT ![k] = r]
    BY <1>1, <1>4, <2>4 DEF ListenerJob, TypeOK
  <2>7. QED BY <2>3, <2>5, <2>6, OneListener DEF TypeOK
<1>5. QED BY <1>3, <1>4

\* A connection is lost.
LEMMA DropType ==
  ASSUME TypeOK, NEW k \in Link, Drop(k)
  PROVE  TypeOK'
<1>1. ini' \in [Link -> Initiator] /\ lis' \in [Link -> Listener]
  BY IdleTypes, OneInitiator, OneListener DEF Drop
<1>2. <<>> \in Seq(Message)
  OBVIOUS
<1>3. up' \in [Link -> Seq(Message)] /\ down' \in [Link -> Seq(Message)]
  BY <1>2 DEF Drop, TypeOK
<1>4. QED BY <1>1, <1>3 DEF Drop, TypeOK

\* Every step keeps the types.
LEMMA TypeStep ==
  ASSUME TypeOK, [Next]_vars
  PROVE  TypeOK'
<1>1. CASE UNCHANGED vars
  BY <1>1 DEF TypeOK, vars
<1>2. ASSUME NEW k \in Link, Initiate(k) PROVE TypeOK'
  BY <1>2, GreetingType, InitiatorDeletionType, InitiatorRenameType, PullType, PushType,
     JobType DEF Initiate
<1>3. ASSUME NEW k \in Link, Listen(k) PROVE TypeOK'
  BY <1>3, AnswerType, ListenerDeletionType, ServeType, AcceptType, JobType DEF Listen
<1>4. QED BY <1>1, <1>2, <1>3, UsersType, ObserveType, DropType DEF Next

\* Whatever users, watchers, sessions and the network do, what is on disk, in
\* the indexes, in the messages and in the jobs is what it is taken for.
THEOREM TypesHold == Spec => []TypeOK
<1>1. Init => TypeOK
  BY TypeInit
<1>2. TypeOK /\ [Next]_vars => TypeOK'
  BY TypeStep
<1>3. QED BY <1>1, <1>2, PTL DEF Spec

-----------------------------------------------------------------------------
(* Two nodes whose sessions do not cross: definitions                      *)

\* There are two nodes, their sessions come one after the other, and no user
\* gives a content a second name.
Orderly ==
    /\ \E k \in Link : Node = {k[1], k[2]}
    /\ "cross" \notin Env \/ \A k, l \in Link : k = l
    /\ Env \cap {"move", "copy"} = {}

\* What is in a sequence.
Items(w) == {w[i] : i \in 1..Len(w)}

\* Where the two coroutines of k are, and what is between them.
StageInv(k) ==
    /\ Len(down[k]) <= 1
    /\ \A m \in Items(down[k]) :
          \/ m.type = "HELLO" /\ ini[k].pc = "hello" /\ lis[k].pc # "idle"
          \/ /\ m.type = "FILE_DATA" /\ m.path \notin ini[k].todo
             /\ ini[k].pc = "wait" /\ lis[k].pc = "serve" /\ up[k] = <<>>
    /\ \A i \in 1..Len(up[k]) :
          /\ up[k][i].type = "HELLO" => i = 1 /\ lis[k].pc \in {"idle", "hello"}
          /\ up[k][i].type = "GET_FILE" =>
               /\ i = Len(up[k]) /\ ini[k].pc = "wait" /\ down[k] = <<>>
               /\ up[k][i].path \notin ini[k].todo
          /\ up[k][i].type = "ACK" => i = Len(up[k]) /\ ini[k].pc = "idle"
          /\ up[k][i].type \in {"SYNC_DONE", "FILE_DATA"} => ini[k].pc \in {"push", "idle"}
          /\ up[k][i].type # "RENAME_FILE"
    /\ lis[k].pc = "hello" => GreetFirst /\ up[k] # <<>> /\ up[k][1].type = "HELLO"
    /\ lis[k].pc = "idle" =>
          /\ down[k] = <<>>
          /\ \/ up[k] = <<>> /\ ini[k].pc = "idle"
             \/ Len(up[k]) = 1 /\ up[k][1].type = "HELLO" /\ ini[k].pc = "hello"
    /\ ini[k].pc = "hello" /\ down[k] = <<>> => lis[k].pc = "idle"
    /\ lis[k].pc = "accept" => ini[k].pc \in {"push", "idle"}
    /\ ini[k].jobs # <<>> =>
          /\ ini[k].pc \in {"delete", "pull"} /\ Len(ini[k].jobs) = 1
          /\ ini[k].pc = "pull" => ini[k].jobs[1].path \notin ini[k].todo
    /\ lis[k].jobs # <<>> => lis[k].pc \in {"delete", "accept"} /\ Len(lis[k].jobs) = 1
    /\ ini[k].moves = {}

\* Sessions of different links do not overlap.
ApartInv == \A k, l \in Link : k = l \/ Idle(k) \/ Idle(l)

\* e is f or an earlier version of it.
Earlier(e, f) ==
    AtMost(e.clock, f.clock) /\ (Equals(e.clock, f.clock) => e.sum = f.sum)

\* The initiator can hold e while the listener holds f: neither knows more of
\* the other's edits than the other does, and equal clocks are one version.
Meet(k, e, f) ==
    /\ f.clock[k[1]] <= e.clock[k[1]] /\ e.clock[k[2]] <= f.clock[k[2]]
    /\ Equals(e.clock, f.clock) => e.sum = f.sum

\* The versions of p in the HELLOs and in the FILE_DATA messages of a
\* connection, and in a list of jobs; whether p is asked for.
Hellos(w, p) == {m.index[p] : m \in {x \in Items(w) : x.type = "HELLO"}}
Sends(w, p) == {m.entry : m \in {x \in Items(w) : x.type = "FILE_DATA" /\ x.path = p}}
Asks(w, p) == \E m \in Items(w) : m.type = "GET_FILE" /\ m.path = p
Versions(w, p) == {j.entry : j \in {x \in Items(w) : x.path = p}}

If(cond, S) == IF cond THEN S ELSE {}

\* What the listener may still act on of the initiator's HELLO, and the
\* initiator of the listener's.
Greeted(k, p) == Hellos(up[k], p) \cup If(lis[k].pc = "delete", {lis[k].remote[p]})
Offered(k, p) ==
    Hellos(down[k], p) \cup
    If(ini[k].pc \in {"delete", "rename", "pull", "wait"}, {ini[k].remote[p]})

\* The version the initiator wants, until it is answered.
Wanted(k, p) ==
    If(Asks(up[k], p) \/ (ini[k].pc \in {"pull", "wait"} /\ p \in ini[k].todo),
       {ini[k].remote[p]})
Replied(k, p) == Sends(down[k], p)

\* What the initiator pushes or is going to push.
Pushed(k, p) ==
    Sends(up[k], p) \cup If(ini[k].pc = "push" /\ p \in ini[k].todo, {ini[k].snap[p]})

\* What the worker threads are about to install.
Pulling(k, p) == Versions(ini[k].jobs, p)
Taking(k, p) == Versions(lis[k].jobs, p)

Mine(k, p) == index[k[1]][p]        \* the initiator's version
Theirs(k, p) == index[k[2]][p]      \* the listener's

HelloInv(k, p) ==
    /\ \A h \in Greeted(k, p) : Earlier(h, Mine(k, p))
    /\ \A r \in Offered(k, p) : Earlier(r, Theirs(k, p))

\* A version that the initiator is about to install goes with the listener's,
\* and has something new of the listener.
PullInv(k, p) ==
    \A e \in Pulling(k, p) :
        /\ Meet(k, e, Theirs(k, p))
        /\ e.clock[k[2]] > Mine(k, p).clock[k[2]]
        /\ \A h \in Greeted(k, p) : Earlier(h, e)
        /\ \A f \in Taking(k, p) : Meet(k, e, f)

\* The same for the listener.
TakeInv(k, p) ==
    \A f \in Taking(k, p) :
        /\ Meet(k, Mine(k, p), f)
        /\ f.clock[k[1]] > Theirs(k, p).clock[k[1]]
        /\ \A r \in Offered(k, p) : Earlier(r, f)

\* A reply is what the listener had, and is news; so is what is wanted.
ReplyInv(k, p) ==
    /\ \A e \in Replied(k, p) :
          /\ Earlier(e, Theirs(k, p))
          /\ Theirs(k, p).clock[k[1]] <= e.clock[k[1]]
          /\ e.clock[k[2]] > Mine(k, p).clock[k[2]]
    /\ \A e \in Wanted(k, p) : e.clock[k[2]] > Mine(k, p).clock[k[2]]

\* What is pushed is what the initiator had, as far as the listener knows.
PushInv(k, p) ==
    \A e \in Pushed(k, p) :
        Earlier(e, Mine(k, p)) /\ Mine(k, p).clock[k[2]] <= e.clock[k[2]]

ClockInv(k, p) ==
    /\ Meet(k, Mine(k, p), Theirs(k, p))
    /\ HelloInv(k, p) /\ PullInv(k, p) /\ TakeInv(k, p)
    /\ ReplyInv(k, p) /\ PushInv(k, p)

-----------------------------------------------------------------------------
\* The content x goes with entry e, message m or job j as one of p.
Is(e, x) == Live(e) /\ e.sum = x
Carries(m, p, x) ==
    \/ m.type = "HELLO" /\ Is(m.index[p], x)
    \/ m.type = "FILE_DATA" /\ m.path = p /\ (Is(m.entry, x) \/ (m.content = x /\ x # NoSum))
Brings(j, p, x) == j.path = p /\ (Is(j.entry, x) \/ (j.content = x /\ x # NoSum))

\* The content x is somewhere under the name p.
InFiles(p, x) ==
    \E n \in Node : (disk[n][p].sum = x /\ x # NoSum) \/ Is(index[n][p], x)
InSession(k, p, x) ==
    \/ Is(ini[k].remote[p], x) \/ Is(ini[k].snap[p], x)
    \/ \E m \in Items(up[k]) : Carries(m, p, x)
    \/ \E m \in Items(down[k]) : Carries(m, p, x)
    \/ \E j \in Items(ini[k].jobs) : Brings(j, p, x)
    \/ \E j \in Items(lis[k].jobs) : Brings(j, p, x)
Has(p, x) == InFiles(p, x) \/ \E k \in Link : InSession(k, p, x)

\* A content has one name, and is the time at which it was written.
NameInv ==
    \A x \in Nat :
        /\ \A p \in Path : Has(p, x) => x \in 1..now
        /\ \A p, q \in Path : Has(p, x) /\ Has(q, x) => p = q

SessionInv ==
    /\ TypeOK /\ NameInv /\ ApartInv
    /\ \A k \in Link : StageInv(k) /\ \A p \in Path : ClockInv(k, p)

\* A step of link k keeps what holds of k, and gives no content a new name.
Kept(k) ==
    /\ StageInv(k)'
    /\ \A p \in Path :
          /\ ClockInv(k, p)'
          /\ \A x \in Nat : (InFiles(p, x) \/ InSession(k, p, x))' => Has(p, x)

-----------------------------------------------------------------------------
(* What is in a connection                                                 *)

\* A message goes to the end.
LEMMA AppendWire ==
  ASSUME NEW S, NEW w \in Seq(S), NEW m \in S
  PROVE  /\ Append(w, m) \in Seq(S) /\ Len(Append(w, m)) = Len(w) + 1
         /\ \A i \in 1..Len(w) : Append(w, m)[i] = w[i]
         /\ Append(w, m)[Len(w) + 1] = m
         /\ Append(w, m) # <<>>
         /\ Items(Append(w, m)) = Items(w) \cup {m}
<1>1. /\ Append(w, m) \in Seq(S) /\ Len(Append(w, m)) = Len(w) + 1
      /\ \A i \in 1..Len(w) : Append(w, m)[i] = w[i]
      /\ Append(w, m)[Len(w) + 1] = m
  BY AppendProperties
<1>2. Len(w) \in Nat
  BY LenProperties
<1>3. Items(Append(w, m)) = Items(w) \cup {m}
  <2>1. ASSUME NEW i \in 1..Len(Append(w, m)) PROVE Append(w, m)[i] \in Items(w) \cup {m}
    BY <1>1, <1>2, <2>1 DEF Items
  <2>2. ASSUME NEW i \in 1..Len(w) PROVE w[i] \in Items(Append(w, m))
    <3>1. i \in 1..Len(Append(w, m)) /\ w[i] = Append(w, m)[i]
      BY <1>1, <1>2
    <3>2. QED BY <3>1 DEF Items
  <2>3. m \in Items(Append(w, m))
    <3>1. Len(w) + 1 \in 1..Len(Append(w, m))
      BY <1>1, <1>2
    <3>2. QED BY <1>1, <3>1 DEF Items
  <2>4. QED BY <2>1, <2>2, <2>3 DEF Items
<1>4. Append(w, m) # <<>>
  BY <1>1, <1>2
<1>5. QED BY <1>1, <1>3, <1>4

\* A message is read from the beginning.
LEMMA TailWire ==
  ASSUME NEW S, NEW w \in Seq(S), w # <<>>
  PROVE  /\ Tail(w) \in Seq(S) /\ Len(Tail(w)) = Len(w) - 1 /\ Len(w) >= 1
         /\ \A i \in 1..Len(Tail(w)) : Tail(w)[i] = w[i + 1]
         /\ Head(w) = w[1] /\ Head(w) \in S
         /\ Head(w) \in Items(w) /\ Items(Tail(w)) \subseteq Items(w)
<1>1. /\ Tail(w) \in Seq(S) /\ Len(Tail(w)) = Len(w) - 1 /\ Head(w) \in S /\ Head(w) = w[1]
      /\ \A i \in 1..Len(Tail(w)) : Tail(w)[i] = w[i + 1]
  BY HeadTailProperties
<1>2. Len(w) \in Nat /\ Len(w) # 0
  BY LenProperties, EmptySeq
<1>3. Len(w) >= 1 /\ Head(w) \in Items(w)
  BY <1>1, <1>2 DEF Items
<1>4. ASSUME NEW i \in 1..Len(Tail(w)) PROVE Tail(w)[i] \in Items(w)
  <2>1. i + 1 \in 1..Len(w) /\ Tail(w)[i] = w[i + 1]
    BY <1>1, <1>2
  <2>2. QED BY <2>1 DEF Items
<1>5. QED BY <1>1, <1>3, <1>4 DEF Items

\* Nothing, or one thing, is in a sequence.
LEMMA ItemsOf ==
  /\ Items(<<>>) = {}
  /\ \A S : \A w \in Seq(S) :
       /\ Items(w) \subseteq S
       /\ Len(w) = 1 => Items(w) = {w[1]} /\ Head(w) = w[1] /\ Tail(w) = <<>>
       /\ Len(w) = 0 => w = <<>>
       /\ w # <<>> => Head(w) = w[1]
<1>1. Items(<<>>) = {}
  BY DEF Items
<1>2. ASSUME NEW S, NEW w \in Seq(S)
      PROVE  /\ Items(w) \subseteq S
             /\ Len(w) = 1 => Items(w) = {w[1]} /\ Head(w) = w[1] /\ Tail(w) = <<>>
             /\ Len(w) = 0 => w = <<>>
             /\ w # <<>> => Head(w) = w[1]
  <2>1. \A i \in 1..Len(w) : w[i] \in S
    BY ElementOfSeq
  <2>2. Len(w) = 0 => w = <<>>
    BY EmptySeq
  <2>3. Len(w) = 1 => Items(w) = {w[1]}
    BY DEF Items
  <2>4. ASSUME w # <<>>
        PROVE  Head(w) = w[1] /\ (Len(w) = 1 => Tail(w) = <<>>)
    <3>1. Head(w) = w[1] /\ Tail(w) \in Seq(S) /\ Len(Tail(w)) = Len(w) - 1
      BY <2>4, HeadTailProperties
    <3>2. QED BY <3>1, EmptySeq
  <2>5. Len(w) = 1 => w # <<>>
    OBVIOUS
  <2>6. QED BY <2>1, <2>2, <2>3, <2>4, <2>5 DEF Items
<1>3. QED BY <1>1, <1>2

\* What a message adds to the versions of p on a connection, and what reading
\* one may take away.
LEMMA AppendViews ==
  ASSUME NEW w \in Seq(Message), NEW m \in Message, NEW p \in Path
  PROVE  /\ m.type = "HELLO" => Hellos(Append(w, m), p) = Hellos(w, p) \cup {m.index[p]}
         /\ m.type # "HELLO" => Hellos(Append(w, m), p) = Hellos(w, p)
         /\ m.type = "FILE_DATA" /\ m.path = p =>
              Sends(Append(w, m), p) = Sends(w, p) \cup {m.entry}
         /\ m.type # "FILE_DATA" \/ m.path # p => Sends(Append(w, m), p) = Sends(w, p)
         /\ Asks(w, p) => Asks(Append(w, m), p)
         /\ m.type = "GET_FILE" /\ m.path = p => Asks(Append(w, m), p)
         /\ Asks(Append(w, m), p) => Asks(w, p) \/ (m.type = "GET_FILE" /\ m.path = p)
<1>1. Items(Append(w, m)) = Items(w) \cup {m}
  BY AppendWire
<1>2. QED BY <1>1 DEF Hellos, Sends, Asks

\* The same of reading one.
LEMMA TailViews ==
  ASSUME NEW w \in Seq(Message), w # <<>>, NEW p \in Path
  PROVE  /\ Hellos(Tail(w), p) \subseteq Hellos(w, p)
         /\ Sends(Tail(w), p) \subseteq Sends(w, p)
         /\ Asks(Tail(w), p) => Asks(w, p)
         /\ Head(w).type = "HELLO" => Head(w).index[p] \in Hellos(w, p)
         /\ Head(w).type = "FILE_DATA" /\ Head(w).path = p => Head(w).entry \in Sends(w, p)
         /\ Head(w).type = "GET_FILE" /\ Head(w).path = p => Asks(w, p)
<1>1. Items(Tail(w)) \subseteq Items(w) /\ Head(w) \in Items(w)
  BY TailWire
<1>2. QED BY <1>1 DEF Hellos, Sends, Asks

\* There is nothing on an empty connection and in an empty list of jobs.
LEMMA EmptyViews ==
  ASSUME NEW p
  PROVE  /\ Hellos(<<>>, p) = {} /\ Sends(<<>>, p) = {} /\ ~Asks(<<>>, p)
         /\ Versions(<<>>, p) = {}
  BY ItemsOf DEF Hellos, Sends, Asks, Versions

\* The versions a connection brings are entries.
LEMMA ViewTypes ==
  ASSUME NEW w \in Seq(Message), NEW p \in Path
  PROVE  Hellos(w, p) \subseteq Entry /\ Sends(w, p) \subseteq Entry
<1>1. Items(w) \subseteq Message
  BY ItemsOf
<1>2. \A m \in Items(w) : /\ m.type = "HELLO" => m.index[p] \in Entry
                          /\ m.type = "FILE_DATA" => m.entry \in Entry
  BY <1>1, MessageFields DEF Index
<1>3. QED BY <1>2 DEF Hellos, Sends

\* One job is there for its own path alone.
LEMMA JobViews ==
  ASSUME NEW s \in Seq(Job), NEW p \in Path
  PROVE  /\ Versions(s, p) \subseteq Entry
         /\ Len(s) = 1 /\ s[1].path = p => Versions(s, p) = {s[1].entry}
         /\ Len(s) = 1 /\ s[1].path # p => Versions(s, p) = {}
<1>1. Items(s) \subseteq Job
  BY ItemsOf
<1>2. Versions(s, p) \subseteq Entry
  BY <1>1 DEF Versions, Job
<1>3. Len(s) = 1 => Items(s) = {s[1]}
  BY ItemsOf
<1>4. QED BY <1>2, <1>3 DEF Versions

\* The list of one job.
LEMMA OneJob ==
  ASSUME NEW q \in Path, NEW e \in Entry, NEW c \in Nat, NEW p \in Path
  PROVE  /\ Len(<<Apply(q, e, c)>>) = 1 /\ <<Apply(q, e, c)>> # <<>>
         /\ Items(<<Apply(q, e, c)>>) = {Apply(q, e, c)}
         /\ <<Apply(q, e, c)>>[1] = Apply(q, e, c)
         /\ q = p => Versions(<<Apply(q, e, c)>>, p) = {e}
         /\ q # p => Versions(<<Apply(q, e, c)>>, p) = {}
<1>1. PICK j \in Job : j = Apply(q, e, c)
  BY ApplyJob
<1>2. j.path = q /\ j.entry = e
  BY <1>1 DEF Apply
<1>3. Len(<<j>>) = 1 /\ <<j>> # <<>> /\ <<j>>[1] = j
  OBVIOUS
<1>4. Items(<<j>>) = {j}
  BY <1>3 DEF Items
<1>5. /\ q = p => Versions(<<j>>, p) = {e}
      /\ q # p => Versions(<<j>>, p) = {}
  BY <1>2, <1>4 DEF Versions
<1>6. QED BY <1>1, <1>3, <1>4, <1>5

-----------------------------------------------------------------------------
(* Versions at two nodes                                                   *)

\* Every link has the two nodes as its ends.
LEMMA TwoEnds ==
  ASSUME Orderly, NEW k \in Link
  PROVE  Node = {k[1], k[2]} /\ k[1] \in Node /\ k[2] \in Node /\ k[1] # k[2]
<1>1. PICK l \in Link : Node = {l[1], l[2]}
  BY DEF Orderly
<1>2. k[1] \in Node /\ k[2] \in Node /\ k[1] # k[2]
  BY LinkAssumption
<1>3. QED BY <1>1, <1>2

\* What the comparisons mean in the two components of a clock.
LEMMA Parts ==
  ASSUME Orderly, NEW k \in Link, NEW e \in Entry, NEW f \in Entry
  PROVE  LET c == e.clock
             d == f.clock
             same == c[k[1]] = d[k[1]] /\ c[k[2]] = d[k[2]]
         IN  /\ c[k[1]] \in Nat /\ c[k[2]] \in Nat /\ d[k[1]] \in Nat /\ d[k[2]] \in Nat
             /\ Equals(c, d) <=> same
             /\ AtMost(c, d) <=> c[k[1]] <= d[k[1]] /\ c[k[2]] <= d[k[2]]
             /\ HappensBefore(c, d) <=> AtMost(c, d) /\ ~same
             /\ Earlier(e, f) <=> AtMost(c, d) /\ (same => e.sum = f.sum)
             /\ Meet(k, e, f) <=> /\ d[k[1]] <= c[k[1]] /\ c[k[2]] <= d[k[2]]
                                  /\ same => e.sum = f.sum
<1> DEFINE c == e.clock
           d == f.clock
           same == c[k[1]] = d[k[1]] /\ c[k[2]] = d[k[2]]
<1>1. Node = {k[1], k[2]} /\ k[1] \in Node /\ k[2] \in Node
  BY TwoEnds
<1>2. c \in Clock /\ d \in Clock
  BY DEF Entry
<1>3. c[k[1]] \in Nat /\ c[k[2]] \in Nat /\ d[k[1]] \in Nat /\ d[k[2]] \in Nat
  BY <1>1, <1>2 DEF Clock
<1> HIDE DEF c, d
<1>4. Equals(c, d) <=> same
  BY <1>1 DEF Equals
<1>5. AtMost(c, d) <=> c[k[1]] <= d[k[1]] /\ c[k[2]] <= d[k[2]]
  BY <1>1 DEF AtMost
<1>6. HappensBefore(c, d) <=> AtMost(c, d) /\ ~same
  BY <1>1, <1>3, <1>5 DEF HappensBefore
<1>7. QED BY <1>3, <1>4, <1>5, <1>6 DEF Earlier, Meet, c, d

\* A version is replaced without a conflict only by a later one, and at all
\* only by one that knows something new (reconcile).
LEMMA Accepted ==
  ASSUME Orderly, NEW k \in Link, NEW e \in Entry, NEW f \in Entry
  PROVE  /\ Reconcile(e, f) = "accept_remote" => HappensBefore(e.clock, f.clock)
         /\ Accept(Strategy, e, f) =>
              \/ f.clock[k[1]] > e.clock[k[1]]
              \/ f.clock[k[2]] > e.clock[k[2]]
<1>1. Reconcile(e, f) = "accept_remote" => HappensBefore(e.clock, f.clock)
  BY DEF Reconcile
<1>2. Accept(Strategy, e, f) =>
        ~Equals(e.clock, f.clock) /\ ~HappensBefore(f.clock, e.clock)
  <2>1. Reconcile(e, f) = "conflict" =>
          ~Equals(e.clock, f.clock) /\ ~HappensBefore(f.clock, e.clock)
    BY DEF Reconcile
  <2>2. Reconcile(e, f) = "accept_remote" =>
          ~Equals(e.clock, f.clock) /\ ~HappensBefore(f.clock, e.clock)
    BY <1>1, Parts
  <2>3. QED BY <2>1, <2>2 DEF Accept
<1>3. QED BY <1>1, <1>2, Parts

\* A version is earlier than itself.
LEMMA EarlierSelf ==
  ASSUME NEW e \in Entry
  PROVE  Earlier(e, e)
<1>1. \A n \in Node : e.clock[n] \in Nat
  BY DEF Entry, Clock
<1>2. QED BY <1>1 DEF Earlier, AtMost

\* Whatever bears on p is an entry.
LEMMA ViewsTyped ==
  ASSUME TypeOK, NEW k \in Link, NEW p \in Path
  PROVE  /\ Mine(k, p) \in Entry /\ Theirs(k, p) \in Entry
         /\ Greeted(k, p) \subseteq Entry /\ Offered(k, p) \subseteq Entry
         /\ Wanted(k, p) \subseteq Entry /\ Replied(k, p) \subseteq Entry
         /\ Pushed(k, p) \subseteq Entry
         /\ Pulling(k, p) \subseteq Entry /\ Taking(k, p) \subseteq Entry
         /\ ini[k].remote[p] \in Entry /\ lis[k].remote[p] \in Entry
         /\ ini[k].snap[p] \in Entry
<1>1. ini[k] \in Initiator /\ lis[k] \in Listener /\ k[1] \in Node /\ k[2] \in Node
  BY Ends DEF TypeOK
<1>2. /\ ini[k].remote[p] \in Entry /\ lis[k].remote[p] \in Entry /\ ini[k].snap[p] \in Entry
      /\ ini[k].jobs \in Seq(Job) /\ lis[k].jobs \in Seq(Job)
  BY <1>1 DEF Initiator, Listener, Index
<1>3. up[k] \in Seq(Message) /\ down[k] \in Seq(Message)
  BY DEF TypeOK
<1>4. Mine(k, p) \in Entry /\ Theirs(k, p) \in Entry
  BY <1>1 DEF TypeOK, Index, Mine, Theirs
<1>5. Pulling(k, p) \subseteq Entry /\ Taking(k, p) \subseteq Entry
  BY <1>2, JobViews DEF Pulling, Taking
<1>6. /\ Greeted(k, p) \subseteq Entry /\ Offered(k, p) \subseteq Entry
      /\ Wanted(k, p) \subseteq Entry /\ Replied(k, p) \subseteq Entry
      /\ Pushed(k, p) \subseteq Entry
  BY <1>2, <1>3, ViewTypes DEF Greeted, Offered, Wanted, Replied, Pushed, If
<1>7. QED BY <1>2, <1>4, <1>5, <1>6

\* Where the coroutines are decides what can be under way.
LEMMA Phases ==
  ASSUME TypeOK, NEW k \in Link, StageInv(k), NEW p \in Path
  PROVE  /\ Pulling(k, p) # {} => Wanted(k, p) = {} /\ Replied(k, p) = {} /\ Pushed(k, p) = {}
         /\ Taking(k, p) # {} => Replied(k, p) = {}
         /\ Replied(k, p) # {} => Greeted(k, p) = {} /\ Wanted(k, p) = {}
         /\ Wanted(k, p) \subseteq Offered(k, p)
         /\ lis[k].pc = "accept" => Offered(k, p) = {} /\ Pulling(k, p) = {}
<1>1. /\ up[k] \in Seq(Message) /\ down[k] \in Seq(Message)
      /\ ini[k].jobs \in Seq(Job) /\ lis[k].jobs \in Seq(Job)
  BY DEF TypeOK, Initiator, Listener
<1>2. /\ Pulling(k, p) # {} =>
           /\ ini[k].pc \in {"delete", "pull"}
           /\ ini[k].pc = "pull" => p \notin ini[k].todo
      /\ Taking(k, p) # {} => lis[k].pc \in {"delete", "accept"}
  <2>1. Pulling(k, p) # {} => ini[k].jobs # <<>>
    BY EmptyViews DEF Pulling
  <2>2. Taking(k, p) # {} => lis[k].jobs # <<>>
    BY EmptyViews DEF Taking
  <2>3. Pulling(k, p) # {} => ini[k].jobs[1].path = p
    BY <1>1, <2>1, JobViews DEF StageInv, Pulling
  <2>4. QED BY <2>1, <2>2, <2>3 DEF StageInv
<1>3. Replied(k, p) # {} =>
        ini[k].pc = "wait" /\ lis[k].pc = "serve" /\ up[k] = <<>> /\ p \notin ini[k].todo
  BY DEF Replied, Sends, StageInv
<1>4. Asks(up[k], p) => ini[k].pc = "wait"
  BY DEF Asks, Items, StageInv
<1>5. Sends(up[k], p) # {} => ini[k].pc \in {"push", "idle"}
  BY DEF Sends, Items, StageInv
<1>6. Hellos(down[k], p) # {} => ini[k].pc = "hello"
  BY DEF Hellos, StageInv
<1>7. lis[k].pc = "accept" => ini[k].pc \in {"push", "idle"}
  BY DEF StageInv
<1>8. Pulling(k, p) # {} => Wanted(k, p) = {} /\ Replied(k, p) = {} /\ Pushed(k, p) = {}
  BY <1>2, <1>3, <1>4, <1>5 DEF Wanted, Pushed, If
<1>9. Replied(k, p) # {} => Greeted(k, p) = {} /\ Wanted(k, p) = {}
  BY <1>3, EmptyViews DEF Greeted, Wanted, If
<1>10. Wanted(k, p) \subseteq Offered(k, p)
  BY <1>4 DEF Wanted, Offered, If
<1>11. lis[k].pc = "accept" => Offered(k, p) = {} /\ Pulling(k, p) = {}
  BY <1>2, <1>6, <1>7 DEF Offered, If
<1>12. QED BY <1>2, <1>3, <1>8, <1>9, <1>10, <1>11

\* If no version changes and nothing new is under way, all stays as it was.
LEMMA Shrinks ==
  ASSUME NEW k \in Link, NEW p \in Path, ClockInv(k, p),
         Mine(k, p)' = Mine(k, p), Theirs(k, p)' = Theirs(k, p),
         Greeted(k, p)' \subseteq Greeted(k, p), Offered(k, p)' \subseteq Offered(k, p),
         Wanted(k, p)' \subseteq Wanted(k, p), Replied(k, p)' \subseteq Replied(k, p),
         Pushed(k, p)' \subseteq Pushed(k, p),
         Pulling(k, p)' \subseteq Pulling(k, p), Taking(k, p)' \subseteq Taking(k, p)
  PROVE  ClockInv(k, p)'
<1>1. Meet(k, Mine(k, p), Theirs(k, p))' /\ HelloInv(k, p)'
  BY DEF ClockInv, HelloInv
<1>2. PullInv(k, p)' /\ TakeInv(k, p)'
  BY DEF ClockInv, PullInv, TakeInv
<1>3. ReplyInv(k, p)' /\ PushInv(k, p)'
  BY DEF ClockInv, ReplyInv, PushInv
<1>4. QED BY <1>1, <1>2, <1>3 DEF ClockInv

-----------------------------------------------------------------------------
(* What the steps of a session do to the versions of p                     *)

\* The watcher of the initiator makes a version: nobody has its like.
LEMMA MineGrows ==
  ASSUME Orderly, TypeOK, TypeOK', NEW k \in Link, NEW p \in Path, ClockInv(k, p),
         Mine(k, p)'.clock = Increment(Mine(k, p).clock, k[1]),
         Theirs(k, p)' = Theirs(k, p), UNCHANGED <<ini, lis, up, down>>
  PROVE  ClockInv(k, p)'
<1> DEFINE a == k[1]
           b == k[2]
           C == Mine(k, p)
           S == Theirs(k, p)
<1>1. PICK D \in Entry : D = Mine(k, p)'
  BY TwoEnds DEF TypeOK, Index, Mine
<1>2. C \in Entry /\ S \in Entry /\ D \in Entry
  BY ViewsTyped
<1>3. D.clock[a] = C.clock[a] + 1 /\ D.clock[b] = C.clock[b]
  <2>1. C.clock \in Clock /\ a \in Node /\ b \in Node /\ a # b
    BY <1>2, TwoEnds DEF Entry
  <2>2. QED BY <1>1, <2>1 DEF Increment, Clock
<1>4. ASSUME NEW e \in Entry, Earlier(e, C)
      PROVE  Earlier(e, D)
  BY <1>2, <1>3, <1>4, Parts
<1>5. ASSUME NEW e \in Entry, Meet(k, C, e)
      PROVE  Meet(k, D, e)
  BY <1>2, <1>3, <1>5, Parts
<1>6. /\ Greeted(k, p)' = Greeted(k, p) /\ Offered(k, p)' = Offered(k, p)
      /\ Wanted(k, p)' = Wanted(k, p) /\ Replied(k, p)' = Replied(k, p)
      /\ Pushed(k, p)' = Pushed(k, p)
      /\ Pulling(k, p)' = Pulling(k, p) /\ Taking(k, p)' = Taking(k, p)
  BY DEF Greeted, Offered, Wanted, Replied, Pushed, Pulling, Taking
<1> HIDE DEF C, S
<1>7. /\ Meet(k, C, S)
      /\ HelloInv(k, p) /\ PullInv(k, p) /\ TakeInv(k, p) /\ ReplyInv(k, p) /\ PushInv(k, p)
  BY DEF ClockInv, C, S
<1>8. /\ Greeted(k, p) \subseteq Entry /\ Taking(k, p) \subseteq Entry
      /\ Pushed(k, p) \subseteq Entry
  BY ViewsTyped
<1>9. Meet(k, D, S) /\ HelloInv(k, p)'
  BY <1>1, <1>2, <1>4, <1>5, <1>6, <1>7, <1>8 DEF HelloInv, C
<1>10. PullInv(k, p)' /\ ReplyInv(k, p)'
  BY <1>1, <1>3, <1>6, <1>7 DEF PullInv, ReplyInv, C
<1>11. TakeInv(k, p)'
  BY <1>1, <1>5, <1>6, <1>7, <1>8 DEF TakeInv, C
<1>12. PushInv(k, p)'
  BY <1>1, <1>3, <1>4, <1>6, <1>7, <1>8 DEF PushInv, C
<1>13. QED BY <1>1, <1>9, <1>10, <1>11, <1>12 DEF ClockInv, S

\* The watcher of the listener does.
LEMMA TheirsGrows ==
  ASSUME Orderly, TypeOK, TypeOK', NEW k \in Link, NEW p \in Path, ClockInv(k, p),
         Theirs(k, p)'.clock = Increment(Theirs(k, p).clock, k[2]),
         Mine(k, p)' = Mine(k, p), UNCHANGED <<ini, lis, up, down>>
  PROVE  ClockInv(k, p)'
<1> DEFINE a == k[1]
           b == k[2]
           C == Mine(k, p)
           S == Theirs(k, p)
<1>1. PICK D \in Entry : D = Theirs(k, p)'
  BY TwoEnds DEF TypeOK, Index, Theirs
<1>2. C \in Entry /\ S \in Entry /\ D \in Entry
  BY ViewsTyped
<1>3. D.clock[a] = S.clock[a] /\ D.clock[b] = S.clock[b] + 1
  <2>1. S.clock \in Clock /\ a \in Node /\ b \in Node /\ a # b
    BY <1>2, TwoEnds DEF Entry
  <2>2. QED BY <1>1, <2>1 DEF Increment, Clock
<1>4. ASSUME NEW e \in Entry, Earlier(e, S)
      PROVE  Earlier(e, D)
  BY <1>2, <1>3, <1>4, Parts
<1>5. ASSUME NEW e \in Entry, Meet(k, e, S)
      PROVE  Meet(k, e, D)
  BY <1>2, <1>3, <1>5, Parts
<1>6. /\ Greeted(k, p)' = Greeted(k, p) /\ Offered(k, p)' = Offered(k, p)
      /\ Wanted(k, p)' = Wanted(k, p) /\ Replied(k, p)' = Replied(k, p)
      /\ Pushed(k, p)' = Pushed(k, p)
      /\ Pulling(k, p)' = Pulling(k, p) /\ Taking(k, p)' = Taking(k, p)
  BY DEF Greeted, Offered, Wanted, Replied, Pushed, Pulling, Taking
<1> HIDE DEF C, S
<1>7. /\ Meet(k, C, S)
      /\ HelloInv(k, p) /\ PullInv(k, p) /\ TakeInv(k, p) /\ ReplyInv(k, p) /\ PushInv(k, p)
  BY DEF ClockInv, C, S
<1>8. /\ Offered(k, p) \subseteq Entry /\ Pulling(k, p) \subseteq Entry
      /\ Replied(k, p) \subseteq Entry
  BY ViewsTyped
<1>9. Meet(k, C, D) /\ HelloInv(k, p)'
  BY <1>1, <1>2, <1>4, <1>5, <1>6, <1>7, <1>8 DEF HelloInv, S
<1>10. PullInv(k, p)'
  BY <1>1, <1>5, <1>6, <1>7, <1>8 DEF PullInv, S
<1>11. TakeInv(k, p)' /\ PushInv(k, p)'
  BY <1>1, <1>3, <1>6, <1>7 DEF TakeInv, PushInv, S
<1>12. ReplyInv(k, p)'
  BY <1>1, <1>3, <1>4, <1>6, <1>7, <1>8 DEF ReplyInv, S
<1>13. QED BY <1>1, <1>9, <1>10, <1>11, <1>12 DEF ClockInv, C

\* A version is about to be installed by the initiator.
LEMMA PullStarts ==
  ASSUME NEW k \in Link, NEW p \in Path, ClockInv(k, p),
         Mine(k, p)' = Mine(k, p), Theirs(k, p)' = Theirs(k, p),
         Greeted(k, p)' \subseteq Greeted(k, p), Offered(k, p)' \subseteq Offered(k, p),
         Wanted(k, p)' \subseteq Wanted(k, p), Replied(k, p)' \subseteq Replied(k, p),
         Pushed(k, p)' \subseteq Pushed(k, p), Taking(k, p)' \subseteq Taking(k, p),
         NEW e,
         /\ Meet(k, e, Theirs(k, p))
         /\ e.clock[k[2]] > Mine(k, p).clock[k[2]]
         /\ \A h \in Greeted(k, p) : Earlier(h, e)
         /\ \A f \in Taking(k, p) : Meet(k, e, f),
         Pulling(k, p)' \subseteq {e}
  PROVE  ClockInv(k, p)'
<1>1. Meet(k, Mine(k, p), Theirs(k, p))' /\ HelloInv(k, p)' /\ TakeInv(k, p)'
  BY DEF ClockInv, HelloInv, TakeInv
<1>2. PullInv(k, p)'
  BY DEF PullInv
<1>3. ReplyInv(k, p)' /\ PushInv(k, p)'
  BY DEF ClockInv, ReplyInv, PushInv
<1>4. QED BY <1>1, <1>2, <1>3 DEF ClockInv

\* The same for the listener.
LEMMA TakeStarts ==
  ASSUME NEW k \in Link, NEW p \in Path, ClockInv(k, p),
         Mine(k, p)' = Mine(k, p), Theirs(k, p)' = Theirs(k, p),
         Greeted(k, p)' \subseteq Greeted(k, p), Offered(k, p)' \subseteq Offered(k, p),
         Wanted(k, p)' \subseteq Wanted(k, p), Replied(k, p)' \subseteq Replied(k, p),
         Pushed(k, p)' \subseteq Pushed(k, p), Pulling(k, p)' \subseteq Pulling(k, p),
         NEW f,
         /\ Meet(k, Mine(k, p), f)
         /\ f.clock[k[1]] > Theirs(k, p).clock[k[1]]
         /\ \A r \in Offered(k, p) : Earlier(r, f)
         /\ \A e \in Pulling(k, p) : Meet(k, e, f),
         Taking(k, p)' \subseteq {f}
  PROVE  ClockInv(k, p)'
<1>1. Meet(k, Mine(k, p), Theirs(k, p))' /\ HelloInv(k, p)' /\ TakeInv(k, p)'
  BY DEF ClockInv, HelloInv, TakeInv
<1>2. PullInv(k, p)'
  BY DEF ClockInv, PullInv
<1>3. ReplyInv(k, p)' /\ PushInv(k, p)'
  BY DEF ClockInv, ReplyInv, PushInv
<1>4. QED BY <1>1, <1>2, <1>3 DEF ClockInv

\* The initiator deletes what the listener has deleted since.
LEMMA DeleteMine ==
  ASSUME Orderly, TypeOK, NEW k \in Link, NEW p \in Path, ClockInv(k, p),
         NEW e \in Offered(k, p), HappensBefore(Mine(k, p).clock, e.clock)
  PROVE  /\ Meet(k, e, Theirs(k, p))
         /\ e.clock[k[2]] > Mine(k, p).clock[k[2]]
         /\ \A h \in Greeted(k, p) : Earlier(h, e)
         /\ \A f \in Taking(k, p) : Meet(k, e, f)
<1> DEFINE C == Mine(k, p)
           S == Theirs(k, p)
<1>1. /\ C \in Entry /\ S \in Entry /\ e \in Entry
      /\ Greeted(k, p) \subseteq Entry /\ Taking(k, p) \subseteq Entry
  BY ViewsTyped
<1>2. Meet(k, C, S) /\ Earlier(e, S)
  BY DEF ClockInv, HelloInv
<1>3. Meet(k, e, S) /\ e.clock[k[2]] > C.clock[k[2]] /\ C.clock[k[1]] <= e.clock[k[1]]
  BY <1>1, <1>2, Parts
<1>4. ASSUME NEW h \in Greeted(k, p) PROVE Earlier(h, e)
  <2>1. Earlier(h, C) /\ h \in Entry
    BY <1>1 DEF ClockInv, HelloInv
  <2>2. QED BY <1>1, <2>1, Parts
<1>5. ASSUME NEW f \in Taking(k, p) PROVE Meet(k, e, f)
  <2>1. Meet(k, C, f) /\ Earlier(e, f) /\ f \in Entry
    BY <1>1 DEF ClockInv, TakeInv
  <2>2. QED BY <1>1, <1>3, <2>1, Parts
<1>6. QED BY <1>3, <1>4, <1>5

\* The listener deletes what the initiator has deleted since.
LEMMA DeleteTheirs ==
  ASSUME Orderly, TypeOK, NEW k \in Link, NEW p \in Path, ClockInv(k, p),
         NEW f \in Greeted(k, p), HappensBefore(Theirs(k, p).clock, f.clock)
  PROVE  /\ Meet(k, Mine(k, p), f)
         /\ f.clock[k[1]] > Theirs(k, p).clock[k[1]]
         /\ \A r \in Offered(k, p) : Earlier(r, f)
         /\ \A e \in Pulling(k, p) : Meet(k, e, f)
<1> DEFINE C == Mine(k, p)
           S == Theirs(k, p)
<1>1. /\ C \in Entry /\ S \in Entry /\ f \in Entry
      /\ Offered(k, p) \subseteq Entry /\ Pulling(k, p) \subseteq Entry
  BY ViewsTyped
<1>2. Meet(k, C, S) /\ Earlier(f, C)
  BY DEF ClockInv, HelloInv
<1>3. Meet(k, C, f) /\ f.clock[k[1]] > S.clock[k[1]] /\ S.clock[k[2]] <= f.clock[k[2]]
  BY <1>1, <1>2, Parts
<1>4. ASSUME NEW r \in Offered(k, p) PROVE Earlier(r, f)
  <2>1. Earlier(r, S) /\ r \in Entry
    BY <1>1 DEF ClockInv, HelloInv
  <2>2. QED BY <1>1, <2>1, Parts
<1>5. ASSUME NEW e \in Pulling(k, p) PROVE Meet(k, e, f)
  <2>1. Meet(k, e, S) /\ Earlier(f, e) /\ e \in Entry
    BY <1>1 DEF ClockInv, PullInv
  <2>2. QED BY <1>1, <1>3, <2>1, Parts
<1>6. QED BY <1>3, <1>4, <1>5

\* The initiator installs a version.
LEMMA MineInstalled ==
  ASSUME Orderly, TypeOK, NEW k \in Link, NEW p \in Path, StageInv(k), ClockInv(k, p),
         NEW e \in Pulling(k, p),
         Mine(k, p)'.clock = e.clock, Mine(k, p)'.sum = e.sum,
         Theirs(k, p)' = Theirs(k, p),
         Greeted(k, p)' \subseteq Greeted(k, p), Offered(k, p)' \subseteq Offered(k, p),
         Wanted(k, p)' \subseteq Wanted(k, p), Replied(k, p)' \subseteq Replied(k, p),
         Pushed(k, p)' \subseteq Pushed(k, p),
         Pulling(k, p)' = {}, Taking(k, p)' \subseteq Taking(k, p)
  PROVE  ClockInv(k, p)' /\ ~HappensBefore(Mine(k, p)'.clock, Mine(k, p).clock)
<1>1. Wanted(k, p) = {} /\ Replied(k, p) = {} /\ Pushed(k, p) = {}
  BY Phases
<1>2. PICK D : D = Mine(k, p)'
  OBVIOUS
<1>3. \A g : /\ Meet(k, e, g) => Meet(k, D, g)
             /\ Earlier(g, e) => Earlier(g, D)
  BY <1>2 DEF Meet, Earlier
<1>4. Meet(k, e, Theirs(k, p)) /\ e.clock[k[2]] > Mine(k, p).clock[k[2]]
  BY DEF ClockInv, PullInv
<1>5. Meet(k, Mine(k, p), Theirs(k, p))' /\ HelloInv(k, p)'
  BY <1>2, <1>3, <1>4 DEF ClockInv, HelloInv, PullInv
<1>6. TakeInv(k, p)'
  BY <1>2, <1>3 DEF ClockInv, TakeInv, PullInv
<1>7. PullInv(k, p)' /\ ReplyInv(k, p)' /\ PushInv(k, p)'
  BY <1>1 DEF PullInv, ReplyInv, PushInv
<1>8. ~HappensBefore(e.clock, Mine(k, p).clock)
  <2>1. e \in Entry /\ Mine(k, p) \in Entry
    BY ViewsTyped
  <2>2. QED BY <1>4, <2>1, Parts
<1>9. QED BY <1>5, <1>6, <1>7, <1>8 DEF ClockInv

\* The listener installs one.
LEMMA TheirsInstalled ==
  ASSUME Orderly, TypeOK, NEW k \in Link, NEW p \in Path, StageInv(k), ClockInv(k, p),
         NEW f \in Taking(k, p),
         Theirs(k, p)'.clock = f.clock, Theirs(k, p)'.sum = f.sum,
         Mine(k, p)' = Mine(k, p),
         Greeted(k, p)' \subseteq Greeted(k, p), Offered(k, p)' \subseteq Offered(k, p),
         Wanted(k, p)' \subseteq Wanted(k, p), Replied(k, p)' \subseteq Replied(k, p),
         Pushed(k, p)' \subseteq Pushed(k, p),
         Pulling(k, p)' \subseteq Pulling(k, p), Taking(k, p)' = {}
  PROVE  ClockInv(k, p)' /\ ~HappensBefore(Theirs(k, p)'.clock, Theirs(k, p).clock)
<1>1. Replied(k, p) = {}
  BY Phases
<1>2. PICK D : D = Theirs(k, p)'
  OBVIOUS
<1>3. \A g : /\ Meet(k, g, f) => Meet(k, g, D)
             /\ Earlier(g, f) => Earlier(g, D)
  BY <1>2 DEF Meet, Earlier
<1>4. Meet(k, Mine(k, p), f) /\ f.clock[k[1]] > Theirs(k, p).clock[k[1]]
  BY DEF ClockInv, TakeInv
<1>5. Meet(k, Mine(k, p), Theirs(k, p))' /\ HelloInv(k, p)'
  BY <1>2, <1>3, <1>4 DEF ClockInv, HelloInv, TakeInv
<1>6. PullInv(k, p)'
  BY <1>2, <1>3 DEF ClockInv, TakeInv, PullInv
<1>7. TakeInv(k, p)' /\ ReplyInv(k, p)' /\ PushInv(k, p)'
  BY <1>1 DEF ClockInv, TakeInv, ReplyInv, PushInv
<1>8. ~HappensBefore(f.clock, Theirs(k, p).clock)
  <2>1. f \in Entry /\ Theirs(k, p) \in Entry
    BY ViewsTyped
  <2>2. QED BY <1>4, <2>1, Parts
<1>9. QED BY <1>5, <1>6, <1>7, <1>8 DEF ClockInv

-----------------------------------------------------------------------------
(* The steps of the initiator                                              *)

\* Nothing is known on a link that is idle.
LEMMA IdleViews ==
  ASSUME TypeOK, NEW k \in Link, StageInv(k), Idle(k)
  PROVE  up[k] = <<>> /\ down[k] = <<>> /\ ini[k].jobs = <<>> /\ lis[k].jobs = <<>>
  BY DEF Idle, StageInv

\* The initiator opens a session.
LEMMA ConnectKeeps ==
  ASSUME SessionInv, NEW k \in Link, Connect(k)
  PROVE  Kept(k)
<1>1. TypeOK /\ StageInv(k) /\ (\A p \in Path : ClockInv(k, p)) /\ k[1] \in Node
  BY Ends DEF SessionInv
<1>2. /\ Idle(k) /\ up[k] = <<>> /\ down[k] = <<>>
      /\ ini[k].jobs = <<>> /\ lis[k].jobs = <<>>
  BY <1>1, IdleViews DEF Connect
<1>3. PICK m \in Message : m = Hello(k[1])
  BY <1>1 DEF Hello, Message, TypeOK
<1>4. m.type = "HELLO" /\ m.index = index[k[1]]
  BY <1>3 DEF Hello
<1>5. /\ up'[k] = <<m>> /\ down' = down /\ lis' = lis /\ index' = index /\ disk' = disk
      /\ ini'[k] = [ini[k] EXCEPT !.pc = "hello"]
  BY <1>1, <1>2, <1>3 DEF Connect, Send, TypeOK, files
<1>6. ini[k] \in Initiator
  BY <1>1 DEF TypeOK
<1>7. /\ ini'[k].pc = "hello" /\ ini'[k].remote = ini[k].remote /\ ini'[k].snap = ini[k].snap
      /\ ini'[k].jobs = <<>> /\ ini'[k].moves = {}
  BY <1>1, <1>2, <1>5, <1>6 DEF Initiator, StageInv
<1>8. StageInv(k)'
  <2>1. Len(up'[k]) = 1 /\ up'[k][1] = m
    BY <1>5
  <2>2. lis[k].pc = "idle"
    BY <1>2 DEF Idle
  <2>3. Items(down'[k]) = {} /\ Len(down'[k]) = 0
    BY <1>2, <1>5, ItemsOf
  <2>4. QED BY <1>2, <1>4, <1>5, <1>7, <2>1, <2>2, <2>3 DEF StageInv
<1>9. Items(up'[k]) = {m} /\ Items(down'[k]) = {}
  BY <1>2, <1>5, ItemsOf DEF Items
<1>10. ASSUME NEW p \in Path PROVE ClockInv(k, p)'
  <2>1. /\ Mine(k, p)' = Mine(k, p) /\ Theirs(k, p)' = Theirs(k, p)
        /\ Mine(k, p) \in Entry
    BY <1>1, <1>5, ViewsTyped DEF Mine, Theirs
  <2>2. Greeted(k, p)' = {Mine(k, p)}
    BY <1>2, <1>4, <1>5, <1>9 DEF Greeted, Hellos, Mine, Idle, If
  <2>3. Offered(k, p)' = {} /\ Replied(k, p)' = {}
    BY <1>7, <1>9 DEF Offered, Replied, Hellos, Sends, If
  <2>4. Wanted(k, p)' = {} /\ Pushed(k, p)' = {}
    BY <1>4, <1>7, <1>9 DEF Wanted, Pushed, Asks, Sends, If
  <2>5. Pulling(k, p)' = {} /\ Taking(k, p)' = {}
    BY <1>2, <1>5, <1>7, EmptyViews DEF Pulling, Taking
  <2>6. Earlier(Mine(k, p), Mine(k, p)) /\ Meet(k, Mine(k, p), Theirs(k, p))
    BY <1>1, <2>1, EarlierSelf DEF ClockInv
  <2>7. QED BY <2>1, <2>2, <2>3, <2>4, <2>5, <2>6
            DEF ClockInv, HelloInv, PullInv, TakeInv, ReplyInv, PushInv
<1>11. ASSUME NEW p \in Path, NEW x \in Nat, (InFiles(p, x) \/ InSession(k, p, x))'
       PROVE  Has(p, x)
  <2>1. Carries(m, p, x) => InFiles(p, x)
    BY <1>1, <1>4 DEF Carries, InFiles
  <2>2. InFiles(p, x)' => InFiles(p, x)
    BY <1>5 DEF InFiles
  <2>3. InSession(k, p, x)' => InSession(k, p, x) \/ Carries(m, p, x)
    BY <1>2, <1>5, <1>7, <1>9, ItemsOf DEF InSession
  <2>4. QED BY <1>11, <2>1, <2>2, <2>3 DEF Has
<1>12. QED BY <1>8, <1>10, <1>11 DEF Kept

\* The initiator reads the listener's HELLO.
LEMMA InitiatorHelloKeeps ==
  ASSUME SessionInv, NEW k \in Link, InitiatorHello(k)
  PROVE  Kept(k)
<1>1. TypeOK /\ StageInv(k) /\ (\A p \in Path : ClockInv(k, p)) /\ k[1] \in Node
  BY Ends DEF SessionInv
<1>2. /\ ini[k] \in Initiator /\ up[k] \in Seq(Message) /\ down[k] \in Seq(Message)
      /\ ini[k].pc = "hello" /\ down[k] # <<>> /\ Head(down[k]).type = "HELLO"
  BY <1>1 DEF InitiatorHello, Got, TypeOK
<1>3. Len(down[k]) = 1 /\ Items(down[k]) = {Head(down[k])} /\ Tail(down[k]) = <<>>
  <2>1. Len(down[k]) <= 1
    BY <1>1 DEF StageInv
  <2>2. PICK n \in Nat : n = Len(down[k])
    BY <1>2, LenProperties
  <2>3. n # 0 /\ n <= 1
    BY <1>2, <2>1, <2>2, EmptySeq
  <2>4. n = 1
    BY <2>3
  <2>5. Len(down[k]) = 1
    BY <2>2, <2>4
  <2>6. QED BY <1>2, <2>5, ItemsOf
<1>4. PICK m \in Message : m = Head(down[k])
  BY <1>2, TailWire
<1>5. m.index \in Index
  BY <1>2, <1>4, MessageFields
<1>6. PICK r : r = [ini[k] EXCEPT !.pc = "delete", !.remote = m.index,
                                  !.todo = Tombstones(m.index)]
  OBVIOUS
<1>7. /\ ini'[k] = r /\ down'[k] = <<>> /\ up' = up /\ lis' = lis
      /\ index' = index /\ disk' = disk
  BY <1>1, <1>3, <1>4, <1>6 DEF InitiatorHello, TypeOK, files
<1>8. /\ r.pc = "delete" /\ r.remote = m.index /\ r.snap = ini[k].snap
      /\ r.jobs = <<>> /\ r.moves = {}
  BY <1>1, <1>2, <1>6 DEF Initiator, StageInv
<1>9. StageInv(k)'
  <2>1. Items(down'[k]) = {} /\ Len(down'[k]) = 0 /\ lis[k].pc \notin {"idle", "accept"}
    BY <1>1, <1>2, <1>3, <1>7, ItemsOf DEF StageInv
  <2>2. \A i \in 1..Len(up[k]) : up[k][i].type \notin {"GET_FILE", "ACK", "SYNC_DONE", "FILE_DATA"}
    BY <1>1, <1>2 DEF StageInv
  <2>3. QED BY <1>1, <1>7, <1>8, <2>1, <2>2 DEF StageInv
<1>10. ASSUME NEW p \in Path PROVE ClockInv(k, p)'
  <2>1. Mine(k, p)' = Mine(k, p) /\ Theirs(k, p)' = Theirs(k, p)
    BY <1>7 DEF Mine, Theirs
  <2>2. /\ Hellos(down[k], p) = {m.index[p]} /\ Hellos(<<>>, p) = {} /\ Sends(<<>>, p) = {}
        /\ ~Asks(up[k], p) /\ Sends(up[k], p) = {}
    <3>1. Hellos(down[k], p) = {m.index[p]}
      BY <1>2, <1>3, <1>4 DEF Hellos
    <3>2. \A n \in Items(up[k]) : n.type \notin {"GET_FILE", "FILE_DATA"}
      BY <1>1, <1>2 DEF StageInv, Items
    <3>3. QED BY <3>1, <3>2, EmptyViews DEF Asks, Sends
  <2>3. /\ Greeted(k, p)' = Greeted(k, p) /\ Offered(k, p)' = Offered(k, p)
    BY <1>2, <1>7, <1>8, <2>2 DEF Greeted, Offered, If
  <2>4. /\ Wanted(k, p)' = {} /\ Replied(k, p)' = {} /\ Pushed(k, p)' = {}
    BY <1>7, <1>8, <2>2 DEF Wanted, Replied, Pushed, If
  <2>5. Pulling(k, p)' = {} /\ Taking(k, p)' = Taking(k, p)
    BY <1>7, <1>8, EmptyViews DEF Pulling, Taking
  <2>6. ClockInv(k, p)
    BY <1>1
  <2>7. QED BY <2>1, <2>3, <2>4, <2>5, <2>6, Shrinks
<1>11. ASSUME NEW p \in Path, NEW x \in Nat, (InFiles(p, x) \/ InSession(k, p, x))'
       PROVE  Has(p, x)
  <2>1. InFiles(p, x)' => InFiles(p, x)
    BY <1>7 DEF InFiles
  <2>2. Is(m.index[p], x) => InSession(k, p, x)
    BY <1>2, <1>3, <1>4 DEF InSession, Carries
  <2>3. InSession(k, p, x)' => InSession(k, p, x)
    BY <1>7, <1>8, <2>2, ItemsOf DEF InSession
  <2>4. QED BY <1>11, <2>1, <2>3 DEF Has
<1>12. QED BY <1>9, <1>10, <1>11 DEF Kept

\* The initiator decides about a deletion.
LEMMA InitiatorDeletionKeeps ==
  ASSUME Orderly, SessionInv, NEW k \in Link, NEW q \in Path, InitiatorDeletion(k, q)
  PROVE  Kept(k)
<1>1. TypeOK /\ StageInv(k) /\ (\A p \in Path : ClockInv(k, p)) /\ k[1] \in Node
  BY Ends DEF SessionInv
<1>2. /\ ini[k] \in Initiator /\ up[k] \in Seq(Message) /\ down[k] \in Seq(Message)
      /\ ini[k].pc = "delete" /\ ini[k].jobs = <<>> /\ ini[k].remote \in Index
  BY <1>1 DEF InitiatorDeletion, At, TypeOK, Initiator
<1>3. PICK e \in Entry : e = ini[k].remote[q]
  BY <1>2 DEF Index
<1>4. PICK s \in Seq(Job) : s = Deletion(k[1], ini[k].remote, q)
  BY <1>1, <1>2, DeletionType
<1>5. PICK r : r = [ini[k] EXCEPT !.todo = @ \ {q}, !.jobs = s]
  OBVIOUS
<1>6. /\ ini'[k] = r /\ down' = down /\ up' = up /\ lis' = lis
      /\ index' = index /\ disk' = disk
  BY <1>1, <1>4, <1>5 DEF InitiatorDeletion, TypeOK, wires
<1>7. /\ r.pc = "delete" /\ r.remote = ini[k].remote /\ r.snap = ini[k].snap
      /\ r.jobs = s /\ r.moves = {} /\ r.todo = ini[k].todo \ {q}
  BY <1>1, <1>2, <1>5 DEF Initiator, StageInv
<1>8. \/ s = <<>>
      \/ s = <<Apply(q, e, NoSum)>> /\ HappensBefore(Mine(k, q).clock, e.clock)
  <2>1. CASE Confirmed(k[1], ini[k].remote, q)
    <3>1. Mine(k, q) \in Entry
      BY <1>1, ViewsTyped
    <3>2. Reconcile(Mine(k, q), e) = "accept_remote"
      BY <1>3, <2>1 DEF Confirmed, Superseded, Mine
    <3>3. HappensBefore(Mine(k, q).clock, e.clock)
      BY <3>1, <3>2, Accepted
    <3>4. QED BY <1>3, <1>4, <2>1, <3>3 DEF Deletion
  <2>2. QED BY <1>4, <2>1 DEF Deletion
<1>9. NoSum \in Nat /\ Items(s) \subseteq {Apply(q, e, NoSum)} /\ (s # <<>> => Len(s) = 1)
  BY <1>8, OneJob, ItemsOf DEF NoSum
<1> DEFINE j == <<Apply(q, e, NoSum)>>
<1>10. \A p \in Path : /\ q = p => Versions(j, p) = {e}
                       /\ q # p => Versions(j, p) = {}
                       /\ Versions(<<>>, p) = {}
  BY <1>9, OneJob, EmptyViews
<1>11. s = <<>> \/ s = j
  BY <1>8
<1> HIDE DEF j
<1>12. StageInv(k)'
  BY <1>1, <1>2, <1>6, <1>7, <1>9 DEF StageInv
<1>13. ASSUME NEW p \in Path PROVE ClockInv(k, p)'
  <2>1. Mine(k, p)' = Mine(k, p) /\ Theirs(k, p)' = Theirs(k, p)
    BY <1>6 DEF Mine, Theirs
  <2>2. Greeted(k, p)' = Greeted(k, p) /\ Offered(k, p)' = Offered(k, p)
    BY <1>2, <1>6, <1>7 DEF Greeted, Offered, If
  <2>3. /\ Wanted(k, p)' \subseteq Wanted(k, p) /\ Replied(k, p)' = Replied(k, p)
        /\ Pushed(k, p)' = Pushed(k, p) /\ Taking(k, p)' = Taking(k, p)
    BY <1>2, <1>6, <1>7 DEF Wanted, Replied, Pushed, Taking, If
  <2>4. ClockInv(k, p)
    BY <1>1
  <2>5. Pulling(k, p)' = Versions(s, p)
    BY <1>6, <1>7 DEF Pulling
  <2>6. CASE s = <<>> \/ p # q
    <3>1. Pulling(k, p)' = {}
      BY <1>10, <1>11, <2>5, <2>6
    <3>2. QED BY <2>1, <2>2, <2>3, <2>4, <3>1, Shrinks
  <2>7. CASE s # <<>> /\ p = q
    <3>1. HappensBefore(Mine(k, p).clock, e.clock) /\ Pulling(k, p)' = {e}
      BY <1>8, <1>10, <1>11, <2>5, <2>7
    <3>2. e \in Offered(k, p)
      BY <1>2, <1>3, <2>7 DEF Offered, If
    <3>3. /\ Meet(k, e, Theirs(k, p))
          /\ e.clock[k[2]] > Mine(k, p).clock[k[2]]
          /\ \A h \in Greeted(k, p) : Earlier(h, e)
          /\ \A f \in Taking(k, p) : Meet(k, e, f)
      BY <1>1, <2>4, <3>1, <3>2, DeleteMine
    <3>4. QED BY <2>1, <2>2, <2>3, <2>4, <3>1, <3>3, PullStarts
  <2>8. QED BY <2>6, <2>7
<1>14. ASSUME NEW p \in Path, NEW x \in Nat, (InFiles(p, x) \/ InSession(k, p, x))'
       PROVE  Has(p, x)
  <2>1. InFiles(p, x)' => InFiles(p, x)
    BY <1>6 DEF InFiles
  <2>2. Brings(Apply(q, e, NoSum), p, x) => InSession(k, p, x)
    BY <1>3 DEF Brings, Apply, InSession
  <2>3. InSession(k, p, x)' => InSession(k, p, x)
    BY <1>6, <1>7, <1>9, <2>2 DEF InSession
  <2>4. QED BY <1>14, <2>1, <2>3 DEF Has
<1>15. QED BY <1>12, <1>13, <1>14 DEF Kept

\* Without second names there is nothing to rename.
LEMMA NoMoves ==
  ASSUME TypeOK, NameInv, NEW k \in Link, NEW to \in [Path -> Path],
         Target(index[k[1]], ini[k].remote, to)
  PROVE  /\ RemoteMoves(index[k[1]], ini[k].remote, to) = {}
         /\ LocalMoves(index[k[1]], ini[k].remote, to) = {}
<1> DEFINE local == index[k[1]]
           remote == ini[k].remote
<1>1. k[1] \in Node /\ local \in Index /\ remote \in Index
  BY Ends DEF TypeOK, Initiator
<1>2. ASSUME NEW p \in Path, NEW q \in PathsOf(remote, local[p].sum), Live(local[p])
      PROVE  p = q
  <2>1. PICK x \in Nat : x = local[p].sum
    BY <1>1 DEF Index, Entry
  <2>2. q \in Path /\ Is(local[p], x) /\ Is(remote[q], x)
    BY <1>2, <2>1 DEF PathsOf, Is
  <2>3. InFiles(p, x) /\ InSession(k, q, x)
    BY <1>1, <2>2 DEF InFiles, InSession
  <2>4. QED BY <2>2, <2>3 DEF NameInv, Has
<1>3. RemoteMoves(local, remote, to) = {}
  <2>1. ASSUME NEW p \in Path, Live(local[p]), Dead(remote[p]),
               PathsOf(remote, local[p].sum) # {}
        PROVE  FALSE
    <3>1. PICK q : q \in PathsOf(remote, local[p].sum)
      BY <2>1
    <3>2. p \in PathsOf(remote, local[p].sum)
      BY <1>2, <2>1, <3>1
    <3>3. QED BY <2>1, <3>2 DEF PathsOf, Live, Dead
  <2>2. QED BY <2>1 DEF RemoteMoves
<1>4. LocalMoves(local, remote, to) = {}
  <2>1. ASSUME NEW p \in Path, Live(local[p]), PathsOf(remote, local[p].sum) # {}
        PROVE  to[p] = p
    <3>1. to[p] \in PathsOf(remote, local[p].sum)
      BY <2>1 DEF Target
    <3>2. QED BY <1>2, <2>1, <3>1
  <2>2. QED BY <2>1 DEF LocalMoves
<1>5. QED BY <1>3, <1>4

\* The initiator looks for renames.
LEMMA FindRenamesKeeps ==
  ASSUME SessionInv, NEW k \in Link, NEW to \in [Path -> Path], FindRenames(k, to)
  PROVE  Kept(k)
<1>1. TypeOK /\ StageInv(k) /\ (\A p \in Path : ClockInv(k, p)) /\ NameInv
  BY DEF SessionInv
<1>2. ini[k] \in Initiator /\ ini[k].pc = "delete" /\ ini[k].jobs = <<>>
  BY <1>1 DEF FindRenames, At, TypeOK
<1>3. RemoteMoves(index[k[1]], ini[k].remote, to) = {}
  BY <1>1, NoMoves DEF FindRenames
<1>4. PICK r : r = [ini[k] EXCEPT !.pc = "rename", !.moves = {}]
  OBVIOUS
<1>5. /\ ini'[k] = r /\ down' = down /\ up' = up /\ lis' = lis
      /\ index' = index /\ disk' = disk
  BY <1>1, <1>3, <1>4 DEF FindRenames, TypeOK, wires, files
<1>6. /\ r.pc = "rename" /\ r.remote = ini[k].remote /\ r.snap = ini[k].snap
      /\ r.jobs = <<>> /\ r.moves = {} /\ r.todo = ini[k].todo
  BY <1>2, <1>4 DEF Initiator
<1>7. StageInv(k)'
  BY <1>1, <1>2, <1>5, <1>6 DEF StageInv
<1>8. ASSUME NEW p \in Path PROVE ClockInv(k, p)'
  <2>1. Mine(k, p)' = Mine(k, p) /\ Theirs(k, p)' = Theirs(k, p)
    BY <1>5 DEF Mine, Theirs
  <2>2. /\ Greeted(k, p)' = Greeted(k, p) /\ Offered(k, p)' = Offered(k, p)
        /\ Wanted(k, p)' = Wanted(k, p) /\ Replied(k, p)' = Replied(k, p)
        /\ Pushed(k, p)' = Pushed(k, p)
    BY <1>2, <1>5, <1>6 DEF Greeted, Offered, Wanted, Replied, Pushed, If
  <2>3. Pulling(k, p)' = Pulling(k, p) /\ Taking(k, p)' = Taking(k, p)
    BY <1>2, <1>5, <1>6 DEF Pulling, Taking
  <2>4. ClockInv(k, p)
    BY <1>1
  <2>5. QED BY <2>1, <2>2, <2>3, <2>4, Shrinks
<1>9. ASSUME NEW p \in Path, NEW x \in Nat, (InFiles(p, x) \/ InSession(k, p, x))'
      PROVE  Has(p, x)
  <2>1. InFiles(p, x)' => InFiles(p, x)
    BY <1>5 DEF InFiles
  <2>2. InSession(k, p, x)' => InSession(k, p, x)
    BY <1>2, <1>5, <1>6 DEF InSession
  <2>3. QED BY <1>9, <2>1, <2>2 DEF Has
<1>10. QED BY <1>7, <1>8, <1>9 DEF Kept

\* The initiator decides what to pull.
LEMMA ComputeNeededKeeps ==
  ASSUME Orderly, SessionInv, NEW k \in Link, ComputeNeeded(k)
  PROVE  Kept(k)
<1>1. TypeOK /\ StageInv(k) /\ (\A p \in Path : ClockInv(k, p))
  BY DEF SessionInv
<1>2. ini[k] \in Initiator /\ ini[k].pc = "rename" /\ ini[k].jobs = <<>>
  BY <1>1 DEF ComputeNeeded, At, TypeOK
<1>3. PICK T \in SUBSET Path :
             T = {p \in Path : Needed(Strategy, index[k[1]], ini[k].remote, {}, p)}
  OBVIOUS
<1>4. PICK r : r = [ini[k] EXCEPT !.pc = "pull", !.todo = T]
  OBVIOUS
<1>5. /\ ini'[k] = r /\ down' = down /\ up' = up /\ lis' = lis
      /\ index' = index /\ disk' = disk
  BY <1>1, <1>3, <1>4 DEF ComputeNeeded, TypeOK, wires
<1>6. /\ r.pc = "pull" /\ r.remote = ini[k].remote /\ r.snap = ini[k].snap
      /\ r.jobs = <<>> /\ r.moves = ini[k].moves /\ r.todo = T
  BY <1>2, <1>4 DEF Initiator
<1>7. Items(down[k]) = {} /\ \A i \in 1..Len(up[k]) :
        up[k][i].type \notin {"GET_FILE", "FILE_DATA", "SYNC_DONE", "ACK"}
  BY <1>1, <1>2 DEF StageInv
<1>8. StageInv(k)'
  BY <1>1, <1>2, <1>5, <1>6, <1>7 DEF StageInv
<1>9. ASSUME NEW p \in Path PROVE ClockInv(k, p)'
  <2>1. Mine(k, p)' = Mine(k, p) /\ Theirs(k, p)' = Theirs(k, p)
    BY <1>5 DEF Mine, Theirs
  <2>2. ~Asks(up[k], p) /\ Sends(up[k], p) = {} /\ Sends(down[k], p) = {}
    BY <1>7 DEF Asks, Sends, Items
  <2>3. /\ Greeted(k, p)' = Greeted(k, p) /\ Offered(k, p)' = Offered(k, p)
        /\ Replied(k, p)' = {} /\ Pushed(k, p)' = {}
    BY <1>2, <1>5, <1>6, <2>2 DEF Greeted, Offered, Replied, Pushed, If
  <2>4. Pulling(k, p)' = {} /\ Taking(k, p)' = Taking(k, p)
    BY <1>2, <1>5, <1>6, EmptyViews DEF Pulling, Taking
  <2>5. Wanted(k, p)' = If(p \in T, {ini[k].remote[p]})
    BY <1>5, <1>6, <2>2 DEF Wanted, If
  <2>6. ClockInv(k, p)
    BY <1>1
  <2>7. ASSUME p \in T
        PROVE  ini[k].remote[p].clock[k[2]] > Mine(k, p).clock[k[2]]
    <3>1. PICK e \in Entry : e = ini[k].remote[p]
      BY <1>1, ViewsTyped
    <3>2. Mine(k, p) \in Entry /\ Theirs(k, p) \in Entry
      BY <1>1, ViewsTyped
    <3>3. Needed(Strategy, index[k[1]], ini[k].remote, {}, p)
      BY <1>3, <2>7
    <3>4. Accept(Strategy, Mine(k, p), e)
      BY <3>1, <3>3 DEF Needed, Accept, Mine
    <3>5. Earlier(e, Theirs(k, p)) /\ Meet(k, Mine(k, p), Theirs(k, p))
      BY <1>2, <2>6, <3>1 DEF ClockInv, HelloInv, Offered, If
    <3>6. \/ e.clock[k[1]] > Mine(k, p).clock[k[1]]
          \/ e.clock[k[2]] > Mine(k, p).clock[k[2]]
      BY <3>2, <3>4, Accepted
    <3>7. QED BY <3>1, <3>2, <3>5, <3>6, Parts
  <2>8. Meet(k, Mine(k, p), Theirs(k, p))' /\ HelloInv(k, p)' /\ PullInv(k, p)' /\ TakeInv(k, p)'
    BY <2>1, <2>3, <2>4, <2>6 DEF ClockInv, HelloInv, PullInv, TakeInv
  <2>9. ReplyInv(k, p)' /\ PushInv(k, p)'
    BY <2>1, <2>3, <2>5, <2>7 DEF ReplyInv, PushInv, If
  <2>10. QED BY <2>8, <2>9 DEF ClockInv
<1>10. ASSUME NEW p \in Path, NEW x \in Nat, (InFiles(p, x) \/ InSession(k, p, x))'
       PROVE  Has(p, x)
  <2>1. InFiles(p, x)' => InFiles(p, x)
    BY <1>5 DEF InFiles
  <2>2. InSession(k, p, x)' => InSession(k, p, x)
    BY <1>2, <1>5, <1>6 DEF InSession
  <2>3. QED BY <1>10, <2>1, <2>2 DEF Has
<1>11. QED BY <1>8, <1>9, <1>10 DEF Kept

\* The initiator asks for a file.
LEMMA RequestFileKeeps ==
  ASSUME SessionInv, NEW k \in Link, NEW q \in Path, RequestFile(k, q)
  PROVE  Kept(k)
<1>1. TypeOK /\ StageInv(k) /\ (\A p \in Path : ClockInv(k, p))
  BY DEF SessionInv
<1>2. /\ ini[k] \in Initiator /\ up[k] \in Seq(Message)
      /\ ini[k].pc = "pull" /\ ini[k].jobs = <<>> /\ q \in ini[k].todo
  BY <1>1 DEF RequestFile, At, TypeOK
<1>3. PICK m \in Message : m = [type |-> "GET_FILE", path |-> q]
  BY DEF Message
<1>4. m.type = "GET_FILE" /\ m.path = q
  BY <1>3
<1>5. PICK r : r = [ini[k] EXCEPT !.pc = "wait", !.todo = @ \ {q}]
  OBVIOUS
<1>6. /\ ini'[k] = r /\ down' = down /\ up'[k] = Append(up[k], m) /\ lis' = lis
      /\ index' = index /\ disk' = disk
  BY <1>1, <1>3, <1>5 DEF RequestFile, Send, TypeOK, files
<1>7. /\ r.pc = "wait" /\ r.remote = ini[k].remote /\ r.snap = ini[k].snap
      /\ r.jobs = <<>> /\ r.moves = ini[k].moves /\ r.todo = ini[k].todo \ {q}
  BY <1>2, <1>5 DEF Initiator
<1>8. /\ Items(down[k]) = {} /\ down[k] = <<>>
      /\ \A i \in 1..Len(up[k]) :
           up[k][i].type \notin {"GET_FILE", "FILE_DATA", "SYNC_DONE", "ACK"}
  <2>1. Items(down[k]) = {}
    BY <1>1, <1>2 DEF StageInv
  <2>2. down[k] \in Seq(Message)
    BY <1>1 DEF TypeOK
  <2>3. down[k] = <<>>
    BY <2>1, <2>2, TailWire
  <2>4. QED BY <1>1, <1>2, <2>1, <2>3 DEF StageInv
<1>9. PICK w : w = Append(up[k], m)
  OBVIOUS
<1>10. /\ Len(w) = Len(up[k]) + 1 /\ w # <<>> /\ Items(w) = Items(up[k]) \cup {m}
       /\ \A i \in 1..Len(up[k]) : w[i] = up[k][i]
       /\ w[Len(up[k]) + 1] = m /\ Len(up[k]) \in Nat
  BY <1>2, <1>9, AppendWire, LenProperties
<1>11. StageInv(k)'
  <2>1. \A i \in 1..Len(w) : (i \in 1..Len(up[k]) /\ w[i] = up[k][i]) \/ (i = Len(w) /\ w[i] = m)
    BY <1>10
  <2>2. lis[k].pc # "idle" /\ lis[k].pc # "accept"
    BY <1>1, <1>2 DEF StageInv
  <2>3. lis[k].pc = "hello" => up[k] # <<>> /\ w[1] = up[k][1]
    BY <1>1, <1>2, <1>10, EmptySeq DEF StageInv
  <2>4. QED BY <1>1, <1>2, <1>4, <1>6, <1>7, <1>8, <1>9, <1>10, <2>1, <2>2, <2>3 DEF StageInv
<1>12. ASSUME NEW p \in Path PROVE ClockInv(k, p)'
  <2>1. Mine(k, p)' = Mine(k, p) /\ Theirs(k, p)' = Theirs(k, p)
    BY <1>6 DEF Mine, Theirs
  <2>2. /\ Hellos(w, p) = Hellos(up[k], p) /\ Sends(w, p) = Sends(up[k], p)
        /\ Asks(w, p) <=> Asks(up[k], p) \/ q = p
    BY <1>2, <1>4, <1>9, AppendViews
  <2>3. /\ Greeted(k, p)' = Greeted(k, p) /\ Offered(k, p)' = Offered(k, p)
        /\ Wanted(k, p)' = Wanted(k, p) /\ Replied(k, p)' = Replied(k, p)
        /\ Pushed(k, p)' = Pushed(k, p)
    BY <1>2, <1>6, <1>7, <1>9, <2>2 DEF Greeted, Offered, Wanted, Replied, Pushed, If
  <2>4. Pulling(k, p)' = Pulling(k, p) /\ Taking(k, p)' = Taking(k, p)
    BY <1>2, <1>6, <1>7 DEF Pulling, Taking
  <2>5. ClockInv(k, p)
    BY <1>1
  <2>6. QED BY <2>1, <2>3, <2>4, <2>5, Shrinks
<1>13. ASSUME NEW p \in Path, NEW x \in Nat, (InFiles(p, x) \/ InSession(k, p, x))'
       PROVE  Has(p, x)
  <2>1. InFiles(p, x)' => InFiles(p, x)
    BY <1>6 DEF InFiles
  <2>2. ~Carries(m, p, x)
    BY <1>4 DEF Carries
  <2>3. InSession(k, p, x)' => InSession(k, p, x)
    BY <1>2, <1>6, <1>7, <1>9, <1>10, <2>2 DEF InSession
  <2>4. QED BY <1>13, <2>1, <2>3 DEF Has
<1>14. QED BY <1>11, <1>12, <1>13 DEF Kept

\* The initiator receives a file: what the listener had, and news to it.
LEMMA ReceiveFileKeeps ==
  ASSUME Orderly, SessionInv, NEW k \in Link, ReceiveFile(k)
  PROVE  Kept(k)
<1>1. TypeOK /\ StageInv(k) /\ (\A p \in Path : ClockInv(k, p))
  BY DEF SessionInv
<1>2. /\ ini[k] \in Initiator /\ up[k] \in Seq(Message) /\ down[k] \in Seq(Message)
      /\ ini[k].pc = "wait" /\ down[k] # <<>> /\ Head(down[k]).type = "FILE_DATA"
  BY <1>1 DEF ReceiveFile, Got, TypeOK
<1>3. Items(down[k]) = {Head(down[k])} /\ Tail(down[k]) = <<>>
  <2>1. PICK n \in Nat : n = Len(down[k])
    BY <1>2, LenProperties
  <2>2. n # 0 /\ n <= 1
    BY <1>1, <1>2, <2>1, EmptySeq DEF StageInv
  <2>3. n = 1
    BY <2>2
  <2>4. Len(down[k]) = 1
    BY <2>1, <2>3
  <2>5. QED BY <1>2, <2>4, ItemsOf
<1>4. PICK m \in Message : m = Head(down[k])
  BY <1>2, TailWire
<1>5. m.path \in Path /\ m.entry \in Entry /\ m.content \in Nat /\ m.type = "FILE_DATA"
  BY <1>2, <1>4, MessageFields
<1>6. PICK s \in Seq(Job) : s = <<Apply(m.path, m.entry, m.content)>>
  BY <1>5, ApplyJob
<1>7. /\ Len(s) = 1 /\ Items(s) = {Apply(m.path, m.entry, m.content)}
      /\ s[1] = Apply(m.path, m.entry, m.content)
      /\ \A p \in Path : /\ m.path = p => Versions(s, p) = {m.entry}
                         /\ m.path # p => Versions(s, p) = {}
  BY <1>5, <1>6, OneJob
<1>8. PICK r : r = [ini[k] EXCEPT !.pc = "pull", !.jobs = s]
  OBVIOUS
<1>9. /\ ini'[k] = r /\ down'[k] = <<>> /\ up' = up /\ lis' = lis
      /\ index' = index /\ disk' = disk
  BY <1>1, <1>3, <1>4, <1>6, <1>8 DEF ReceiveFile, TypeOK, files
<1>10. /\ r.pc = "pull" /\ r.remote = ini[k].remote /\ r.snap = ini[k].snap
       /\ r.jobs = s /\ r.moves = ini[k].moves /\ r.todo = ini[k].todo
  BY <1>2, <1>8 DEF Initiator
<1>11. /\ up[k] = <<>> /\ lis[k].pc = "serve" /\ m.path \notin ini[k].todo
       /\ lis[k].jobs = <<>>
  <2>1. Head(down[k]) \in Items(down[k])
    BY <1>3
  <2>2. up[k] = <<>> /\ lis[k].pc = "serve" /\ m.path \notin ini[k].todo
    BY <1>1, <1>2, <1>4, <2>1 DEF StageInv
  <2>3. QED BY <1>1, <2>2 DEF StageInv
<1>12. StageInv(k)'
  <2>1. Items(down'[k]) = {} /\ Len(down'[k]) = 0 /\ Len(up[k]) = 0
    BY <1>9, <1>11, ItemsOf
  <2>2. s[1].path = m.path
    BY <1>7 DEF Apply
  <2>3. QED BY <1>1, <1>7, <1>9, <1>10, <1>11, <2>1, <2>2 DEF StageInv
<1>13. ASSUME NEW p \in Path PROVE ClockInv(k, p)'
  <2>1. Mine(k, p)' = Mine(k, p) /\ Theirs(k, p)' = Theirs(k, p)
    BY <1>9 DEF Mine, Theirs
  <2>2. /\ Hellos(<<>>, p) = {} /\ Sends(<<>>, p) = {} /\ ~Asks(<<>>, p)
    BY EmptyViews
  <2>3. /\ Greeted(k, p)' = Greeted(k, p) /\ Wanted(k, p)' = Wanted(k, p)
        /\ Pushed(k, p)' = {} /\ Replied(k, p)' = {}
    BY <1>2, <1>9, <1>10, <1>11, <2>2 DEF Greeted, Wanted, Replied, Pushed, If
  <2>4. Offered(k, p)' \subseteq Offered(k, p)
    BY <1>2, <1>9, <1>10, <2>2 DEF Offered, If
  <2>5. Pulling(k, p)' = Versions(s, p) /\ Taking(k, p)' = Taking(k, p)
    BY <1>7, <1>9, <1>10 DEF Pulling, Taking
  <2>6. ClockInv(k, p)
    BY <1>1
  <2>7. CASE m.path # p
    <3>1. Pulling(k, p)' = {}
      BY <1>7, <2>5, <2>7
    <3>2. QED BY <2>1, <2>3, <2>4, <2>5, <2>6, <3>1, Shrinks
  <2>8. CASE m.path = p
    <3>1. m.entry \in Replied(k, p) /\ Replied(k, p) # {}
      BY <1>2, <1>4, <2>8, TailViews DEF Replied
    <3>2. /\ Earlier(m.entry, Theirs(k, p))
          /\ Theirs(k, p).clock[k[1]] <= m.entry.clock[k[1]]
          /\ m.entry.clock[k[2]] > Mine(k, p).clock[k[2]]
      BY <2>6, <3>1 DEF ClockInv, ReplyInv
    <3>3. Theirs(k, p) \in Entry
      BY <1>1, ViewsTyped
    <3>4. Meet(k, m.entry, Theirs(k, p))
      BY <1>5, <3>2, <3>3, Parts
    <3>5. Greeted(k, p) = {} /\ Taking(k, p) = {}
      BY <1>1, <3>1, Phases
    <3>6. Pulling(k, p)' \subseteq {m.entry}
      BY <1>7, <2>5, <2>8
    <3>7. QED BY <2>1, <2>3, <2>4, <2>5, <2>6, <3>2, <3>4, <3>5, <3>6, PullStarts
  <2>9. QED BY <2>7, <2>8
<1>14. ASSUME NEW p \in Path, NEW x \in Nat, (InFiles(p, x) \/ InSession(k, p, x))'
       PROVE  Has(p, x)
  <2>1. InFiles(p, x)' => InFiles(p, x)
    BY <1>9 DEF InFiles
  <2>2. Brings(Apply(m.path, m.entry, m.content), p, x) => Carries(m, p, x)
    BY <1>5 DEF Brings, Apply, Carries
  <2>3. InSession(k, p, x)' => InSession(k, p, x)
    BY <1>3, <1>4, <1>7, <1>9, <1>10, <2>2, ItemsOf DEF InSession
  <2>4. QED BY <1>14, <2>1, <2>3 DEF Has
<1>15. QED BY <1>12, <1>13, <1>14 DEF Kept

\* The initiator has pulled, and decides what to push.
LEMMA FinishPullKeeps ==
  ASSUME SessionInv, NEW k \in Link, NEW old \in [Path -> Path], FinishPull(k, old)
  PROVE  Kept(k)
<1>1. TypeOK /\ StageInv(k) /\ (\A p \in Path : ClockInv(k, p)) /\ NameInv /\ k[1] \in Node
  BY Ends DEF SessionInv
<1>2. /\ ini[k] \in Initiator /\ up[k] \in Seq(Message)
      /\ ini[k].pc = "pull" /\ ini[k].jobs = <<>> /\ ini[k].todo = {}
  BY <1>1 DEF FinishPull, At, TypeOK
<1>3. PICK m \in Message : m = [type |-> "SYNC_DONE"]
  BY DEF Message
<1>4. m.type = "SYNC_DONE"
  BY <1>3
<1>5. LocalMoves(index[k[1]], ini[k].remote, old) = {}
  BY <1>1, NoMoves DEF FinishPull
<1>6. PICK T : T = {p \in Path : Behind(index[k[1]], ini[k].remote, p)}
  OBVIOUS
<1>7. PICK r : r = [ini[k] EXCEPT !.pc = "push", !.snap = index[k[1]], !.todo = T, !.moves = {}]
  OBVIOUS
<1>8. /\ ini'[k] = r /\ down' = down /\ up'[k] = Append(up[k], m) /\ lis' = lis
      /\ index' = index /\ disk' = disk
  BY <1>1, <1>3, <1>5, <1>6, <1>7 DEF FinishPull, Send, TypeOK, files
<1>9. /\ r.pc = "push" /\ r.remote = ini[k].remote /\ r.snap = index[k[1]]
      /\ r.jobs = <<>> /\ r.moves = {} /\ r.todo = T
  BY <1>2, <1>7 DEF Initiator
<1>10. /\ Items(down[k]) = {} /\ down[k] = <<>>
       /\ \A i \in 1..Len(up[k]) :
            up[k][i].type \notin {"GET_FILE", "FILE_DATA", "SYNC_DONE", "ACK"}
  <2>1. Items(down[k]) = {}
    BY <1>1, <1>2 DEF StageInv
  <2>2. down[k] \in Seq(Message)
    BY <1>1 DEF TypeOK
  <2>3. down[k] = <<>>
    BY <2>1, <2>2, TailWire
  <2>4. QED BY <1>1, <1>2, <2>1, <2>3 DEF StageInv
<1>11. PICK w : w = Append(up[k], m)
  OBVIOUS
<1>12. /\ Len(w) = Len(up[k]) + 1 /\ w # <<>> /\ Items(w) = Items(up[k]) \cup {m}
       /\ \A i \in 1..Len(up[k]) : w[i] = up[k][i]
       /\ w[Len(up[k]) + 1] = m /\ Len(up[k]) \in Nat
  BY <1>2, <1>11, AppendWire, LenProperties
<1>13. StageInv(k)'
  <2>1. \A i \in 1..Len(w) : (i \in 1..Len(up[k]) /\ w[i] = up[k][i]) \/ (i = Len(w) /\ w[i] = m)
    BY <1>12
  <2>2. lis[k].pc # "idle" /\ lis[k].pc # "accept"
    BY <1>1, <1>2 DEF StageInv
  <2>3. lis[k].pc = "hello" => up[k] # <<>> /\ w[1] = up[k][1]
    BY <1>1, <1>2, <1>12, EmptySeq DEF StageInv
  <2>4. QED BY <1>1, <1>2, <1>4, <1>8, <1>9, <1>10, <1>11, <1>12, <2>1, <2>2, <2>3 DEF StageInv
<1>14. ASSUME NEW p \in Path PROVE ClockInv(k, p)'
  <2>1. /\ Mine(k, p)' = Mine(k, p) /\ Theirs(k, p)' = Theirs(k, p)
        /\ Mine(k, p) \in Entry /\ Mine(k, p) = index[k[1]][p]
    BY <1>1, <1>8, ViewsTyped DEF Mine, Theirs
  <2>2. /\ Hellos(w, p) = Hellos(up[k], p) /\ Sends(w, p) = Sends(up[k], p)
        /\ Asks(w, p) <=> Asks(up[k], p)
    BY <1>2, <1>4, <1>11, AppendViews
  <2>3. ~Asks(up[k], p) /\ Sends(up[k], p) = {} /\ Hellos(down[k], p) = {}
    BY <1>10 DEF Asks, Sends, Hellos, Items
  <2>4. /\ Greeted(k, p)' = Greeted(k, p) /\ Offered(k, p)' = {}
        /\ Wanted(k, p)' = {} /\ Replied(k, p)' = Replied(k, p)
        /\ Pushed(k, p)' \subseteq {Mine(k, p)}
    BY <1>2, <1>8, <1>9, <1>11, <2>1, <2>2, <2>3
       DEF Greeted, Offered, Wanted, Replied, Pushed, If
  <2>5. Pulling(k, p)' = Pulling(k, p) /\ Taking(k, p)' = Taking(k, p)
    BY <1>2, <1>8, <1>9 DEF Pulling, Taking
  <2>6. ClockInv(k, p)
    BY <1>1
  <2>7. /\ Meet(k, Mine(k, p), Theirs(k, p))' /\ HelloInv(k, p)' /\ PullInv(k, p)'
        /\ TakeInv(k, p)' /\ ReplyInv(k, p)'
    BY <2>1, <2>4, <2>5, <2>6 DEF ClockInv, HelloInv, PullInv, TakeInv, ReplyInv
  <2>8. PushInv(k, p)'
    <3>1. Earlier(Mine(k, p), Mine(k, p))
      BY <2>1, EarlierSelf
    <3>2. Mine(k, p).clock[k[2]] \in Nat
      BY <1>1, <2>1, Ends DEF Entry, Clock
    <3>3. Mine(k, p).clock[k[2]] <= Mine(k, p).clock[k[2]]
      BY <3>2
    <3>4. QED BY <2>1, <2>4, <3>1, <3>3 DEF PushInv
  <2>9. QED BY <2>7, <2>8 DEF ClockInv
<1>15. ASSUME NEW p \in Path, NEW x \in Nat, (InFiles(p, x) \/ InSession(k, p, x))'
       PROVE  Has(p, x)
  <2>1. InFiles(p, x)' => InFiles(p, x)
    BY <1>8 DEF InFiles
  <2>2. ~Carries(m, p, x)
    BY <1>4 DEF Carries
  <2>3. Is(index[k[1]][p], x) => InFiles(p, x)
    BY <1>1 DEF InFiles
  <2>4. InSession(k, p, x)' => InSession(k, p, x) \/ Is(index[k[1]][p], x)
    BY <1>2, <1>8, <1>9, <1>11, <1>12, <2>2 DEF InSession
  <2>5. QED BY <1>15, <2>1, <2>3, <2>4 DEF Has
<1>16. QED BY <1>13, <1>14, <1>15 DEF Kept

\* The initiator pushes a file, or finds it gone.
LEMMA PushKeeps ==
  ASSUME SessionInv, NEW k \in Link, NEW q \in Path, Push(k, q)
  PROVE  Kept(k)
<1>1. TypeOK /\ StageInv(k) /\ (\A p \in Path : ClockInv(k, p)) /\ k[1] \in Node
  BY Ends DEF SessionInv
<1>2. /\ ini[k] \in Initiator /\ up[k] \in Seq(Message)
      /\ ini[k].pc = "push" /\ ini[k].jobs = <<>> /\ q \in ini[k].todo
      /\ ini[k].moves = {} /\ ini[k].snap \in Index
  BY <1>1 DEF Push, TypeOK, Initiator, StageInv
<1>3. PICK m \in Message : m = [type |-> "FILE_DATA", path |-> q, entry |-> ini[k].snap[q],
                                content |-> disk[k[1]][q].sum]
  <2>1. ini[k].snap[q] \in Entry /\ disk[k[1]][q].sum \in Nat
    BY <1>1, <1>2 DEF Index, TypeOK, File
  <2>2. QED BY <2>1 DEF Message
<1>4. /\ m.type = "FILE_DATA" /\ m.path = q /\ m.entry = ini[k].snap[q]
      /\ m.content = disk[k[1]][q].sum
  BY <1>3
<1>5. PICK r : r = [ini[k] EXCEPT !.todo = @ \ {q}]
  OBVIOUS
<1>6. /\ ini'[k] = r /\ down' = down /\ lis' = lis /\ index' = index /\ disk' = disk
      /\ up'[k] = up[k] \/ up'[k] = Append(up[k], m)
  BY <1>1, <1>2, <1>3, <1>5 DEF Push, Send, TypeOK, files
<1>7. /\ r.pc = "push" /\ r.remote = ini[k].remote /\ r.snap = ini[k].snap
      /\ r.jobs = <<>> /\ r.moves = {} /\ r.todo = ini[k].todo \ {q}
  BY <1>2, <1>5 DEF Initiator
<1>8. /\ Items(down[k]) = {}
      /\ \A i \in 1..Len(up[k]) : up[k][i].type \notin {"GET_FILE", "ACK"}
  BY <1>1, <1>2 DEF StageInv
<1>9. PICK w : w = Append(up[k], m)
  OBVIOUS
<1>10. /\ Len(w) = Len(up[k]) + 1 /\ w # <<>> /\ Items(w) = Items(up[k]) \cup {m}
       /\ \A i \in 1..Len(up[k]) : w[i] = up[k][i]
       /\ w[Len(up[k]) + 1] = m /\ Len(up[k]) \in Nat
  BY <1>2, <1>9, AppendWire, LenProperties
<1>11. StageInv(k)'
  <2>1. \A i \in 1..Len(w) : (i \in 1..Len(up[k]) /\ w[i] = up[k][i]) \/ (i = Len(w) /\ w[i] = m)
    BY <1>10
  <2>2. lis[k].pc # "idle"
    BY <1>1, <1>2 DEF StageInv
  <2>3. lis[k].pc = "hello" => up[k] # <<>> /\ w[1] = up[k][1]
    BY <1>1, <1>2, <1>10, EmptySeq DEF StageInv
  <2>4. CASE up'[k] = up[k]
    BY <1>1, <1>2, <1>6, <1>7, <1>8, <2>2, <2>4 DEF StageInv
  <2>5. CASE up'[k] = w
    BY <1>1, <1>2, <1>4, <1>6, <1>7, <1>8, <1>10, <2>1, <2>2, <2>3, <2>5 DEF StageInv
  <2>6. QED BY <1>6, <1>9, <2>4, <2>5
<1>12. ASSUME NEW p \in Path PROVE ClockInv(k, p)'
  <2>1. Mine(k, p)' = Mine(k, p) /\ Theirs(k, p)' = Theirs(k, p)
    BY <1>6 DEF Mine, Theirs
  <2>2. /\ Hellos(up'[k], p) = Hellos(up[k], p)
        /\ Asks(up'[k], p) <=> Asks(up[k], p)
        /\ Sends(up'[k], p) \subseteq Pushed(k, p)
    <3>1. /\ Hellos(w, p) = Hellos(up[k], p) /\ (Asks(w, p) <=> Asks(up[k], p))
          /\ q # p => Sends(w, p) = Sends(up[k], p)
          /\ q = p => Sends(w, p) = Sends(up[k], p) \cup {ini[k].snap[p]}
      BY <1>2, <1>4, <1>9, AppendViews
    <3>2. Sends(up[k], p) \subseteq Pushed(k, p)
      BY DEF Pushed
    <3>3. q = p => ini[k].snap[p] \in Pushed(k, p)
      BY <1>2 DEF Pushed, If
    <3>4. QED BY <1>6, <1>9, <3>1, <3>2, <3>3
  <2>3. /\ Greeted(k, p)' = Greeted(k, p) /\ Offered(k, p)' = Offered(k, p)
        /\ Wanted(k, p)' = Wanted(k, p) /\ Replied(k, p)' = Replied(k, p)
    BY <1>2, <1>6, <1>7, <2>2 DEF Greeted, Offered, Wanted, Replied, If
  <2>4. Pushed(k, p)' \subseteq Pushed(k, p)
    <3>1. Pushed(k, p)' = Sends(up'[k], p) \cup
                             If(p \in ini[k].todo \ {q}, {ini[k].snap[p]})
      BY <1>6, <1>7 DEF Pushed, If
    <3>2. p \in ini[k].todo => ini[k].snap[p] \in Pushed(k, p)
      BY <1>2 DEF Pushed, If
    <3>3. QED BY <2>2, <3>1, <3>2 DEF If
  <2>5. Pulling(k, p)' = Pulling(k, p) /\ Taking(k, p)' = Taking(k, p)
    BY <1>2, <1>6, <1>7 DEF Pulling, Taking
  <2>6. ClockInv(k, p)
    BY <1>1
  <2>7. QED BY <2>1, <2>3, <2>4, <2>5, <2>6, Shrinks
<1>13. ASSUME NEW p \in Path, NEW x \in Nat, (InFiles(p, x) \/ InSession(k, p, x))'
       PROVE  Has(p, x)
  <2>1. InFiles(p, x)' => InFiles(p, x)
    BY <1>6 DEF InFiles
  <2>2. Carries(m, p, x) => InSession(k, p, x) \/ InFiles(p, x)
    BY <1>1, <1>4 DEF Carries, InFiles, InSession
  <2>3. InSession(k, p, x)' => InSession(k, p, x) \/ Carries(m, p, x)
    BY <1>2, <1>6, <1>7, <1>9, <1>10 DEF InSession
  <2>4. QED BY <1>13, <2>1, <2>2, <2>3 DEF Has
<1>14. QED BY <1>11, <1>12, <1>13 DEF Kept

\* The initiator has pushed everything.
LEMMA FinishPushKeeps ==
  ASSUME SessionInv, NEW k \in Link, FinishPush(k)
  PROVE  Kept(k)
<1>1. TypeOK /\ StageInv(k) /\ (\A p \in Path : ClockInv(k, p))
  BY DEF SessionInv
<1>2. /\ ini[k] \in Initiator /\ up[k] \in Seq(Message) /\ ini[k].pc = "push"
  BY <1>1 DEF FinishPush, TypeOK
<1>3. PICK m \in Message : m = [type |-> "ACK"]
  BY DEF Message
<1>4. m.type = "ACK"
  BY <1>3
<1>5. /\ ini'[k] = IdleInitiator /\ down' = down /\ up'[k] = Append(up[k], m) /\ lis' = lis
      /\ index' = index /\ disk' = disk
  BY <1>1, <1>3 DEF FinishPush, Send, TypeOK, files
<1>6. PICK r : r = IdleInitiator
  OBVIOUS
<1>7. /\ r.pc = "idle" /\ r.remote = EmptyIndex /\ r.snap = EmptyIndex
      /\ r.jobs = <<>> /\ r.moves = {} /\ r.todo = {}
  BY <1>6 DEF IdleInitiator
<1>8. /\ Items(down[k]) = {} /\ down[k] = <<>>
      /\ \A i \in 1..Len(up[k]) : up[k][i].type \notin {"GET_FILE", "ACK"}
  <2>1. Items(down[k]) = {}
    BY <1>1, <1>2 DEF StageInv
  <2>2. down[k] \in Seq(Message)
    BY <1>1 DEF TypeOK
  <2>3. down[k] = <<>>
    BY <2>1, <2>2, TailWire
  <2>4. QED BY <1>1, <1>2, <2>1, <2>3 DEF StageInv
<1>9. PICK w : w = Append(up[k], m)
  OBVIOUS
<1>10. /\ Len(w) = Len(up[k]) + 1 /\ w # <<>> /\ Items(w) = Items(up[k]) \cup {m}
       /\ \A i \in 1..Len(up[k]) : w[i] = up[k][i]
       /\ w[Len(up[k]) + 1] = m /\ Len(up[k]) \in Nat
  BY <1>2, <1>9, AppendWire, LenProperties
<1>11. StageInv(k)'
  <2>1. \A i \in 1..Len(w) : (i \in 1..Len(up[k]) /\ w[i] = up[k][i]) \/ (i = Len(w) /\ w[i] = m)
    BY <1>10
  <2>2. lis[k].pc # "idle"
    BY <1>1, <1>2 DEF StageInv
  <2>3. lis[k].pc = "hello" => up[k] # <<>> /\ w[1] = up[k][1]
    BY <1>1, <1>2, <1>10, EmptySeq DEF StageInv
  <2>4. QED BY <1>1, <1>2, <1>4, <1>5, <1>6, <1>7, <1>8, <1>9, <1>10, <2>1, <2>2, <2>3
            DEF StageInv
<1>12. ASSUME NEW p \in Path PROVE ClockInv(k, p)'
  <2>1. Mine(k, p)' = Mine(k, p) /\ Theirs(k, p)' = Theirs(k, p)
    BY <1>5 DEF Mine, Theirs
  <2>2. /\ Hellos(w, p) = Hellos(up[k], p) /\ Sends(w, p) = Sends(up[k], p)
        /\ Asks(w, p) <=> Asks(up[k], p)
    BY <1>2, <1>4, <1>9, AppendViews
  <2>3. ~Asks(up[k], p)
    BY <1>8 DEF Asks, Items
  <2>4. /\ Greeted(k, p)' = Greeted(k, p) /\ Offered(k, p)' = Offered(k, p)
        /\ Wanted(k, p)' = {} /\ Replied(k, p)' = Replied(k, p)
        /\ Pushed(k, p)' \subseteq Pushed(k, p)
    BY <1>2, <1>5, <1>6, <1>7, <1>9, <2>2, <2>3
       DEF Greeted, Offered, Wanted, Replied, Pushed, If
  <2>5. Pulling(k, p)' = {} /\ Taking(k, p)' = Taking(k, p)
    BY <1>5, <1>6, <1>7, EmptyViews DEF Pulling, Taking
  <2>6. ClockInv(k, p)
    BY <1>1
  <2>7. QED BY <2>1, <2>4, <2>5, <2>6, Shrinks
<1>13. ASSUME NEW p \in Path, NEW x \in Nat, (InFiles(p, x) \/ InSession(k, p, x))'
       PROVE  Has(p, x)
  <2>1. InFiles(p, x)' => InFiles(p, x)
    BY <1>5 DEF InFiles
  <2>2. ~Carries(m, p, x)
    BY <1>4 DEF Carries
  <2>3. ~Is(EmptyIndex[p], x)
    BY DEF Is, EmptyIndex, NoEntry, Live
  <2>4. InSession(k, p, x)' => InSession(k, p, x)
    BY <1>5, <1>6, <1>7, <1>9, <1>10, <2>2, <2>3, ItemsOf DEF InSession
  <2>5. QED BY <1>13, <2>1, <2>4 DEF Has
<1>14. QED BY <1>11, <1>12, <1>13 DEF Kept

\* The entry and the file that a job leaves (apply_remote).
LEMMA AppliedWhat ==
  ASSUME TypeOK, NEW n \in Node, NEW j \in Job, Applied(n, j)
  PROVE  /\ \A i \in Node, p \in Path : i # n \/ p # j.path =>
              index'[i][p] = index[i][p] /\ disk'[i][p] = disk[i][p]
         /\ index'[n][j.path].clock = j.entry.clock
         /\ index'[n][j.path].sum = j.entry.sum
         /\ index'[n][j.path].deleted = j.entry.deleted
         /\ \/ disk'[n][j.path] = Absent \/ disk'[n][j.path] = disk[n][j.path]
            \/ disk'[n][j.path].sum = j.content
<1>1. j.path \in Path /\ j.entry \in Entry
  BY DEF Job
<1>2. PICK f : f = IF ~Live(j.entry) THEN Absent
                   ELSE IF j.content = NoSum THEN disk[n][j.path]
                   ELSE [sum |-> j.content, mtime |-> Stamp(now, j.content)]
  OBVIOUS
<1>3. disk' = [disk EXCEPT ![n][j.path] = f]
  BY <1>1, <1>2 DEF Applied, TypeOK
<1>4. f = Absent \/ f = disk[n][j.path] \/ f.sum = j.content
  BY <1>2
<1>5. disk'[n][j.path] = f
  BY <1>1, <1>3 DEF TypeOK
<1>6. PICK g : g = RecordRemote(j.entry, f)
  OBVIOUS
<1>7. index' = [index EXCEPT ![n][j.path] = g]
  BY <1>5, <1>6 DEF Applied
<1>8. g.clock = j.entry.clock /\ g.sum = j.entry.sum /\ g.deleted = j.entry.deleted
  BY <1>1, <1>6 DEF RecordRemote, Entry
<1>9. index'[n][j.path] = g
  BY <1>1, <1>7 DEF TypeOK, Index
<1>10. \A i \in Node, p \in Path : i # n \/ p # j.path =>
        index'[i][p] = index[i][p] /\ disk'[i][p] = disk[i][p]
  BY <1>3, <1>7 DEF TypeOK, Index
<1>11. QED BY <1>4, <1>5, <1>8, <1>9, <1>10

\* The worker thread installs a version at the initiator.
LEMMA InitiatorJobKeeps ==
  ASSUME Orderly, SessionInv, NEW k \in Link, InitiatorJob(k)
  PROVE  /\ Kept(k)
         /\ \A n \in Node, p \in Path : ~HappensBefore(index'[n][p].clock, index[n][p].clock)
<1>1. /\ TypeOK /\ StageInv(k) /\ (\A p \in Path : ClockInv(k, p))
      /\ k[1] \in Node /\ k[2] \in Node /\ k[1] # k[2]
  BY TwoEnds DEF SessionInv
<1>2. /\ ini[k] \in Initiator /\ ini[k].jobs \in Seq(Job) /\ ini[k].jobs # <<>>
      /\ ini[k].pc \in {"delete", "pull"} /\ Len(ini[k].jobs) = 1
  BY <1>1 DEF InitiatorJob, TypeOK, Initiator, StageInv
<1>3. PICK j \in Job : j = Head(ini[k].jobs)
  BY <1>2, HeadTailProperties
<1>4. ini[k].jobs[1] = j /\ Tail(ini[k].jobs) = <<>> /\ Items(ini[k].jobs) = {j}
  BY <1>2, <1>3, ItemsOf
<1>5. PICK r : r = [ini[k] EXCEPT !.jobs = <<>>]
  OBVIOUS
<1>6. /\ ini'[k] = r /\ up' = up /\ down' = down /\ lis' = lis /\ Applied(k[1], j)
  BY <1>1, <1>3, <1>4, <1>5 DEF InitiatorJob, Applied, TypeOK, wires
<1>7. /\ r.pc = ini[k].pc /\ r.remote = ini[k].remote /\ r.snap = ini[k].snap
      /\ r.jobs = <<>> /\ r.moves = ini[k].moves /\ r.todo = ini[k].todo
  BY <1>2, <1>5 DEF Initiator
<1>8. j.path \in Path /\ j.entry \in Entry
  BY DEF Job
<1>9. /\ \A i \in Node, p \in Path : i # k[1] \/ p # j.path =>
           index'[i][p] = index[i][p] /\ disk'[i][p] = disk[i][p]
      /\ index'[k[1]][j.path].clock = j.entry.clock
      /\ index'[k[1]][j.path].sum = j.entry.sum
      /\ index'[k[1]][j.path].deleted = j.entry.deleted
      /\ \/ disk'[k[1]][j.path] = Absent \/ disk'[k[1]][j.path] = disk[k[1]][j.path]
         \/ disk'[k[1]][j.path].sum = j.content
  BY <1>1, <1>6, AppliedWhat
<1>10. StageInv(k)'
  BY <1>1, <1>6, <1>7 DEF StageInv
<1>11. ASSUME NEW p \in Path
       PROVE  ClockInv(k, p)' /\ ~HappensBefore(Mine(k, p)'.clock, Mine(k, p).clock)
  <2>1. Theirs(k, p)' = Theirs(k, p)
    BY <1>1, <1>9 DEF Theirs
  <2>2. /\ Greeted(k, p)' = Greeted(k, p) /\ Offered(k, p)' = Offered(k, p)
        /\ Wanted(k, p)' = Wanted(k, p) /\ Replied(k, p)' = Replied(k, p)
        /\ Pushed(k, p)' = Pushed(k, p)
    BY <1>6, <1>7 DEF Greeted, Offered, Wanted, Replied, Pushed, If
  <2>3. Pulling(k, p)' = {} /\ Taking(k, p)' = Taking(k, p)
    BY <1>6, <1>7, EmptyViews DEF Pulling, Taking
  <2>4. ClockInv(k, p)
    BY <1>1
  <2>5. CASE p # j.path
    <3>1. Mine(k, p)' = Mine(k, p)
      BY <1>1, <1>9, <2>5 DEF Mine
    <3>2. ClockInv(k, p)'
      BY <2>1, <2>2, <2>3, <2>4, <3>1, Shrinks
    <3>3. Mine(k, p).clock \in Clock
      BY <1>1, ViewsTyped DEF Entry
    <3>4. QED BY <3>1, <3>2, <3>3, HappensBeforeStrict
  <2>6. CASE p = j.path
    <3>1. Mine(k, p)'.clock = j.entry.clock /\ Mine(k, p)'.sum = j.entry.sum
      BY <1>9, <2>6 DEF Mine
    <3>2. j.entry \in Pulling(k, p)
      BY <1>4, <2>6 DEF Pulling, Versions
    <3>3. QED BY <1>1, <2>1, <2>2, <2>3, <2>4, <3>1, <3>2, MineInstalled
  <2>7. QED BY <2>5, <2>6
<1>12. ASSUME NEW n \in Node, NEW p \in Path
       PROVE  ~HappensBefore(index'[n][p].clock, index[n][p].clock)
  <2>1. CASE n = k[1]
    BY <1>11, <2>1 DEF Mine
  <2>2. CASE n # k[1]
    <3>1. index'[n][p] = index[n][p] /\ index[n][p].clock \in Clock
      BY <1>1, <1>9, <2>2 DEF TypeOK, Index, Entry
    <3>2. QED BY <3>1, HappensBeforeStrict
  <2>3. QED BY <2>1, <2>2
<1>13. ASSUME NEW p \in Path, NEW x \in Nat, (InFiles(p, x) \/ InSession(k, p, x))'
       PROVE  Has(p, x)
  <2>1. Brings(j, p, x) => InSession(k, p, x)
    BY <1>4 DEF InSession
  <2>2. InSession(k, p, x)' => InSession(k, p, x)
    BY <1>6, <1>7, ItemsOf DEF InSession
  <2>3. InFiles(p, x)' => InFiles(p, x) \/ Brings(j, p, x)
    <3>1. ASSUME NEW n \in Node, (disk[n][p].sum = x /\ x # NoSum)' \/ Is(index[n][p], x)'
          PROVE  InFiles(p, x) \/ Brings(j, p, x)
      <4>1. CASE n # k[1] \/ p # j.path
        BY <1>9, <3>1, <4>1 DEF InFiles
      <4>2. CASE n = k[1] /\ p = j.path
        <5>1. Is(index[n][p], x)' => Is(j.entry, x)
          BY <1>9, <4>2 DEF Is, Live
        <5>2. (disk[n][p].sum = x /\ x # NoSum)' =>
                (disk[n][p].sum = x /\ x # NoSum) \/ (j.content = x /\ x # NoSum)
          BY <1>9, <4>2 DEF Absent
        <5>3. QED BY <3>1, <4>2, <5>1, <5>2 DEF InFiles, Brings
      <4>3. QED BY <4>1, <4>2
    <3>2. QED BY <3>1 DEF InFiles
  <2>4. QED BY <1>13, <2>1, <2>2, <2>3 DEF Has
<1>14. QED BY <1>10, <1>11, <1>12, <1>13 DEF Kept

-----------------------------------------------------------------------------
(* The steps of the listener                                               *)

\* The listener of the client-server provider greets first.
LEMMA GreetKeeps ==
  ASSUME SessionInv, NEW k \in Link, Greet(k)
  PROVE  Kept(k)
<1>1. TypeOK /\ StageInv(k) /\ (\A p \in Path : ClockInv(k, p)) /\ k[2] \in Node
  BY Ends DEF SessionInv
<1>2. /\ lis[k] \in Listener /\ up[k] \in Seq(Message) /\ GreetFirst
      /\ lis[k].pc = "idle" /\ up[k] # <<>> /\ Head(up[k]).type = "HELLO"
  BY <1>1 DEF Greet, Got, TypeOK
<1>3. /\ down[k] = <<>> /\ Len(up[k]) = 1 /\ up[k][1].type = "HELLO" /\ ini[k].pc = "hello"
      /\ lis[k].jobs = <<>>
  BY <1>1, <1>2 DEF StageInv
<1>4. PICK m \in Message : m = Hello(k[2])
  BY <1>1 DEF Hello, Message, TypeOK
<1>5. m.type = "HELLO" /\ m.index = index[k[2]]
  BY <1>4 DEF Hello
<1>6. PICK r : r = [lis[k] EXCEPT !.pc = "hello"]
  OBVIOUS
<1>7. /\ lis'[k] = r /\ down'[k] = <<m>> /\ up' = up /\ ini' = ini
      /\ index' = index /\ disk' = disk
  BY <1>1, <1>3, <1>4, <1>6 DEF Greet, Send, TypeOK, files
<1>8. r.pc = "hello" /\ r.remote = lis[k].remote /\ r.jobs = <<>>
  BY <1>2, <1>3, <1>6 DEF Listener
<1>9. Items(down'[k]) = {m} /\ Len(down'[k]) = 1 /\ down'[k] # <<>>
  BY <1>7 DEF Items
<1>10. StageInv(k)'
  BY <1>1, <1>2, <1>3, <1>5, <1>7, <1>8, <1>9 DEF StageInv
<1>11. ASSUME NEW p \in Path PROVE ClockInv(k, p)'
  <2>1. /\ Mine(k, p)' = Mine(k, p) /\ Theirs(k, p)' = Theirs(k, p)
        /\ Theirs(k, p) \in Entry /\ Theirs(k, p) = index[k[2]][p]
    BY <1>1, <1>7, ViewsTyped DEF Mine, Theirs
  <2>2. Greeted(k, p)' = Greeted(k, p) /\ Offered(k, p)' = {Theirs(k, p)}
    BY <1>2, <1>3, <1>5, <1>7, <1>8, <1>9, <2>1 DEF Greeted, Offered, Hellos, If
  <2>3. /\ Wanted(k, p)' = Wanted(k, p) /\ Replied(k, p)' = {}
        /\ Pushed(k, p)' = Pushed(k, p)
    BY <1>5, <1>7, <1>9 DEF Wanted, Replied, Pushed, Sends, If
  <2>4. Pulling(k, p)' = Pulling(k, p) /\ Taking(k, p)' = {}
    BY <1>7, <1>8, EmptyViews DEF Pulling, Taking
  <2>5. ClockInv(k, p) /\ Earlier(Theirs(k, p), Theirs(k, p))
    BY <1>1, <2>1, EarlierSelf
  <2>6. QED BY <2>1, <2>2, <2>3, <2>4, <2>5
            DEF ClockInv, HelloInv, PullInv, TakeInv, ReplyInv, PushInv
<1>12. ASSUME NEW p \in Path, NEW x \in Nat, (InFiles(p, x) \/ InSession(k, p, x))'
       PROVE  Has(p, x)
  <2>1. Carries(m, p, x) => InFiles(p, x)
    BY <1>1, <1>5 DEF Carries, InFiles
  <2>2. InFiles(p, x)' => InFiles(p, x)
    BY <1>7 DEF InFiles
  <2>3. InSession(k, p, x)' => InSession(k, p, x) \/ Carries(m, p, x)
    BY <1>3, <1>7, <1>8, <1>9, ItemsOf DEF InSession
  <2>4. QED BY <1>12, <2>1, <2>2, <2>3 DEF Has
<1>13. QED BY <1>10, <1>11, <1>12 DEF Kept

\* The listener reads the initiator's HELLO; that of the p2p provider answers.
LEMMA ListenerHelloKeeps ==
  ASSUME SessionInv, NEW k \in Link, ListenerHello(k)
  PROVE  Kept(k)
<1>1. TypeOK /\ StageInv(k) /\ (\A p \in Path : ClockInv(k, p)) /\ k[2] \in Node
  BY Ends DEF SessionInv
<1>2. /\ lis[k] \in Listener /\ up[k] \in Seq(Message) /\ down[k] \in Seq(Message)
      /\ lis[k].pc = (IF GreetFirst THEN "hello" ELSE "idle")
      /\ up[k] # <<>> /\ Head(up[k]).type = "HELLO"
  BY <1>1 DEF ListenerHello, Got, TypeOK
<1>3. PICK g \in Message : g = Head(up[k])
  BY <1>2, TailWire
<1>4. g.index \in Index /\ g.type = "HELLO"
  BY <1>2, <1>3, MessageFields
<1>5. PICK m \in Message : m = Hello(k[2])
  BY <1>1 DEF Hello, Message, TypeOK
<1>6. m.type = "HELLO" /\ m.index = index[k[2]]
  BY <1>5 DEF Hello
<1>7. PICK r : r = [lis[k] EXCEPT !.pc = "delete", !.remote = g.index,
                                  !.todo = Tombstones(g.index)]
  OBVIOUS
<1>8. lis[k].jobs = <<>> /\ (~GreetFirst => down[k] = <<>> /\ ini[k].pc = "hello" /\ Len(up[k]) = 1)
  BY <1>1, <1>2 DEF StageInv
<1>9. /\ lis'[k] = r /\ up'[k] = Tail(up[k]) /\ ini' = ini
      /\ index' = index /\ disk' = disk
      /\ GreetFirst => down' = down
      /\ ~GreetFirst => down'[k] = <<m>>
  BY <1>1, <1>2, <1>3, <1>5, <1>7, <1>8 DEF ListenerHello, Send, TypeOK, files
<1>10. r.pc = "delete" /\ r.remote = g.index /\ r.jobs = <<>>
  BY <1>2, <1>7, <1>8 DEF Listener
<1>11. PICK w : w = Tail(up[k])
  OBVIOUS
<1>12. /\ w \in Seq(Message) /\ Len(w) = Len(up[k]) - 1 /\ Items(w) \subseteq Items(up[k])
       /\ \A i \in 1..Len(w) : w[i] = up[k][i + 1] /\ i + 1 \in 1..Len(up[k]) /\ i + 1 # 1
       /\ Len(up[k]) \in Nat /\ g \in Items(up[k])
  <2>1. /\ w \in Seq(Message) /\ Len(w) = Len(up[k]) - 1 /\ Items(w) \subseteq Items(up[k])
        /\ \A i \in 1..Len(w) : w[i] = up[k][i + 1]
        /\ g \in Items(up[k])
    BY <1>2, <1>3, <1>11, TailWire
  <2>2. Len(up[k]) \in Nat
    BY <1>2, LenProperties
  <2>3. QED BY <2>1, <2>2
<1>13. \A i \in 1..Len(w) : w[i].type # "HELLO"
  BY <1>1, <1>12 DEF StageInv
<1>14. ASSUME ~GreetFirst
       PROVE  Items(down'[k]) = {m} /\ Len(down'[k]) = 1 /\ down'[k] # <<>>
  <2>1. PICK d : d = down'[k]
    OBVIOUS
  <2>2. d = <<m>>
    BY <1>9, <1>14, <2>1
  <2>3. Items(d) = {m} /\ Len(d) = 1 /\ d # <<>>
    BY <2>2 DEF Items
  <2>4. QED BY <2>1, <2>3
<1>15. StageInv(k)'
  <2>1. \A i \in 1..Len(w) :
          /\ w[i].type = "GET_FILE" => /\ i = Len(w) /\ ini[k].pc = "wait"
                                        /\ down'[k] = <<>> /\ w[i].path \notin ini[k].todo
          /\ w[i].type = "ACK" => i = Len(w) /\ ini[k].pc = "idle"
          /\ w[i].type \in {"SYNC_DONE", "FILE_DATA"} => ini[k].pc \in {"push", "idle"}
          /\ w[i].type # "RENAME_FILE"
    <3>1. CASE GreetFirst
      <4>1. \A i \in 1..Len(w) : i + 1 = Len(up[k]) => i = Len(w)
        BY <1>12
      <4>2. QED BY <1>1, <1>9, <1>12, <3>1, <4>1 DEF StageInv
    <3>2. CASE ~GreetFirst
      <4>1. Len(w) = 0
        BY <1>8, <1>12, <3>2
      <4>2. QED BY <4>1
    <3>3. QED BY <3>1, <3>2
  <2>2. Len(down'[k]) <= 1
    <3>1. CASE GreetFirst
      BY <1>1, <1>9, <3>1 DEF StageInv
    <3>2. CASE ~GreetFirst
      <4>1. Len(down'[k]) = 1
        BY <1>14, <3>2
      <4>2. QED BY <4>1
    <3>3. QED BY <3>1, <3>2
  <2>3. ASSUME NEW n \in Items(down'[k])
        PROVE  n.type = "HELLO" /\ ini[k].pc = "hello"
    <3>1. CASE GreetFirst
      <4>1. n \in Items(down[k]) /\ lis[k].pc # "serve"
        BY <1>2, <1>9, <2>3, <3>1
      <4>2. QED BY <1>1, <4>1 DEF StageInv
    <3>2. CASE ~GreetFirst
      BY <1>6, <1>8, <1>14, <2>3, <3>2
    <3>3. QED BY <3>1, <3>2
  <2>4. ini[k].pc = "hello" => down'[k] # <<>>
    BY <1>1, <1>2, <1>9, <1>14 DEF StageInv
  <2>5. QED BY <1>1, <1>9, <1>10, <1>11, <1>13, <2>1, <2>2, <2>3, <2>4 DEF StageInv
<1>16. ASSUME NEW p \in Path PROVE ClockInv(k, p)'
  <2>1. /\ Mine(k, p)' = Mine(k, p) /\ Theirs(k, p)' = Theirs(k, p)
        /\ Theirs(k, p) \in Entry /\ Theirs(k, p) = index[k[2]][p]
    BY <1>1, <1>9, ViewsTyped DEF Mine, Theirs
  <2>2. /\ Hellos(w, p) \subseteq Hellos(up[k], p) /\ Sends(w, p) \subseteq Sends(up[k], p)
        /\ Asks(w, p) => Asks(up[k], p)
        /\ g.index[p] \in Hellos(up[k], p)
    BY <1>2, <1>3, <1>4, <1>11, TailViews
  <2>3. /\ Greeted(k, p)' \subseteq Greeted(k, p) /\ Wanted(k, p)' \subseteq Wanted(k, p)
        /\ Pushed(k, p)' \subseteq Pushed(k, p)
    BY <1>9, <1>10, <1>11, <2>2 DEF Greeted, Wanted, Pushed, If
  <2>4. Pulling(k, p)' = Pulling(k, p) /\ Taking(k, p)' = {}
    BY <1>9, <1>10, EmptyViews DEF Pulling, Taking
  <2>5. ClockInv(k, p) /\ Earlier(Theirs(k, p), Theirs(k, p))
    BY <1>1, <2>1, EarlierSelf
  <2>6. /\ Offered(k, p)' \subseteq Offered(k, p) \cup {Theirs(k, p)}
        /\ Replied(k, p)' \subseteq Replied(k, p)
    <3>1. CASE GreetFirst
      BY <1>9, <3>1 DEF Offered, Replied
    <3>2. CASE ~GreetFirst
      BY <1>6, <1>8, <1>9, <1>14, <2>1, <3>2 DEF Offered, Replied, Hellos, Sends, If
    <3>3. QED BY <3>1, <3>2
  <2>7. Meet(k, Mine(k, p), Theirs(k, p))' /\ HelloInv(k, p)' /\ PullInv(k, p)'
    BY <2>1, <2>3, <2>4, <2>5, <2>6 DEF ClockInv, HelloInv, PullInv
  <2>8. TakeInv(k, p)' /\ ReplyInv(k, p)' /\ PushInv(k, p)'
    BY <2>1, <2>3, <2>4, <2>5, <2>6 DEF ClockInv, TakeInv, ReplyInv, PushInv
  <2>9. QED BY <2>7, <2>8 DEF ClockInv
<1>17. ASSUME NEW p \in Path, NEW x \in Nat, (InFiles(p, x) \/ InSession(k, p, x))'
       PROVE  Has(p, x)
  <2>1. Carries(m, p, x) => InFiles(p, x)
    BY <1>1, <1>6 DEF Carries, InFiles
  <2>2. InFiles(p, x)' => InFiles(p, x)
    BY <1>9 DEF InFiles
  <2>3. Items(down'[k]) \subseteq Items(down[k]) \cup {m}
    BY <1>9, <1>14
  <2>4. InSession(k, p, x)' => InSession(k, p, x) \/ Carries(m, p, x)
    BY <1>9, <1>10, <1>11, <1>12, <2>3, ItemsOf DEF InSession
  <2>5. QED BY <1>17, <2>1, <2>2, <2>4 DEF Has
<1>18. QED BY <1>15, <1>16, <1>17 DEF Kept

\* The listener decides about a deletion.
LEMMA ListenerDeletionKeeps ==
  ASSUME Orderly, SessionInv, NEW k \in Link, NEW q \in Path, ListenerDeletion(k, q)
  PROVE  Kept(k)
<1>1. TypeOK /\ StageInv(k) /\ (\A p \in Path : ClockInv(k, p)) /\ k[2] \in Node
  BY Ends DEF SessionInv
<1>2. /\ lis[k] \in Listener /\ lis[k].pc = "delete" /\ lis[k].jobs = <<>>
      /\ lis[k].remote \in Index
  BY <1>1 DEF ListenerDeletion, At, TypeOK, Listener
<1>3. PICK e \in Entry : e = lis[k].remote[q]
  BY <1>2 DEF Index
<1>4. PICK s \in Seq(Job) : s = Deletion(k[2], lis[k].remote, q)
  BY <1>1, <1>2, DeletionType
<1>5. PICK r : r = [lis[k] EXCEPT !.todo = @ \ {q}, !.jobs = s]
  OBVIOUS
<1>6. /\ lis'[k] = r /\ down' = down /\ up' = up /\ ini' = ini
      /\ index' = index /\ disk' = disk
  BY <1>1, <1>4, <1>5 DEF ListenerDeletion, TypeOK, wires
<1>7. r.pc = "delete" /\ r.remote = lis[k].remote /\ r.jobs = s
  BY <1>2, <1>5 DEF Listener
<1>8. \/ s = <<>>
      \/ /\ s = <<Apply(q, e, NoSum)>> /\ ~Live(e)
         /\ HappensBefore(Theirs(k, q).clock, e.clock)
  <2>1. CASE Confirmed(k[2], lis[k].remote, q)
    <3>1. Theirs(k, q) \in Entry
      BY <1>1, ViewsTyped
    <3>2. Reconcile(Theirs(k, q), e) = "accept_remote"
      BY <1>3, <2>1 DEF Confirmed, Superseded, Theirs
    <3>3. HappensBefore(Theirs(k, q).clock, e.clock)
      BY <3>1, <3>2, Accepted
    <3>4. ~Live(e)
      BY <1>3, <2>1 DEF Confirmed, Superseded, Dead, Live
    <3>5. QED BY <1>3, <1>4, <2>1, <3>3, <3>4 DEF Deletion
  <2>2. QED BY <1>4, <2>1 DEF Deletion
<1>9. NoSum \in Nat /\ Items(s) \subseteq {Apply(q, e, NoSum)} /\ (s # <<>> => Len(s) = 1)
  BY <1>8, OneJob, ItemsOf DEF NoSum
<1> DEFINE j == <<Apply(q, e, NoSum)>>
<1>10. \A p \in Path : /\ q = p => Versions(j, p) = {e}
                       /\ q # p => Versions(j, p) = {}
                       /\ Versions(<<>>, p) = {}
  BY <1>9, OneJob, EmptyViews
<1>11. s = <<>> \/ (s = j /\ ~Live(e))
  BY <1>8
<1> HIDE DEF j
<1>12. StageInv(k)'
  BY <1>1, <1>2, <1>6, <1>7, <1>9 DEF StageInv
<1>13. ASSUME NEW p \in Path PROVE ClockInv(k, p)'
  <2>1. Mine(k, p)' = Mine(k, p) /\ Theirs(k, p)' = Theirs(k, p)
    BY <1>6 DEF Mine, Theirs
  <2>2. Greeted(k, p)' = Greeted(k, p) /\ Offered(k, p)' = Offered(k, p)
    BY <1>2, <1>6, <1>7 DEF Greeted, Offered, If
  <2>3. /\ Wanted(k, p)' = Wanted(k, p) /\ Replied(k, p)' = Replied(k, p)
        /\ Pushed(k, p)' = Pushed(k, p) /\ Pulling(k, p)' = Pulling(k, p)
    BY <1>6 DEF Wanted, Replied, Pushed, Pulling, If
  <2>4. ClockInv(k, p)
    BY <1>1
  <2>5. Taking(k, p)' = Versions(s, p)
    BY <1>6, <1>7 DEF Taking
  <2>6. CASE s = <<>> \/ p # q
    <3>1. Taking(k, p)' = {}
      BY <1>10, <1>11, <2>5, <2>6
    <3>2. QED BY <2>1, <2>2, <2>3, <2>4, <3>1, Shrinks
  <2>7. CASE s # <<>> /\ p = q
    <3>1. HappensBefore(Theirs(k, p).clock, e.clock) /\ Taking(k, p)' = {e}
      BY <1>8, <1>10, <1>11, <2>5, <2>7
    <3>2. e \in Greeted(k, p)
      BY <1>2, <1>3, <2>7 DEF Greeted, If
    <3>3. /\ Meet(k, Mine(k, p), e)
          /\ e.clock[k[1]] > Theirs(k, p).clock[k[1]]
          /\ \A f \in Offered(k, p) : Earlier(f, e)
          /\ \A f \in Pulling(k, p) : Meet(k, f, e)
      BY <1>1, <2>4, <3>1, <3>2, DeleteTheirs
    <3>4. QED BY <2>1, <2>2, <2>3, <2>4, <3>1, <3>3, TakeStarts
  <2>8. QED BY <2>6, <2>7
<1>14. ASSUME NEW p \in Path, NEW x \in Nat, (InFiles(p, x) \/ InSession(k, p, x))'
       PROVE  Has(p, x)
  <2>1. InFiles(p, x)' => InFiles(p, x)
    BY <1>6 DEF InFiles
  <2>2. \A i \in Items(s) : ~Brings(i, p, x)
    <3>1. CASE s = <<>>
      BY <3>1, ItemsOf
    <3>2. CASE ~Live(e)
      BY <1>9, <3>2 DEF Brings, Apply, Is
    <3>3. QED BY <1>11, <3>1, <3>2
  <2>3. InSession(k, p, x)' => InSession(k, p, x)
    BY <1>6, <1>7, <2>2 DEF InSession
  <2>4. QED BY <1>14, <2>1, <2>3 DEF Has
<1>15. QED BY <1>12, <1>13, <1>14 DEF Kept

\* The listener begins to serve.
LEMMA BeginServingKeeps ==
  ASSUME SessionInv, NEW k \in Link, BeginServing(k)
  PROVE  Kept(k)
<1>1. TypeOK /\ StageInv(k) /\ (\A p \in Path : ClockInv(k, p))
  BY DEF SessionInv
<1>2. /\ lis[k] \in Listener /\ lis[k].pc = "delete" /\ lis[k].jobs = <<>>
  BY <1>1 DEF BeginServing, At, TypeOK
<1>3. PICK r : r = [lis[k] EXCEPT !.pc = "serve"]
  OBVIOUS
<1>4. /\ lis'[k] = r /\ down' = down /\ up' = up /\ ini' = ini
      /\ index' = index /\ disk' = disk
  BY <1>1, <1>3 DEF BeginServing, TypeOK, wires, files
<1>5. r.pc = "serve" /\ r.jobs = <<>>
  BY <1>2, <1>3 DEF Listener
<1>6. StageInv(k)'
  BY <1>1, <1>2, <1>4, <1>5 DEF StageInv
<1>7. ASSUME NEW p \in Path PROVE ClockInv(k, p)'
  <2>1. Mine(k, p)' = Mine(k, p) /\ Theirs(k, p)' = Theirs(k, p)
    BY <1>4 DEF Mine, Theirs
  <2>2. Greeted(k, p)' \subseteq Greeted(k, p) /\ Offered(k, p)' = Offered(k, p)
    BY <1>4, <1>5 DEF Greeted, Offered, If
  <2>3. /\ Wanted(k, p)' = Wanted(k, p) /\ Replied(k, p)' = Replied(k, p)
        /\ Pushed(k, p)' = Pushed(k, p) /\ Pulling(k, p)' = Pulling(k, p)
    BY <1>4 DEF Wanted, Replied, Pushed, Pulling, If
  <2>4. Taking(k, p)' = {}
    BY <1>4, <1>5, EmptyViews DEF Taking
  <2>5. QED BY <1>1, <2>1, <2>2, <2>3, <2>4, Shrinks
<1>8. ASSUME NEW p \in Path, NEW x \in Nat, (InFiles(p, x) \/ InSession(k, p, x))'
      PROVE  Has(p, x)
  <2>1. InFiles(p, x)' => InFiles(p, x)
    BY <1>4 DEF InFiles
  <2>2. InSession(k, p, x)' => InSession(k, p, x)
    BY <1>2, <1>4, <1>5 DEF InSession
  <2>3. QED BY <1>8, <2>1, <2>2 DEF Has
<1>9. QED BY <1>6, <1>7, <1>8 DEF Kept

\* The listener answers a request with what it holds now, which is no older
\* than what its HELLO offered.
LEMMA ServeKeeps ==
  ASSUME Orderly, SessionInv, NEW k \in Link, Serve(k)
  PROVE  Kept(k)
<1>1. TypeOK /\ StageInv(k) /\ (\A p \in Path : ClockInv(k, p)) /\ k[2] \in Node
  BY Ends DEF SessionInv
<1>2. /\ lis[k] \in Listener /\ up[k] \in Seq(Message)
      /\ lis[k].pc = "serve" /\ up[k] # <<>> /\ Head(up[k]).type = "GET_FILE"
  BY <1>1 DEF Serve, Got, TypeOK
<1>3. PICK g \in Message : g = Head(up[k])
  BY <1>2, TailWire
<1>4. g.path \in Path /\ g.type = "GET_FILE"
  BY <1>2, <1>3, MessageFields
<1>5. up[k][1] = g /\ 1 \in 1..Len(up[k])
  BY <1>2, <1>3, TailWire
<1>6. /\ Len(up[k]) = 1 /\ ini[k].pc = "wait" /\ down[k] = <<>>
      /\ g.path \notin ini[k].todo /\ lis[k].jobs = <<>> /\ ini[k].jobs = <<>>
  BY <1>1, <1>2, <1>4, <1>5 DEF StageInv
<1>7. Tail(up[k]) = <<>>
  BY <1>2, <1>6, ItemsOf
<1>8. PICK m \in Message :
        m = [type |-> "FILE_DATA", path |-> g.path, entry |-> index[k[2]][g.path],
             content |-> disk[k[2]][g.path].sum]
  <2>1. index[k[2]][g.path] \in Entry /\ disk[k[2]][g.path].sum \in Nat
    BY <1>1, <1>4 DEF TypeOK, Index, File
  <2>2. QED BY <1>4, <2>1 DEF Message
<1>9. /\ m.type = "FILE_DATA" /\ m.path = g.path /\ m.entry = index[k[2]][g.path]
      /\ m.content = disk[k[2]][g.path].sum
  BY <1>8
<1>10. PICK d : d = down'[k]
  OBVIOUS
<1>11. /\ up'[k] = <<>> /\ ini' = ini /\ lis' = lis /\ index' = index /\ disk' = disk
       /\ d = <<>> \/ d = <<m>>
  BY <1>1, <1>3, <1>6, <1>7, <1>8, <1>10 DEF Serve, Send, TypeOK, files
<1>12. Items(d) \subseteq {m} /\ Len(d) <= 1
  <2>1. CASE d = <<>>
    BY <2>1, ItemsOf
  <2>2. CASE d = <<m>>
    BY <2>2 DEF Items
  <2>3. QED BY <1>11, <2>1, <2>2
<1>13. StageInv(k)'
  <2>1. Len(up'[k]) = 0
    BY <1>11
  <2>2. Len(down'[k]) <= 1 /\ Items(down'[k]) \subseteq {m}
    BY <1>10, <1>12
  <2>3. QED BY <1>1, <1>2, <1>6, <1>9, <1>11, <2>1, <2>2 DEF StageInv
<1>14. ASSUME NEW p \in Path PROVE ClockInv(k, p)'
  <2>1. /\ Mine(k, p)' = Mine(k, p) /\ Theirs(k, p)' = Theirs(k, p)
        /\ Theirs(k, p) \in Entry /\ Theirs(k, p) = index[k[2]][p] /\ Mine(k, p) \in Entry
    BY <1>1, <1>11, ViewsTyped DEF Mine, Theirs
  <2>2. Hellos(<<>>, p) = {} /\ Sends(<<>>, p) = {} /\ ~Asks(<<>>, p)
    BY EmptyViews
  <2>3. Hellos(d, p) = {} /\ Sends(d, p) \subseteq {m.entry}
    BY <1>9, <1>12 DEF Hellos, Sends
  <2>4. m.path # p => Sends(d, p) = {}
    BY <1>12 DEF Sends
  <2>5. /\ Greeted(k, p)' = {} /\ Offered(k, p)' \subseteq Offered(k, p)
        /\ Wanted(k, p)' \subseteq Wanted(k, p) /\ Pushed(k, p)' = {}
    BY <1>2, <1>6, <1>10, <1>11, <2>2, <2>3 DEF Greeted, Offered, Wanted, Pushed, If
  <2>6. Pulling(k, p)' = {} /\ Taking(k, p)' = {}
    BY <1>6, <1>11, EmptyViews DEF Pulling, Taking
  <2>7. ClockInv(k, p)
    BY <1>1
  <2>8. Replied(k, p)' = Sends(d, p)
    BY <1>10 DEF Replied
  <2>9. CASE m.path # p
    BY <2>1, <2>4, <2>5, <2>6, <2>7, <2>8, <2>9
       DEF ClockInv, HelloInv, PullInv, TakeInv, ReplyInv, PushInv
  <2>10. CASE m.path = p
    <3>1. PICK e \in Entry : e = ini[k].remote[p]
      BY <1>1, ViewsTyped
    <3>2. Asks(up[k], p)
      BY <1>2, <1>3, <1>9, <2>10, TailViews
    <3>3. e \in Wanted(k, p)
      BY <3>1, <3>2 DEF Wanted, If
    <3>4. e.clock[k[2]] > Mine(k, p).clock[k[2]] /\ Earlier(e, Theirs(k, p))
      <4>1. e \in Offered(k, p)
        BY <1>1, <3>3, Phases
      <4>2. QED BY <2>7, <3>3, <4>1 DEF ClockInv, ReplyInv, HelloInv
    <3>5. Theirs(k, p).clock[k[2]] > Mine(k, p).clock[k[2]]
      <4>1. /\ e.clock[k[2]] \in Nat /\ Theirs(k, p).clock[k[2]] \in Nat
            /\ Mine(k, p).clock[k[2]] \in Nat
        BY <2>1, <3>1, Parts
      <4>2. e.clock[k[2]] <= Theirs(k, p).clock[k[2]]
        BY <2>1, <3>1, <3>4, Parts
      <4>3. QED BY <3>4, <4>1, <4>2
    <3>6. /\ Earlier(Theirs(k, p), Theirs(k, p))
          /\ Theirs(k, p).clock[k[1]] <= Theirs(k, p).clock[k[1]]
      BY <2>1, EarlierSelf, Parts
    <3>7. Replied(k, p)' \subseteq {Theirs(k, p)}
      BY <1>9, <2>1, <2>3, <2>8, <2>10
    <3>8. ReplyInv(k, p)'
      BY <2>1, <2>5, <2>7, <3>5, <3>6, <3>7 DEF ClockInv, ReplyInv
    <3>9. QED BY <2>1, <2>5, <2>6, <2>7, <3>8
              DEF ClockInv, HelloInv, PullInv, TakeInv, PushInv
  <2>11. QED BY <2>9, <2>10
<1>15. ASSUME NEW p \in Path, NEW x \in Nat, (InFiles(p, x) \/ InSession(k, p, x))'
       PROVE  Has(p, x)
  <2>1. InFiles(p, x)' => InFiles(p, x)
    BY <1>11 DEF InFiles
  <2>2. Carries(m, p, x) => InFiles(p, x)
    BY <1>1, <1>9 DEF Carries, InFiles
  <2>3. InSession(k, p, x)' => InSession(k, p, x) \/ Carries(m, p, x)
    BY <1>10, <1>11, <1>12, ItemsOf DEF InSession
  <2>4. QED BY <1>15, <2>1, <2>2, <2>3 DEF Has
<1>16. QED BY <1>13, <1>14, <1>15 DEF Kept

\* The listener reads the end of the pull phase.
LEMMA ServeDoneKeeps ==
  ASSUME SessionInv, NEW k \in Link, ServeDone(k)
  PROVE  Kept(k)
<1>1. TypeOK /\ StageInv(k) /\ (\A p \in Path : ClockInv(k, p))
  BY DEF SessionInv
<1>2. /\ lis[k] \in Listener /\ up[k] \in Seq(Message)
      /\ lis[k].pc = "serve" /\ up[k] # <<>> /\ Head(up[k]).type = "SYNC_DONE"
  BY <1>1 DEF ServeDone, Got, TypeOK
<1>3. up[k][1].type = "SYNC_DONE" /\ 1 \in 1..Len(up[k])
  BY <1>2, TailWire
<1>4. ini[k].pc \in {"push", "idle"} /\ lis[k].jobs = <<>>
  BY <1>1, <1>2, <1>3 DEF StageInv
<1>5. PICK r : r = [lis[k] EXCEPT !.pc = "accept"]
  OBVIOUS
<1>6. PICK w : w = Tail(up[k])
  OBVIOUS
<1>7. /\ lis'[k] = r /\ down' = down /\ up'[k] = w /\ ini' = ini
      /\ index' = index /\ disk' = disk
  BY <1>1, <1>5, <1>6 DEF ServeDone, TypeOK, files
<1>8. r.pc = "accept" /\ r.jobs = <<>>
  BY <1>2, <1>4, <1>5 DEF Listener
<1>9. /\ Items(down[k]) = {} /\ down[k] = <<>>
  <2>1. Items(down[k]) = {}
    BY <1>1, <1>4 DEF StageInv
  <2>2. down[k] \in Seq(Message)
    BY <1>1 DEF TypeOK
  <2>3. QED BY <2>1, <2>2, TailWire
<1>10. /\ w \in Seq(Message) /\ Len(w) = Len(up[k]) - 1 /\ Items(w) \subseteq Items(up[k])
       /\ \A i \in 1..Len(w) : w[i] = up[k][i + 1] /\ i + 1 \in 1..Len(up[k]) /\ i + 1 # 1
       /\ Len(up[k]) \in Nat
  <2>1. /\ w \in Seq(Message) /\ Len(w) = Len(up[k]) - 1 /\ Items(w) \subseteq Items(up[k])
        /\ \A i \in 1..Len(w) : w[i] = up[k][i + 1]
    BY <1>2, <1>6, TailWire
  <2>2. Len(up[k]) \in Nat
    BY <1>2, LenProperties
  <2>3. QED BY <2>1, <2>2
<1>11. StageInv(k)'
  <2>1. \A i \in 1..Len(w) : i + 1 = Len(up[k]) => i = Len(w)
    BY <1>10
  <2>2. \A i \in 1..Len(w) :
          /\ w[i].type \notin {"HELLO", "GET_FILE", "RENAME_FILE"}
          /\ w[i].type = "ACK" => i = Len(w) /\ ini[k].pc = "idle"
    BY <1>1, <1>4, <1>10, <2>1 DEF StageInv
  <2>3. QED BY <1>1, <1>4, <1>7, <1>8, <1>9, <2>2 DEF StageInv
<1>12. ASSUME NEW p \in Path PROVE ClockInv(k, p)'
  <2>1. Mine(k, p)' = Mine(k, p) /\ Theirs(k, p)' = Theirs(k, p)
    BY <1>7 DEF Mine, Theirs
  <2>2. /\ Hellos(w, p) \subseteq Hellos(up[k], p) /\ Sends(w, p) \subseteq Sends(up[k], p)
        /\ Asks(w, p) => Asks(up[k], p)
    BY <1>2, <1>6, TailViews
  <2>3. /\ Greeted(k, p)' \subseteq Greeted(k, p) /\ Offered(k, p)' = Offered(k, p)
        /\ Wanted(k, p)' \subseteq Wanted(k, p) /\ Replied(k, p)' = Replied(k, p)
        /\ Pushed(k, p)' \subseteq Pushed(k, p)
    BY <1>7, <1>8, <2>2 DEF Greeted, Offered, Wanted, Replied, Pushed, If
  <2>4. Pulling(k, p)' = Pulling(k, p) /\ Taking(k, p)' = {}
    BY <1>7, <1>8, EmptyViews DEF Pulling, Taking
  <2>5. QED BY <1>1, <2>1, <2>3, <2>4, Shrinks
<1>13. ASSUME NEW p \in Path, NEW x \in Nat, (InFiles(p, x) \/ InSession(k, p, x))'
       PROVE  Has(p, x)
  <2>1. InFiles(p, x)' => InFiles(p, x)
    BY <1>7 DEF InFiles
  <2>2. InSession(k, p, x)' => InSession(k, p, x)
    BY <1>4, <1>7, <1>8, <1>10 DEF InSession
  <2>3. QED BY <1>13, <2>1, <2>2 DEF Has
<1>14. QED BY <1>11, <1>12, <1>13 DEF Kept

\* The listener reads the end of the session.
LEMMA AcceptAckKeeps ==
  ASSUME SessionInv, NEW k \in Link, AcceptAck(k)
  PROVE  Kept(k)
<1>1. TypeOK /\ StageInv(k) /\ (\A p \in Path : ClockInv(k, p))
  BY DEF SessionInv
<1>2. /\ lis[k] \in Listener /\ up[k] \in Seq(Message) /\ lis[k].jobs = <<>>
      /\ lis[k].pc = "accept" /\ up[k] # <<>> /\ Head(up[k]).type = "ACK"
  BY <1>1 DEF AcceptAck, At, Got, TypeOK
<1>3. up[k][1].type = "ACK" /\ 1 \in 1..Len(up[k])
  BY <1>2, TailWire
<1>4. ini[k].pc = "idle" /\ Len(up[k]) = 1
  BY <1>1, <1>2, <1>3 DEF StageInv
<1>5. PICK r : r = IdleListener
  OBVIOUS
<1>6. /\ lis'[k] = r /\ down' = down /\ up'[k] = <<>> /\ ini' = ini
      /\ index' = index /\ disk' = disk
  <2>1. Tail(up[k]) = <<>>
    BY <1>2, <1>4, ItemsOf
  <2>2. QED BY <1>1, <1>5, <2>1 DEF AcceptAck, TypeOK, files
<1>7. r.pc = "idle" /\ r.jobs = <<>>
  BY <1>5 DEF IdleListener
<1>8. /\ Items(down[k]) = {} /\ down[k] = <<>>
  <2>1. Items(down[k]) = {}
    BY <1>1, <1>4 DEF StageInv
  <2>2. down[k] \in Seq(Message)
    BY <1>1 DEF TypeOK
  <2>3. QED BY <2>1, <2>2, TailWire
<1>9. StageInv(k)'
  <2>1. Len(up'[k]) = 0
    BY <1>6
  <2>2. QED BY <1>1, <1>4, <1>6, <1>7, <1>8, <2>1 DEF StageInv
<1>10. ASSUME NEW p \in Path PROVE ClockInv(k, p)'
  <2>1. Mine(k, p)' = Mine(k, p) /\ Theirs(k, p)' = Theirs(k, p)
    BY <1>6 DEF Mine, Theirs
  <2>2. Hellos(<<>>, p) = {} /\ Sends(<<>>, p) = {} /\ ~Asks(<<>>, p)
    BY EmptyViews
  <2>3. /\ Greeted(k, p)' = {} /\ Offered(k, p)' = Offered(k, p)
        /\ Wanted(k, p)' \subseteq Wanted(k, p) /\ Replied(k, p)' = Replied(k, p)
        /\ Pushed(k, p)' \subseteq Pushed(k, p)
    BY <1>6, <1>7, <2>2 DEF Greeted, Offered, Wanted, Replied, Pushed, If
  <2>4. Pulling(k, p)' = Pulling(k, p) /\ Taking(k, p)' = {}
    BY <1>6, <1>7, EmptyViews DEF Pulling, Taking
  <2>5. QED BY <1>1, <2>1, <2>3, <2>4, Shrinks
<1>11. ASSUME NEW p \in Path, NEW x \in Nat, (InFiles(p, x) \/ InSession(k, p, x))'
       PROVE  Has(p, x)
  <2>1. InFiles(p, x)' => InFiles(p, x)
    BY <1>6 DEF InFiles
  <2>2. InSession(k, p, x)' => InSession(k, p, x)
    BY <1>6, <1>7, ItemsOf DEF InSession
  <2>3. QED BY <1>11, <2>1, <2>2 DEF Has
<1>12. QED BY <1>9, <1>10, <1>11 DEF Kept

\* The listener takes a pushed file: what the initiator has, and news to it.
LEMMA AcceptFileKeeps ==
  ASSUME Orderly, SessionInv, NEW k \in Link, AcceptFile(k)
  PROVE  Kept(k)
<1>1. TypeOK /\ StageInv(k) /\ (\A p \in Path : ClockInv(k, p)) /\ k[2] \in Node
  BY Ends DEF SessionInv
<1>2. /\ lis[k] \in Listener /\ up[k] \in Seq(Message) /\ lis[k].jobs = <<>>
      /\ lis[k].pc = "accept" /\ up[k] # <<>> /\ Head(up[k]).type = "FILE_DATA"
  BY <1>1 DEF AcceptFile, At, Got, TypeOK
<1>3. PICK m \in Message : m = Head(up[k])
  BY <1>2, TailWire
<1>4. m.path \in Path /\ m.entry \in Entry /\ m.content \in Nat /\ m.type = "FILE_DATA"
  BY <1>2, <1>3, MessageFields
<1>5. PICK j \in Seq(Job) : j = <<Apply(m.path, m.entry, m.content)>>
  BY <1>4, ApplyJob
<1>6. /\ Len(j) = 1 /\ Items(j) = {Apply(m.path, m.entry, m.content)}
      /\ \A p \in Path : /\ m.path = p => Versions(j, p) = {m.entry}
                         /\ m.path # p => Versions(j, p) = {}
  BY <1>4, <1>5, OneJob
<1>7. PICK s : s = IF Accept(Strategy, index[k[2]][m.path], m.entry) THEN j ELSE <<>>
  OBVIOUS
<1>8. PICK r : r = [lis[k] EXCEPT !.jobs = s]
  OBVIOUS
<1>9. PICK w : w = Tail(up[k])
  OBVIOUS
<1>10. /\ lis'[k] = r /\ down' = down /\ up'[k] = w /\ ini' = ini
       /\ index' = index /\ disk' = disk
  <2>1. /\ down' = down /\ up'[k] = w /\ ini' = ini /\ index' = index /\ disk' = disk
    BY <1>1, <1>9 DEF AcceptFile, TypeOK
  <2>2. CASE Accept(Strategy, index[k[2]][m.path], m.entry)
    BY <1>1, <1>3, <1>5, <1>7, <1>8, <2>1, <2>2 DEF AcceptFile, TypeOK
  <2>3. CASE ~Accept(Strategy, index[k[2]][m.path], m.entry)
    <3>1. lis' = lis /\ s = <<>>
      BY <1>3, <1>7, <2>3 DEF AcceptFile
    <3>2. r = lis[k]
      BY <1>2, <1>8, <3>1 DEF Listener
    <3>3. QED BY <2>1, <3>1, <3>2
  <2>4. QED BY <2>2, <2>3
<1>11. r.pc = "accept" /\ r.remote = lis[k].remote /\ r.jobs = s
  BY <1>2, <1>8 DEF Listener
<1>12. /\ Items(down[k]) = {} /\ down[k] = <<>> /\ ini[k].pc \in {"push", "idle"}
  <2>1. Items(down[k]) = {} /\ ini[k].pc \in {"push", "idle"}
    BY <1>1, <1>2 DEF StageInv
  <2>2. down[k] \in Seq(Message)
    BY <1>1 DEF TypeOK
  <2>3. QED BY <2>1, <2>2, TailWire
<1>13. /\ w \in Seq(Message) /\ Len(w) = Len(up[k]) - 1 /\ Items(w) \subseteq Items(up[k])
       /\ \A i \in 1..Len(w) : w[i] = up[k][i + 1] /\ i + 1 \in 1..Len(up[k]) /\ i + 1 # 1
       /\ Len(up[k]) \in Nat /\ m \in Items(up[k])
  <2>1. /\ w \in Seq(Message) /\ Len(w) = Len(up[k]) - 1 /\ Items(w) \subseteq Items(up[k])
        /\ \A i \in 1..Len(w) : w[i] = up[k][i + 1]
        /\ m \in Items(up[k])
    BY <1>2, <1>3, <1>9, TailWire
  <2>2. Len(up[k]) \in Nat
    BY <1>2, LenProperties
  <2>3. QED BY <2>1, <2>2
<1>14. s # <<>> => Len(s) = 1
  BY <1>6, <1>7
<1>15. StageInv(k)'
  <2>1. \A i \in 1..Len(w) : i + 1 = Len(up[k]) => i = Len(w)
    BY <1>13
  <2>2. \A i \in 1..Len(w) :
          /\ w[i].type \notin {"HELLO", "GET_FILE", "RENAME_FILE"}
          /\ w[i].type = "ACK" => i = Len(w) /\ ini[k].pc = "idle"
    BY <1>1, <1>12, <1>13, <2>1 DEF StageInv
  <2>3. QED BY <1>1, <1>10, <1>11, <1>12, <1>14, <2>2 DEF StageInv
<1>16. ASSUME NEW p \in Path PROVE ClockInv(k, p)'
  <2>1. /\ Mine(k, p)' = Mine(k, p) /\ Theirs(k, p)' = Theirs(k, p)
        /\ Mine(k, p) \in Entry /\ Theirs(k, p) \in Entry /\ Theirs(k, p) = index[k[2]][p]
    BY <1>1, <1>10, ViewsTyped DEF Mine, Theirs
  <2>2. /\ Hellos(w, p) \subseteq Hellos(up[k], p) /\ Sends(w, p) \subseteq Sends(up[k], p)
        /\ Asks(w, p) => Asks(up[k], p)
    BY <1>2, <1>9, TailViews
  <2>3. /\ Greeted(k, p)' \subseteq Greeted(k, p) /\ Offered(k, p)' = Offered(k, p)
        /\ Wanted(k, p)' \subseteq Wanted(k, p) /\ Replied(k, p)' = Replied(k, p)
        /\ Pushed(k, p)' \subseteq Pushed(k, p) /\ Pulling(k, p)' = Pulling(k, p)
    BY <1>2, <1>10, <1>11, <2>2 DEF Greeted, Offered, Wanted, Replied, Pushed, Pulling, If
  <2>4. Taking(k, p)' = Versions(s, p)
    BY <1>10, <1>11 DEF Taking
  <2>5. ClockInv(k, p)
    BY <1>1
  <2>6. CASE s = <<>> \/ m.path # p
    <3>1. Taking(k, p)' = {}
      BY <1>6, <1>7, <2>4, <2>6, EmptyViews
    <3>2. QED BY <2>1, <2>3, <2>5, <3>1, Shrinks
  <2>7. CASE s # <<>> /\ m.path = p
    <3>1. Accept(Strategy, Theirs(k, p), m.entry) /\ Taking(k, p)' \subseteq {m.entry}
      BY <1>6, <1>7, <2>1, <2>4, <2>7
    <3>2. m.entry \in Pushed(k, p)
      BY <1>2, <1>3, <2>7, TailViews DEF Pushed
    <3>3. /\ Earlier(m.entry, Mine(k, p))
          /\ Mine(k, p).clock[k[2]] <= m.entry.clock[k[2]]
          /\ Meet(k, Mine(k, p), Theirs(k, p))
      BY <2>5, <3>2 DEF ClockInv, PushInv
    <3>4. \/ m.entry.clock[k[1]] > Theirs(k, p).clock[k[1]]
          \/ m.entry.clock[k[2]] > Theirs(k, p).clock[k[2]]
      BY <1>4, <2>1, <3>1, Accepted
    <3>5. /\ Meet(k, Mine(k, p), m.entry)
          /\ m.entry.clock[k[1]] > Theirs(k, p).clock[k[1]]
      BY <1>4, <2>1, <3>3, <3>4, Parts
    <3>6. Offered(k, p) = {} /\ Pulling(k, p) = {}
      BY <1>1, <1>2, Phases
    <3>7. QED BY <2>1, <2>3, <2>5, <3>1, <3>5, <3>6, TakeStarts
  <2>8. QED BY <2>6, <2>7
<1>17. ASSUME NEW p \in Path, NEW x \in Nat, (InFiles(p, x) \/ InSession(k, p, x))'
       PROVE  Has(p, x)
  <2>1. InFiles(p, x)' => InFiles(p, x)
    BY <1>10 DEF InFiles
  <2>2. \A i \in Items(s) : Brings(i, p, x) => Carries(m, p, x)
    <3>1. Brings(Apply(m.path, m.entry, m.content), p, x) => Carries(m, p, x)
      BY <1>4 DEF Brings, Apply, Carries
    <3>2. QED BY <1>6, <1>7, <3>1, ItemsOf
  <2>3. InSession(k, p, x)' => InSession(k, p, x)
    BY <1>10, <1>11, <1>13, <2>2 DEF InSession
  <2>4. QED BY <1>17, <2>1, <2>3 DEF Has
<1>18. QED BY <1>15, <1>16, <1>17 DEF Kept

\* The worker thread installs a version at the listener.
LEMMA ListenerJobKeeps ==
  ASSUME Orderly, SessionInv, NEW k \in Link, ListenerJob(k)
  PROVE  /\ Kept(k)
         /\ \A n \in Node, p \in Path : ~HappensBefore(index'[n][p].clock, index[n][p].clock)
<1>1. /\ TypeOK /\ StageInv(k) /\ (\A p \in Path : ClockInv(k, p))
      /\ k[1] \in Node /\ k[2] \in Node /\ k[1] # k[2]
  BY TwoEnds DEF SessionInv
<1>2. /\ lis[k] \in Listener /\ lis[k].jobs \in Seq(Job) /\ lis[k].jobs # <<>>
      /\ lis[k].pc \in {"delete", "accept"} /\ Len(lis[k].jobs) = 1
  BY <1>1 DEF ListenerJob, TypeOK, Listener, StageInv
<1>3. PICK j \in Job : j = Head(lis[k].jobs)
  BY <1>2, HeadTailProperties
<1>4. Tail(lis[k].jobs) = <<>> /\ Items(lis[k].jobs) = {j}
  BY <1>2, <1>3, ItemsOf
<1>5. PICK r : r = [lis[k] EXCEPT !.jobs = <<>>]
  OBVIOUS
<1>6. /\ lis'[k] = r /\ up' = up /\ down' = down /\ ini' = ini /\ Applied(k[2], j)
  BY <1>1, <1>3, <1>4, <1>5 DEF ListenerJob, Applied, TypeOK, wires
<1>7. r.pc = lis[k].pc /\ r.remote = lis[k].remote /\ r.jobs = <<>>
  BY <1>2, <1>5 DEF Listener
<1>8. j.path \in Path /\ j.entry \in Entry
  BY DEF Job
<1>9. /\ \A i \in Node, p \in Path : i # k[2] \/ p # j.path =>
           index'[i][p] = index[i][p] /\ disk'[i][p] = disk[i][p]
      /\ index'[k[2]][j.path].clock = j.entry.clock
      /\ index'[k[2]][j.path].sum = j.entry.sum
      /\ index'[k[2]][j.path].deleted = j.entry.deleted
      /\ \/ disk'[k[2]][j.path] = Absent \/ disk'[k[2]][j.path] = disk[k[2]][j.path]
         \/ disk'[k[2]][j.path].sum = j.content
  BY <1>1, <1>6, AppliedWhat
<1>10. StageInv(k)'
  BY <1>1, <1>6, <1>7 DEF StageInv
<1>11. ASSUME NEW p \in Path
       PROVE  ClockInv(k, p)' /\ ~HappensBefore(Theirs(k, p)'.clock, Theirs(k, p).clock)
  <2>1. Mine(k, p)' = Mine(k, p)
    BY <1>1, <1>9 DEF Mine
  <2>2. /\ Greeted(k, p)' = Greeted(k, p) /\ Offered(k, p)' = Offered(k, p)
        /\ Wanted(k, p)' = Wanted(k, p) /\ Replied(k, p)' = Replied(k, p)
        /\ Pushed(k, p)' = Pushed(k, p)
    BY <1>6, <1>7 DEF Greeted, Offered, Wanted, Replied, Pushed, If
  <2>3. Taking(k, p)' = {} /\ Pulling(k, p)' = Pulling(k, p)
    BY <1>6, <1>7, EmptyViews DEF Pulling, Taking
  <2>4. ClockInv(k, p)
    BY <1>1
  <2>5. CASE p # j.path
    <3>1. Theirs(k, p)' = Theirs(k, p)
      BY <1>1, <1>9, <2>5 DEF Theirs
    <3>2. ClockInv(k, p)'
      BY <2>1, <2>2, <2>3, <2>4, <3>1, Shrinks
    <3>3. Theirs(k, p).clock \in Clock
      BY <1>1, ViewsTyped DEF Entry
    <3>4. QED BY <3>1, <3>2, <3>3, HappensBeforeStrict
  <2>6. CASE p = j.path
    <3>1. Theirs(k, p)'.clock = j.entry.clock /\ Theirs(k, p)'.sum = j.entry.sum
      BY <1>9, <2>6 DEF Theirs
    <3>2. j.entry \in Taking(k, p)
      BY <1>4, <2>6 DEF Taking, Versions
    <3>3. QED BY <1>1, <2>1, <2>2, <2>3, <2>4, <3>1, <3>2, TheirsInstalled
  <2>7. QED BY <2>5, <2>6
<1>12. ASSUME NEW n \in Node, NEW p \in Path
       PROVE  ~HappensBefore(index'[n][p].clock, index[n][p].clock)
  <2>1. CASE n = k[2]
    BY <1>11, <2>1 DEF Theirs
  <2>2. CASE n # k[2]
    <3>1. index'[n][p] = index[n][p] /\ index[n][p].clock \in Clock
      BY <1>1, <1>9, <2>2 DEF TypeOK, Index, Entry
    <3>2. QED BY <3>1, HappensBeforeStrict
  <2>3. QED BY <2>1, <2>2
<1>13. ASSUME NEW p \in Path, NEW x \in Nat, (InFiles(p, x) \/ InSession(k, p, x))'
       PROVE  Has(p, x)
  <2>1. Brings(j, p, x) => InSession(k, p, x)
    BY <1>4 DEF InSession
  <2>2. InSession(k, p, x)' => InSession(k, p, x)
    BY <1>6, <1>7, ItemsOf DEF InSession
  <2>3. InFiles(p, x)' => InFiles(p, x) \/ Brings(j, p, x)
    <3>1. ASSUME NEW n \in Node, (disk[n][p].sum = x /\ x # NoSum)' \/ Is(index[n][p], x)'
          PROVE  InFiles(p, x) \/ Brings(j, p, x)
      <4>1. CASE n # k[2] \/ p # j.path
        BY <1>9, <3>1, <4>1 DEF InFiles
      <4>2. CASE n = k[2] /\ p = j.path
        <5>1. Is(index[n][p], x)' => Is(j.entry, x)
          BY <1>9, <4>2 DEF Is, Live
        <5>2. (disk[n][p].sum = x /\ x # NoSum)' =>
                (disk[n][p].sum = x /\ x # NoSum) \/ (j.content = x /\ x # NoSum)
          BY <1>9, <4>2 DEF Absent
        <5>3. QED BY <3>1, <4>2, <5>1, <5>2 DEF InFiles, Brings
      <4>3. QED BY <4>1, <4>2
    <3>2. QED BY <3>1 DEF InFiles
  <2>4. QED BY <1>13, <2>1, <2>2, <2>3 DEF Has
<1>14. QED BY <1>10, <1>11, <1>12, <1>13 DEF Kept

-----------------------------------------------------------------------------
(* Every step of a link                                                    *)

\* Where no content has a second name there is nothing to rename.
LEMMA NoRenames ==
  ASSUME SessionInv, NEW k \in Link
  PROVE  ~AcceptRename(k) /\ \A m \in Path \X Path : ~InitiatorRename(k, m)
<1>1. StageInv(k) /\ up[k] \in Seq(Message)
  BY DEF SessionInv, TypeOK
<1>2. ASSUME AcceptRename(k) PROVE FALSE
  <2>1. up[k] # <<>> /\ Head(up[k]).type = "RENAME_FILE"
    BY <1>2 DEF AcceptRename, Got
  <2>2. up[k][1].type = "RENAME_FILE" /\ 1 \in 1..Len(up[k])
    BY <1>1, <2>1, TailWire
  <2>3. QED BY <1>1, <2>2 DEF StageInv
<1>3. QED BY <1>1, <1>2 DEF InitiatorRename, StageInv

\* The connection of k is lost: what was installed stays installed.
LEMMA DropKeeps ==
  ASSUME SessionInv, NEW k \in Link, Drop(k)
  PROVE  Kept(k)
<1>1. TypeOK /\ StageInv(k) /\ (\A p \in Path : ClockInv(k, p))
  BY DEF SessionInv
<1>2. PICK i : i = IdleInitiator
  OBVIOUS
<1>3. PICK l : l = IdleListener
  OBVIOUS
<1>4. /\ ini'[k] = i /\ lis'[k] = l /\ up'[k] = <<>> /\ down'[k] = <<>>
      /\ index' = index /\ disk' = disk
  BY <1>1, <1>2, <1>3 DEF Drop, TypeOK
<1>5. /\ i.pc = "idle" /\ i.jobs = <<>> /\ i.moves = {} /\ i.todo = {}
      /\ i.remote = EmptyIndex /\ i.snap = EmptyIndex
      /\ l.pc = "idle" /\ l.jobs = <<>>
  BY <1>2, <1>3 DEF IdleInitiator, IdleListener
<1>6. StageInv(k)'
  <2>1. Len(up'[k]) = 0 /\ Len(down'[k]) = 0 /\ Items(down'[k]) = {}
    BY <1>4, ItemsOf
  <2>2. QED BY <1>4, <1>5, <2>1 DEF StageInv
<1>7. ASSUME NEW p \in Path PROVE ClockInv(k, p)'
  <2>1. Mine(k, p)' = Mine(k, p) /\ Theirs(k, p)' = Theirs(k, p)
    BY <1>4 DEF Mine, Theirs
  <2>2. Hellos(<<>>, p) = {} /\ Sends(<<>>, p) = {} /\ ~Asks(<<>>, p)
    BY EmptyViews
  <2>3. /\ Greeted(k, p)' = {} /\ Offered(k, p)' = {} /\ Wanted(k, p)' = {}
        /\ Replied(k, p)' = {} /\ Pushed(k, p)' = {}
    BY <1>4, <1>5, <2>2 DEF Greeted, Offered, Wanted, Replied, Pushed, If
  <2>4. Pulling(k, p)' = {} /\ Taking(k, p)' = {}
    BY <1>4, <1>5, EmptyViews DEF Pulling, Taking
  <2>5. QED BY <1>1, <2>1, <2>3, <2>4, Shrinks
<1>8. ASSUME NEW p \in Path, NEW x \in Nat, (InFiles(p, x) \/ InSession(k, p, x))'
      PROVE  Has(p, x)
  <2>1. InFiles(p, x)' => InFiles(p, x)
    BY <1>4 DEF InFiles
  <2>2. ~Is(EmptyIndex[p], x)
    BY DEF Is, EmptyIndex, NoEntry, Live
  <2>3. ~InSession(k, p, x)'
    BY <1>4, <1>5, <2>2, ItemsOf DEF InSession
  <2>4. QED BY <1>8, <2>1, <2>3 DEF Has
<1>9. QED BY <1>6, <1>7, <1>8 DEF Kept

\* Whatever a link does, it keeps what holds of it, and no version is replaced
\* by an older one.
LEMMA LinkKeeps ==
  ASSUME Orderly, SessionInv, NEW k \in Link, Initiate(k) \/ Listen(k) \/ Drop(k)
  PROVE  /\ Kept(k)
         /\ \A n \in Node, p \in Path : ~HappensBefore(index'[n][p].clock, index[n][p].clock)
<1>1. TypeOK
  BY DEF SessionInv
<1>2. ASSUME index' = index
      PROVE  \A n \in Node, p \in Path : ~HappensBefore(index'[n][p].clock, index[n][p].clock)
  <2>1. \A n \in Node, p \in Path : index[n][p].clock \in Clock
    BY <1>1 DEF TypeOK, Index, Entry
  <2>2. QED BY <1>2, <2>1, HappensBeforeStrict
<1>3. CASE Connect(k)
  BY <1>2, <1>3, ConnectKeeps DEF Connect, files
<1>4. CASE InitiatorHello(k)
  BY <1>2, <1>4, InitiatorHelloKeeps DEF InitiatorHello, files
<1>5. ASSUME NEW p \in Path, InitiatorDeletion(k, p)
      PROVE  Kept(k) /\ index' = index
  BY <1>5, InitiatorDeletionKeeps DEF InitiatorDeletion
<1>6. ASSUME NEW p \in Path, RequestFile(k, p)
      PROVE  Kept(k) /\ index' = index
  BY <1>6, RequestFileKeeps DEF RequestFile, files
<1>7. ASSUME NEW p \in Path, Push(k, p)
      PROVE  Kept(k) /\ index' = index
  BY <1>7, PushKeeps DEF Push, files
<1>8. ASSUME NEW q \in [Path -> Path], FindRenames(k, q)
      PROVE  Kept(k) /\ index' = index
  BY <1>8, FindRenamesKeeps DEF FindRenames, files
<1>9. ASSUME NEW q \in [Path -> Path], FinishPull(k, q)
      PROVE  Kept(k) /\ index' = index
  BY <1>9, FinishPullKeeps DEF FinishPull, files
<1>10. CASE ComputeNeeded(k)
  BY <1>2, <1>10, ComputeNeededKeeps DEF ComputeNeeded
<1>11. CASE ReceiveFile(k)
  BY <1>2, <1>11, ReceiveFileKeeps DEF ReceiveFile, files
<1>12. CASE FinishPush(k)
  BY <1>2, <1>12, FinishPushKeeps DEF FinishPush, files
<1>13. CASE InitiatorJob(k)
  BY <1>13, InitiatorJobKeeps
<1>14. CASE Greet(k)
  BY <1>2, <1>14, GreetKeeps DEF Greet, files
<1>15. CASE ListenerHello(k)
  BY <1>2, <1>15, ListenerHelloKeeps DEF ListenerHello, files
<1>16. ASSUME NEW p \in Path, ListenerDeletion(k, p)
       PROVE  Kept(k) /\ index' = index
  BY <1>16, ListenerDeletionKeeps DEF ListenerDeletion
<1>17. CASE BeginServing(k)
  BY <1>2, <1>17, BeginServingKeeps DEF BeginServing, files
<1>18. CASE Serve(k)
  BY <1>2, <1>18, ServeKeeps DEF Serve, files
<1>19. CASE ServeDone(k)
  BY <1>2, <1>19, ServeDoneKeeps DEF ServeDone, files
<1>20. CASE AcceptFile(k)
  BY <1>2, <1>20, AcceptFileKeeps DEF AcceptFile
<1>21. CASE AcceptAck(k)
  BY <1>2, <1>21, AcceptAckKeeps DEF AcceptAck, files
<1>22. CASE ListenerJob(k)
  BY <1>22, ListenerJobKeeps
<1>23. CASE Drop(k)
  BY <1>2, <1>23, DropKeeps DEF Drop
<1>24. CASE Initiate(k)
  BY <1>2, <1>3, <1>4, <1>5, <1>6, <1>7, <1>8, <1>9, <1>10, <1>11, <1>12, <1>13, <1>24,
     NoRenames DEF Initiate
<1>25. CASE Listen(k)
  BY <1>2, <1>14, <1>15, <1>16, <1>17, <1>18, <1>19, <1>20, <1>21, <1>22, <1>25,
     NoRenames DEF Listen
<1>26. QED BY <1>23, <1>24, <1>25

\* A step of one link leaves the coroutines and connections of the others.
LEMMA OthersStay ==
  ASSUME TypeOK, NEW k \in Link, NEW l \in Link, Initiate(k) \/ Listen(k) \/ Drop(k)
  PROVE  /\ l # k => /\ ini'[l] = ini[l] /\ lis'[l] = lis[l]
                     /\ up'[l] = up[l] /\ down'[l] = down[l]
         /\ now' \in {now, now + 1}
<1> DEFINE Same == /\ l # k => /\ ini'[l] = ini[l] /\ lis'[l] = lis[l]
                               /\ up'[l] = up[l] /\ down'[l] = down[l]
                   /\ now' \in {now, now + 1}
<1>1. CASE Connect(k) \/ InitiatorHello(k) \/ ReceiveFile(k) \/ FinishPush(k)
  BY <1>1 DEF Connect, InitiatorHello, ReceiveFile, FinishPush, Send, TypeOK, files
<1>2. ASSUME NEW p \in Path, InitiatorDeletion(k, p) \/ RequestFile(k, p)
      PROVE  Same
  BY <1>2 DEF InitiatorDeletion, RequestFile, Send, TypeOK, files, wires
<1>3. ASSUME NEW p \in Path, Push(k, p)
      PROVE  Same
  BY <1>3 DEF Push, Send, TypeOK, files
<1>4. ASSUME NEW q \in [Path -> Path], FindRenames(k, q) \/ FinishPull(k, q)
      PROVE  Same
  BY <1>4 DEF FindRenames, FinishPull, Send, TypeOK, files, wires
<1>5. ASSUME NEW m \in Path \X Path, InitiatorRename(k, m)
      PROVE  Same
  BY <1>5 DEF InitiatorRename, TypeOK, wires
<1>6. CASE ComputeNeeded(k)
  BY <1>6 DEF ComputeNeeded, TypeOK, wires
<1>7. CASE InitiatorJob(k) \/ ListenerJob(k)
  BY <1>7 DEF InitiatorJob, ListenerJob, Applied, TypeOK, wires
<1>8. CASE Greet(k) \/ ListenerHello(k)
  BY <1>8 DEF Greet, ListenerHello, Send, TypeOK, files
<1>9. ASSUME NEW p \in Path, ListenerDeletion(k, p)
      PROVE  Same
  BY <1>9 DEF ListenerDeletion, TypeOK, wires
<1>10. CASE BeginServing(k) \/ ServeDone(k) \/ AcceptAck(k)
  BY <1>10 DEF BeginServing, ServeDone, AcceptAck, TypeOK, files, wires
<1>11. CASE Serve(k)
  BY <1>11 DEF Serve, Send, TypeOK, files
<1>12. CASE AcceptFile(k)
  BY <1>12 DEF AcceptFile, TypeOK
<1>13. CASE AcceptRename(k)
  BY <1>13 DEF AcceptRename, TypeOK
<1>14. CASE Drop(k)
  BY <1>14 DEF Drop, TypeOK
<1>15. CASE Initiate(k)
  BY <1>1, <1>2, <1>3, <1>4, <1>5, <1>6, <1>7, <1>15 DEF Initiate
<1>16. CASE Listen(k)
  BY <1>7, <1>8, <1>9, <1>10, <1>11, <1>12, <1>13, <1>16 DEF Listen
<1>17. QED BY <1>14, <1>15, <1>16

\* A link that does something is alone with it.
LEMMA Alone ==
  ASSUME Orderly, SessionInv, NEW k \in Link, NEW l \in Link, l # k,
         Initiate(k) \/ Listen(k) \/ Drop(k)
  PROVE  Idle(l)
<1>1. ApartInv /\ StageInv(k)
  BY DEF SessionInv
<1>2. CASE Connect(k)
  BY <1>2 DEF Connect, Orderly
<1>3. ASSUME ~Connect(k), Initiate(k)
      PROVE  ini[k].pc # "idle"
  <2>1. InitiatorJob(k) => ini[k].pc # "idle"
    BY <1>1 DEF InitiatorJob, StageInv
  <2>2. QED BY <1>3, <2>1
            DEF Initiate, InitiatorHello, InitiatorDeletion, RequestFile, Push, FindRenames,
                FinishPull, InitiatorRename, ComputeNeeded, ReceiveFile, FinishPush, At
<1>4. ASSUME Listen(k)
      PROVE  lis[k].pc # "idle" \/ up[k] # <<>>
  <2>1. ListenerJob(k) => lis[k].pc # "idle"
    BY <1>1 DEF ListenerJob, StageInv
  <2>2. Greet(k) \/ ListenerHello(k) => up[k] # <<>>
    BY DEF Greet, ListenerHello, Got
  <2>3. QED BY <1>4, <2>1, <2>2
            DEF Listen, ListenerDeletion, BeginServing, Serve, ServeDone, AcceptFile,
                AcceptRename, AcceptAck, At
<1>5. QED BY <1>1, <1>2, <1>3, <1>4 DEF ApartInv, Idle, Drop

\* Two versions go together from either end.
LEMMA MeetTurned ==
  ASSUME Orderly, NEW k \in Link, NEW l \in Link, NEW e \in Entry, NEW f \in Entry,
         Meet(k, e, f)
  PROVE  /\ l[1] = k[1] => l[2] = k[2] /\ Meet(l, e, f)
         /\ l[1] # k[1] => l[1] = k[2] /\ l[2] = k[1] /\ Meet(l, f, e)
<1>1. /\ Node = {k[1], k[2]} /\ k[1] # k[2] /\ Node = {l[1], l[2]} /\ l[1] # l[2]
  BY TwoEnds
<1>2. CASE l[1] = k[1]
  <2>1. l[2] = k[2]
    BY <1>1, <1>2
  <2>2. QED BY <1>2, <2>1 DEF Meet
<1>3. CASE l[1] # k[1]
  <2>1. l[1] = k[2] /\ l[2] = k[1]
    BY <1>1, <1>3
  <2>2. Equals(f.clock, e.clock) => Equals(e.clock, f.clock)
    BY DEF Equals
  <2>3. QED BY <1>3, <2>1, <2>2 DEF Meet
<1>4. QED BY <1>2, <1>3

\* A step of a link keeps the invariant.
LEMMA LinkStep ==
  ASSUME Orderly, SessionInv, TypeOK', NEW k \in Link, Initiate(k) \/ Listen(k) \/ Drop(k)
  PROVE  SessionInv'
<1>1. Kept(k) /\ TypeOK /\ NameInv /\ ApartInv /\ now \in Nat
  BY LinkKeeps DEF SessionInv, TypeOK
<1>2. ASSUME NEW l \in Link, l # k
      PROVE  /\ ini'[l] = ini[l] /\ lis'[l] = lis[l] /\ up'[l] = up[l] /\ down'[l] = down[l]
             /\ Idle(l) /\ Idle(l)' /\ StageInv(l)'
  <2>1. /\ ini'[l] = ini[l] /\ lis'[l] = lis[l] /\ up'[l] = up[l] /\ down'[l] = down[l]
        /\ Idle(l) /\ StageInv(l)
    BY <1>1, <1>2, OthersStay, Alone DEF SessionInv
  <2>2. QED BY <2>1 DEF Idle, StageInv
<1>3. ApartInv'
  BY <1>2 DEF ApartInv
<1>4. ASSUME NEW l \in Link, NEW p \in Path
      PROVE  ClockInv(l, p)'
  <2>1. CASE l = k
    BY <1>1, <2>1 DEF Kept
  <2>2. CASE l # k
    <3>1. PICK e \in Entry, f \in Entry : e = Mine(k, p)' /\ f = Theirs(k, p)'
      BY Ends DEF TypeOK, Index, Mine, Theirs
    <3>2. Meet(k, e, f)
      BY <1>1, <3>1 DEF Kept, ClockInv
    <3>3. Meet(l, Mine(l, p), Theirs(l, p))'
      BY <3>1, <3>2, MeetTurned DEF Mine, Theirs
    <3>4. /\ up'[l] = <<>> /\ down'[l] = <<>> /\ ini'[l].jobs = <<>> /\ lis'[l].jobs = <<>>
          /\ ini'[l].pc = "idle" /\ lis'[l].pc = "idle"
      BY <1>1, <1>2, <2>2, IdleViews DEF Idle, SessionInv
    <3>5. Hellos(<<>>, p) = {} /\ Sends(<<>>, p) = {} /\ ~Asks(<<>>, p)
      BY EmptyViews
    <3>6. /\ Greeted(l, p)' = {} /\ Offered(l, p)' = {} /\ Wanted(l, p)' = {}
          /\ Replied(l, p)' = {} /\ Pushed(l, p)' = {}
      BY <3>4, <3>5 DEF Greeted, Offered, Wanted, Replied, Pushed, If
    <3>7. Pulling(l, p)' = {} /\ Taking(l, p)' = {}
      BY <3>4, EmptyViews DEF Pulling, Taking
    <3>8. QED BY <3>3, <3>6, <3>7 DEF ClockInv, HelloInv, PullInv, TakeInv, ReplyInv, PushInv
  <2>3. QED BY <2>1, <2>2
<1>5. ASSUME NEW p \in Path, NEW x \in Nat, Has(p, x)'
      PROVE  Has(p, x)
  <2>1. CASE InFiles(p, x)'
    BY <1>1, <2>1 DEF Kept
  <2>2. ASSUME NEW l \in Link, InSession(l, p, x)'
        PROVE  Has(p, x)
    <3>1. CASE l = k
      BY <1>1, <2>2, <3>1 DEF Kept
    <3>2. CASE l # k
      BY <1>2, <2>2, <3>2 DEF InSession, Has
    <3>3. QED BY <3>1, <3>2
  <2>3. QED BY <1>5, <2>1, <2>2 DEF Has
<1>6. now' \in Nat /\ now <= now'
  <2>1. now' = now \/ now' = now + 1
    BY <1>1, OthersStay
  <2>2. QED BY <1>1, <2>1
<1>7. NameInv'
  <2>1. 1..now \subseteq 1..now'
    BY <1>1, <1>6
  <2>2. QED BY <1>1, <1>5, <2>1 DEF NameInv
<1>8. QED BY <1>1, <1>2, <1>3, <1>4, <1>7 DEF SessionInv, Kept

-----------------------------------------------------------------------------
(* Users and watchers                                                      *)

\* What a user writes has not been written before; nobody else gives a file a
\* content.
LEMMA UsersKeep ==
  ASSUME Orderly, SessionInv, TypeOK', Users
  PROVE  SessionInv' /\ index' = index
<1>1. TypeOK /\ NameInv /\ ApartInv /\ now \in Nat
  BY DEF SessionInv, TypeOK
<1>2. PICK n \in Node, q \in Path : UserWrite(n, q) \/ UserDelete(n, q)
  BY DEF Users, Orderly, UserMove, UserCopy
<1>3. /\ index' = index /\ ini' = ini /\ lis' = lis /\ up' = up /\ down' = down
      /\ now' = now + 1
  BY <1>2 DEF UserWrite, UserDelete, Edit, wires
<1>4. PICK f : /\ disk' = [disk EXCEPT ![n][q] = f]
               /\ f.sum = now + 1 \/ f = Absent
  BY <1>2 DEF UserWrite, UserDelete, Put
<1>5. \A i \in Node, p \in Path :
         disk'[i][p] = disk[i][p] \/ (p = q /\ disk'[i][p] = f)
  BY <1>1, <1>4 DEF TypeOK
<1>6. ASSUME NEW p \in Path, NEW x \in Nat, Has(p, x)'
      PROVE  Has(p, x) \/ (p = q /\ x = now + 1)
  <2>1. InFiles(p, x)' => InFiles(p, x) \/ (p = q /\ x = now + 1)
    <3>1. ASSUME NEW i \in Node, (disk[i][p].sum = x /\ x # NoSum)'
          PROVE  InFiles(p, x) \/ (p = q /\ x = now + 1)
      BY <1>4, <1>5, <3>1 DEF InFiles, Absent
    <3>2. QED BY <1>3, <3>1 DEF InFiles
  <2>2. \A k \in Link : InSession(k, p, x)' => InSession(k, p, x)
    BY <1>3 DEF InSession
  <2>3. QED BY <1>6, <2>1, <2>2 DEF Has
<1>7. NameInv'
  <2>1. ASSUME NEW x \in Nat, NEW p \in Path, Has(p, x)'
        PROVE  x \in 1..now'
    <3>1. Has(p, x) => x \in 1..now
      BY <1>1 DEF NameInv
    <3>2. QED BY <1>1, <1>3, <1>6, <2>1, <3>1
  <2>2. ASSUME NEW x \in Nat, NEW p \in Path, NEW r \in Path, Has(p, x)', Has(r, x)'
        PROVE  p = r
    <3>1. /\ Has(p, x) => x \in 1..now
          /\ Has(r, x) => x \in 1..now
          /\ Has(p, x) /\ Has(r, x) => p = r
      BY <1>1 DEF NameInv
    <3>2. now + 1 \notin 1..now
      BY <1>1
    <3>3. QED BY <1>6, <2>2, <3>1, <3>2
  <2>3. QED BY <2>1, <2>2 DEF NameInv
<1>8. ApartInv'
  BY <1>1, <1>3 DEF ApartInv, Idle
<1>9. ASSUME NEW k \in Link PROVE StageInv(k)'
  BY <1>3 DEF SessionInv, StageInv
<1>10. ASSUME NEW k \in Link, NEW p \in Path PROVE ClockInv(k, p)'
  <2>1. Mine(k, p)' = Mine(k, p) /\ Theirs(k, p)' = Theirs(k, p)
    BY <1>3 DEF Mine, Theirs
  <2>2. /\ Greeted(k, p)' = Greeted(k, p) /\ Offered(k, p)' = Offered(k, p)
        /\ Wanted(k, p)' = Wanted(k, p) /\ Replied(k, p)' = Replied(k, p)
        /\ Pushed(k, p)' = Pushed(k, p)
        /\ Pulling(k, p)' = Pulling(k, p) /\ Taking(k, p)' = Taking(k, p)
    BY <1>3 DEF Greeted, Offered, Wanted, Replied, Pushed, Pulling, Taking, If
  <2>3. QED BY <2>1, <2>2, Shrinks DEF SessionInv
<1>11. QED BY <1>3, <1>7, <1>8, <1>9, <1>10 DEF SessionInv

\* What the watcher of n finds changed at p becomes its next version, and has
\* the content of the file.
LEMMA WatchedWhat ==
  ASSUME TypeOK, NEW n \in Node, NEW p \in Path, Watched(n, p) # index[n][p]
  PROVE  /\ Watched(n, p).clock = Increment(index[n][p].clock, n)
         /\ \A x \in Nat : Is(Watched(n, p), x) => disk[n][p].sum = x /\ x # NoSum
<1>1. PICK e \in Entry : e = index[n][p]
  BY DEF TypeOK, Index
<1>2. PICK f \in File : f = disk[n][p]
  BY DEF TypeOK
<1>3. Watched(n, p) = MarkDeleted(ScanOne(e, f, n), f, n)
  BY <1>1, <1>2 DEF Watched
<1>4. CASE Exists(f)
  <2>1. Watched(n, p) = ScanOne(e, f, n)
    BY <1>3, <1>4 DEF MarkDeleted
  <2>2. Watched(n, p) = Record(f, Increment(e.clock, n))
    BY <1>1, <2>1 DEF ScanOne
  <2>3. QED BY <1>1, <1>2, <1>4, <2>2 DEF Record, Is, Exists
<1>5. CASE ~Exists(f)
  <2>1. Watched(n, p) = MarkDeleted(e, f, n)
    BY <1>3, <1>5 DEF ScanOne
  <2>2. Watched(n, p) = MakeTombstone(e, n)
    BY <1>1, <2>1 DEF MarkDeleted
  <2>3. QED BY <1>1, <2>2 DEF MakeTombstone, Is, Live
<1>6. QED BY <1>4, <1>5

\* The watcher of n indexes q: a version nobody has, of a content that has its
\* name already.
LEMMA ObserveKeeps ==
  ASSUME Orderly, SessionInv, TypeOK', NEW n \in Node, NEW q \in Path, Observe(n, q)
  PROVE  /\ SessionInv'
         /\ \A i \in Node, p \in Path : ~HappensBefore(index'[i][p].clock, index[i][p].clock)
<1>1. TypeOK /\ NameInv /\ ApartInv
  BY DEF SessionInv
<1>2. /\ ini' = ini /\ lis' = lis /\ up' = up /\ down' = down /\ now' = now /\ disk' = disk
  BY DEF Observe, wires
<1>3. PICK e : e = Watched(n, q)
  OBVIOUS
<1>4. index' = [index EXCEPT ![n][q] = e]
  BY <1>3 DEF Observe
<1>5. /\ e.clock = Increment(index[n][q].clock, n)
      /\ \A x \in Nat : Is(e, x) => disk[n][q].sum = x /\ x # NoSum
  BY <1>1, <1>3, WatchedWhat DEF Observe
<1>6. /\ index'[n][q] = e
      /\ \A i \in Node, p \in Path : i # n \/ p # q => index'[i][p] = index[i][p]
  BY <1>1, <1>4 DEF TypeOK, Index
<1>7. \A i \in Node, p \in Path : index[i][p].clock \in Clock
  BY <1>1 DEF TypeOK, Index, Entry
<1>8. ASSUME NEW i \in Node, NEW p \in Path
      PROVE  ~HappensBefore(index'[i][p].clock, index[i][p].clock)
  <2>1. CASE i = n /\ p = q
    <3>1. HappensBefore(index[n][q].clock, e.clock) /\ e.clock \in Clock
      BY <1>5, <1>7, IncrementNewer, IncrementType
    <3>2. ~HappensBefore(e.clock, index[n][q].clock)
      BY <1>7, <3>1, HappensBeforeAsymmetric
    <3>3. QED BY <1>6, <2>1, <3>2
  <2>2. CASE i # n \/ p # q
    BY <1>6, <1>7, <2>2, HappensBeforeStrict
  <2>3. QED BY <2>1, <2>2
<1>9. ASSUME NEW p \in Path, NEW x \in Nat, Has(p, x)'
      PROVE  Has(p, x)
  <2>1. InFiles(p, x)' => InFiles(p, x)
    <3>1. ASSUME NEW i \in Node, Is(index[i][p], x)'
          PROVE  InFiles(p, x)
      <4>1. CASE i = n /\ p = q
        BY <1>5, <1>6, <3>1, <4>1 DEF InFiles
      <4>2. CASE i # n \/ p # q
        BY <1>6, <3>1, <4>2 DEF InFiles
      <4>3. QED BY <4>1, <4>2
    <3>2. QED BY <1>2, <3>1 DEF InFiles
  <2>2. \A k \in Link : InSession(k, p, x)' => InSession(k, p, x)
    BY <1>2 DEF InSession
  <2>3. QED BY <1>9, <2>1, <2>2 DEF Has
<1>10. NameInv'
  BY <1>1, <1>2, <1>9 DEF NameInv
<1>11. ApartInv'
  BY <1>1, <1>2 DEF ApartInv, Idle
<1>12. ASSUME NEW k \in Link PROVE StageInv(k)'
  BY <1>2 DEF SessionInv, StageInv
<1>13. ASSUME NEW k \in Link, NEW p \in Path PROVE ClockInv(k, p)'
  <2>1. /\ Node = {k[1], k[2]} /\ k[1] # k[2] /\ k[1] \in Node /\ k[2] \in Node
        /\ ClockInv(k, p)
    BY TwoEnds DEF SessionInv
  <2>2. CASE p # q
    <3>1. Mine(k, p)' = Mine(k, p) /\ Theirs(k, p)' = Theirs(k, p)
      BY <1>6, <2>1, <2>2 DEF Mine, Theirs
    <3>2. /\ Greeted(k, p)' = Greeted(k, p) /\ Offered(k, p)' = Offered(k, p)
          /\ Wanted(k, p)' = Wanted(k, p) /\ Replied(k, p)' = Replied(k, p)
          /\ Pushed(k, p)' = Pushed(k, p)
          /\ Pulling(k, p)' = Pulling(k, p) /\ Taking(k, p)' = Taking(k, p)
      BY <1>2 DEF Greeted, Offered, Wanted, Replied, Pushed, Pulling, Taking, If
    <3>3. QED BY <2>1, <3>1, <3>2, Shrinks
  <2>3. CASE p = q /\ n = k[1]
    <3>1. /\ Mine(k, p)'.clock = Increment(Mine(k, p).clock, k[1])
          /\ Theirs(k, p)' = Theirs(k, p)
      BY <1>5, <1>6, <2>1, <2>3 DEF Mine, Theirs
    <3>2. QED BY <1>1, <1>2, <2>1, <3>1, MineGrows
  <2>4. CASE p = q /\ n = k[2]
    <3>1. /\ Theirs(k, p)'.clock = Increment(Theirs(k, p).clock, k[2])
          /\ Mine(k, p)' = Mine(k, p)
      BY <1>5, <1>6, <2>1, <2>4 DEF Mine, Theirs
    <3>2. QED BY <1>1, <1>2, <2>1, <3>1, TheirsGrows
  <2>5. QED BY <2>1, <2>2, <2>3, <2>4
<1>14. QED BY <1>8, <1>10, <1>11, <1>12, <1>13 DEF SessionInv

-----------------------------------------------------------------------------
(* The theorems                                                            *)

\* Nothing has been written, everything is idle.
LEMMA SessionInit == Init => SessionInv
<1> SUFFICES ASSUME Init PROVE SessionInv
  OBVIOUS
<1>1. TypeOK
  BY TypeInit
<1>2. PICK i : i = IdleInitiator
  OBVIOUS
<1>3. PICK l : l = IdleListener
  OBVIOUS
<1>4. /\ i.pc = "idle" /\ i.jobs = <<>> /\ i.moves = {} /\ i.todo = {}
      /\ i.remote = EmptyIndex /\ i.snap = EmptyIndex
      /\ l.pc = "idle" /\ l.jobs = <<>>
  BY <1>2, <1>3 DEF IdleInitiator, IdleListener
<1>5. \A k \in Link : /\ ini[k] = i /\ lis[k] = l /\ up[k] = <<>> /\ down[k] = <<>>
                      /\ k[1] \in Node /\ k[2] \in Node
  BY <1>2, <1>3, Ends DEF Init
<1>6. \A n \in Node, p \in Path : index[n][p] = NoEntry /\ disk[n][p] = Absent
  BY DEF Init, EmptyIndex
<1>7. \A p \in Path, x \in Nat : ~Has(p, x)
  <2>1. \A p \in Path, x \in Nat : ~Is(EmptyIndex[p], x) /\ ~Is(NoEntry, x)
    BY DEF Is, EmptyIndex, NoEntry, Live
  <2>2. \A p \in Path, x \in Nat : ~InFiles(p, x)
    BY <1>6, <2>1 DEF InFiles, Absent
  <2>3. \A k \in Link, p \in Path, x \in Nat : ~InSession(k, p, x)
    BY <1>4, <1>5, <2>1, ItemsOf DEF InSession
  <2>4. QED BY <2>2, <2>3 DEF Has
<1>8. NameInv
  BY <1>7 DEF NameInv
<1>9. ASSUME NEW k \in Link
      PROVE  StageInv(k) /\ Idle(k)
  <2>1. Len(up[k]) = 0 /\ Len(down[k]) = 0 /\ Items(down[k]) = {}
    BY <1>5, ItemsOf
  <2>2. QED BY <1>4, <1>5, <2>1 DEF StageInv, Idle
<1>10. ASSUME NEW k \in Link, NEW p \in Path
       PROVE  ClockInv(k, p)
  <2>1. Mine(k, p) = NoEntry /\ Theirs(k, p) = NoEntry
    BY <1>5, <1>6 DEF Mine, Theirs
  <2>2. Meet(k, NoEntry, NoEntry)
    BY <1>5 DEF Meet, NoEntry, ZeroClock
  <2>3. Hellos(<<>>, p) = {} /\ Sends(<<>>, p) = {} /\ ~Asks(<<>>, p)
    BY EmptyViews
  <2>4. /\ Greeted(k, p) = {} /\ Offered(k, p) = {} /\ Wanted(k, p) = {}
        /\ Replied(k, p) = {} /\ Pushed(k, p) = {}
    BY <1>4, <1>5, <2>3 DEF Greeted, Offered, Wanted, Replied, Pushed, If
  <2>5. Pulling(k, p) = {} /\ Taking(k, p) = {}
    BY <1>4, <1>5, EmptyViews DEF Pulling, Taking
  <2>6. QED BY <2>1, <2>2, <2>4, <2>5
            DEF ClockInv, HelloInv, PullInv, TakeInv, ReplyInv, PushInv
<1>11. QED BY <1>1, <1>8, <1>9, <1>10 DEF SessionInv, ApartInv

\* Every step keeps the invariant, and no entry makes way for an older one.
LEMMA SessionStep ==
  ASSUME Orderly, SessionInv, [Next]_vars
  PROVE  /\ SessionInv'
         /\ \A n \in Node, p \in Path : ~HappensBefore(index'[n][p].clock, index[n][p].clock)
<1>1. TypeOK /\ TypeOK'
  BY TypeStep DEF SessionInv
<1>2. ASSUME index' = index
      PROVE  \A n \in Node, p \in Path : ~HappensBefore(index'[n][p].clock, index[n][p].clock)
  <2>1. \A n \in Node, p \in Path : index[n][p].clock \in Clock
    BY <1>1 DEF TypeOK, Index, Entry
  <2>2. QED BY <1>2, <2>1, HappensBeforeStrict
<1>3. CASE UNCHANGED vars
  <2>1. NameInv'
    <3>1. \A p \in Path, x \in Nat : InFiles(p, x)' => InFiles(p, x)
      BY <1>3 DEF InFiles, vars
    <3>2. \A p \in Path, x \in Nat, k \in Link : InSession(k, p, x)' => InSession(k, p, x)
      BY <1>3 DEF InSession, vars
    <3>3. \A p \in Path, x \in Nat : Has(p, x)' => Has(p, x)
      BY <3>1, <3>2 DEF Has
    <3>4. QED BY <1>3, <3>3 DEF SessionInv, NameInv, vars
  <2>2. ApartInv' /\ \A k \in Link : StageInv(k)'
    BY <1>3 DEF SessionInv, ApartInv, Idle, StageInv, vars
  <2>3. ASSUME NEW k \in Link, NEW p \in Path PROVE ClockInv(k, p)'
    BY <1>3 DEF SessionInv, ClockInv, HelloInv, PullInv, TakeInv, ReplyInv, PushInv, Mine,
                Theirs, Greeted, Offered, Wanted, Replied, Pushed, Pulling, Taking, vars
  <2>4. QED BY <1>1, <1>2, <1>3, <2>1, <2>2, <2>3 DEF SessionInv, vars
<1>4. CASE Users
  BY <1>1, <1>2, <1>4, UsersKeep
<1>5. ASSUME NEW n \in Node, NEW p \in Path, Observe(n, p)
      PROVE  /\ SessionInv'
             /\ \A i \in Node, q \in Path : ~HappensBefore(index'[i][q].clock, index[i][q].clock)
  BY <1>1, <1>5, ObserveKeeps
<1>6. ASSUME NEW k \in Link, Initiate(k) \/ Listen(k) \/ Drop(k)
      PROVE  /\ SessionInv'
             /\ \A i \in Node, q \in Path : ~HappensBefore(index'[i][q].clock, index[i][q].clock)
  BY <1>1, <1>6, LinkStep, LinkKeeps
<1>7. QED BY <1>3, <1>4, <1>5, <1>6 DEF Next

\* Two nodes whose sessions do not cross never hold different contents under
\* equal clocks, so a comparison that finds the clocks equal and does nothing
\* (reconcile) leaves nothing undone: whatever the users write and delete
\* during a session, wherever a connection is lost, with either provider.
THEOREM SameClockHolds ==
  ASSUME Orderly
  PROVE  Spec => []SameClockSameVersion
<1>1. SessionInv => SameClockSameVersion
  <2> SUFFICES ASSUME SessionInv, NEW a \in Node, NEW b \in Node, NEW p \in Path,
                      Equals(index[a][p].clock, index[b][p].clock)
               PROVE  index[a][p].sum = index[b][p].sum
    BY DEF SameClockSameVersion
  <2>1. PICK k \in Link : Node = {k[1], k[2]}
    BY DEF Orderly
  <2>2. Meet(k, index[k[1]][p], index[k[2]][p])
    BY DEF SessionInv, ClockInv, Mine, Theirs
  <2>3. Equals(index[b][p].clock, index[a][p].clock)
    BY DEF Equals
  <2>4. QED BY <2>1, <2>2, <2>3 DEF Meet
<1>2. SessionInv /\ [Next]_vars => SessionInv'
  BY SessionStep
<1>3. QED BY <1>1, <1>2, SessionInit, PTL DEF Spec

\* Nor does either of them ever replace a version by an older one: neither a
\* pull that is applied without another look at the index, nor a push, nor a
\* deletion confirmed in a later session goes back.
THEOREM NeverBackwardsHolds ==
  ASSUME Orderly
  PROVE  Spec => NeverBackwards
<1>1. SessionInv /\ [Next]_vars => SessionInv'
  BY SessionStep
<1>2. SessionInv /\ [Next]_vars =>
        [\A n \in Node, p \in Path :
            ~HappensBefore(index'[n][p].clock, index[n][p].clock)]_vars
  BY SessionStep
<1>3. QED BY <1>1, <1>2, SessionInit, PTL DEF Spec, NeverBackwards

-----------------------------------------------------------------------------
(* Sessions that nobody interrupts: definitions                            *)

\* No user edits a file while a session is open, none starts before the edits
\* are indexed, and sessions of different links do not overlap.
Calm ==
    /\ Env \cap {"mid", "lag"} = {}
    /\ "cross" \notin Env \/ \A k, l \in Link : k = l

\* The modification time of a file, or of an entry, is a stamp of its content.
Dated(f) ==
    Exists(f) => f.sum <= MaxTime /\ \E t \in Nat : f.mtime = Stamp(t, f.sum)

\* An entry by itself: alive when it has a content.
Sound(e) == (Live(e) <=> Exists(e)) /\ Dated(e)
SoundIndex(x) == \A p \in Path : Sound(x[p])

\* The entry e names the content of the file f.
Honest(e, f) == (Live(e) <=> Exists(f)) /\ e.sum = f.sum

\* What is sent is sound, a file goes with the entry of its content, and a
\* renamed one gets another name.
HonestMessage(m) ==
    /\ m.type = "HELLO" => SoundIndex(m.index)
    /\ m.type \in {"FILE_DATA", "RENAME_FILE"} => Sound(m.entry)
    /\ m.type = "FILE_DATA" => m.content = m.entry.sum
    /\ m.type = "RENAME_FILE" => m.from # m.path
HonestWire(w) == \A m \in Items(w) : HonestMessage(m)

\* A job at node n brings the content of its entry or finds it on the disk.
HonestJob(n, j) ==
    /\ Sound(j.entry)
    /\ Live(j.entry) => \/ j.content = j.entry.sum
                        \/ j.content = NoSum /\ disk[n][j.path].sum = j.entry.sum
HonestJobs(n, w) ==
    /\ \A j \in Items(w) : HonestJob(n, j)
    /\ \A i, j \in 1..Len(w) : w[i].path = w[j].path => i = j
JobPaths(w) == {j.path : j \in Items(w)}

\* The coroutine c of the initiator, and of the listener, of k.
HonestInitiator(k, c) ==
    /\ SoundIndex(c.remote) /\ SoundIndex(c.snap)
    /\ \A m \in c.moves : m[1] # m[2]
    /\ HonestJobs(k[1], c.jobs)
    /\ c.jobs # <<>> => c.pc \in {"delete", "rename", "pull"}
    /\ c.pc = "push" => c.snap = index[k[1]]
HonestListener(k, c) ==
    /\ SoundIndex(c.remote)
    /\ HonestJobs(k[2], c.jobs)
    /\ c.jobs # <<>> => c.pc \in {"delete", "accept"}

\* At the two ends of an open session the index is honest, but for the names
\* of a rename whose jobs have not run yet.
TidyInitiator(k, c) ==
    \A p \in Path : \/ Honest(index[k[1]][p], disk[k[1]][p])
                    \/ c.pc = "rename" /\ p \in JobPaths(c.jobs)
TidyListener(k, c) ==
    \A p \in Path : \/ Honest(index[k[2]][p], disk[k[2]][p])
                    \/ c.pc = "accept" /\ p \in JobPaths(c.jobs)

LinkHonest(k) ==
    /\ HonestInitiator(k, ini[k]) /\ HonestListener(k, lis[k])
    /\ HonestWire(up[k]) /\ HonestWire(down[k])
    /\ ~Idle(k) => TidyInitiator(k, ini[k]) /\ TidyListener(k, lis[k])

FilesHonest == \A n \in Node, p \in Path : Sound(index[n][p]) /\ Dated(disk[n][p])

HonestInv == TypeOK /\ ApartInv /\ FilesHonest /\ \A k \in Link : LinkHonest(k)

-----------------------------------------------------------------------------
(* Stamps and entries                                                      *)

\* Two contents never share a modification time.
LEMMA StampTells ==
  ASSUME NEW t \in Nat, NEW u \in Nat, NEW x \in 0..MaxTime, NEW y \in 0..MaxTime,
         Stamp(t, x) = Stamp(u, y)
  PROVE  x = y
<1>1. PICK M \in Nat : M = MaxTime + 1 /\ x < M /\ y < M /\ t * M + x = u * M + y
  BY ModeAssumption DEF Stamp
<1>2. ASSUME NEW a \in Nat, NEW b \in Nat, a < b PROVE a * M + M <= b * M
  <2>1. PICK d \in Nat : b = a + 1 + d
    <3>1. b - a - 1 \in Nat /\ b = a + 1 + (b - a - 1)
      BY <1>2
    <3>2. QED BY <3>1
  <2>2. b * M = a * M + M + d * M
    BY <2>1
  <2>3. d * M \in Nat /\ a * M \in Nat
    OBVIOUS
  <2>4. QED BY <2>2, <2>3
<1>3. t * M \in Nat /\ u * M \in Nat
  OBVIOUS
<1>4. ~(t < u) /\ ~(u < t)
  <2>1. ~(t < u)
    BY <1>1, <1>2, <1>3
  <2>2. ~(u < t)
    BY <1>1, <1>2, <1>3
  <2>3. QED BY <2>1, <2>2
<1>5. QED BY <1>1, <1>3, <1>4

\* When the watcher sees nothing to do the entry names what is on disk: it
\* compares modification times first, and they tell contents apart.
LEMMA ObservedHonest ==
  ASSUME TypeOK, NEW n \in Node, NEW p \in Path, Sound(index[n][p]), Dated(disk[n][p])
  PROVE  Watched(n, p) = index[n][p] <=> Honest(index[n][p], disk[n][p])
<1>1. PICK e \in Entry : e = index[n][p]
  BY DEF TypeOK, Index
<1>2. PICK f \in File : f = disk[n][p]
  BY DEF TypeOK
<1>3. Sound(e) /\ Dated(f)
  BY <1>1, <1>2
<1>4. Watched(n, p) = MarkDeleted(ScanOne(e, f, n), f, n)
  BY <1>1, <1>2 DEF Watched
<1>5. Increment(e.clock, n) # e.clock
  <2>1. e.clock \in Clock
    BY <1>1 DEF Entry
  <2>2. HappensBefore(e.clock, Increment(e.clock, n)) /\ ~HappensBefore(e.clock, e.clock)
    BY <2>1, IncrementNewer, HappensBeforeStrict
  <2>3. QED BY <2>2
<1>6. CASE Exists(f)
  <2>1. Watched(n, p) = ScanOne(e, f, n)
    BY <1>4, <1>6 DEF MarkDeleted
  <2>2. Changed(e, f) => Watched(n, p) # e
    <3>1. Changed(e, f) => Watched(n, p).clock = Increment(e.clock, n)
      BY <1>6, <2>1 DEF ScanOne, Record
    <3>2. QED BY <1>5, <3>1
  <2>3. ~Changed(e, f) => Watched(n, p) = e
    BY <2>1 DEF ScanOne
  <2>4. Live(e) /\ f.mtime = e.mtime => f.sum = e.sum
    <3>1. ASSUME Live(e), f.mtime = e.mtime PROVE f.sum = e.sum
      <4>1. /\ e.sum \in 0..MaxTime /\ f.sum \in 0..MaxTime
        BY <1>1, <1>2, <1>3, <1>6, <3>1, ModeAssumption DEF Sound, Dated, Entry, File
      <4>2. PICK t \in Nat : e.mtime = Stamp(t, e.sum)
        BY <1>3, <3>1 DEF Sound, Dated
      <4>3. PICK u \in Nat : f.mtime = Stamp(u, f.sum)
        BY <1>3, <1>6 DEF Dated
      <4>4. QED BY <3>1, <4>1, <4>2, <4>3, StampTells
    <3>2. QED BY <3>1
  <2>5. Changed(e, f) <=> ~Honest(e, f)
    BY <1>6, <2>4 DEF Changed, Honest
  <2>6. QED BY <1>1, <1>2, <2>2, <2>3, <2>5
<1>7. CASE ~Exists(f)
  <2>1. Watched(n, p) = MarkDeleted(e, f, n)
    BY <1>4, <1>7 DEF ScanOne
  <2>2. Live(e) => Watched(n, p) # e
    BY <1>7, <2>1 DEF MarkDeleted, MakeTombstone, Live
  <2>3. ~Live(e) => Watched(n, p) = e
    BY <2>1 DEF MarkDeleted
  <2>4. Live(e) <=> ~Honest(e, f)
    BY <1>3, <1>7 DEF Sound, Honest, Exists
  <2>5. QED BY <1>1, <1>2, <2>2, <2>3, <2>4
<1>8. QED BY <1>6, <1>7

\* What the watcher records, and a tombstone, are sound.
LEMMA WatchedSound ==
  ASSUME TypeOK, NEW n \in Node, NEW p \in Path, Sound(index[n][p]), Dated(disk[n][p])
  PROVE  /\ Sound(Watched(n, p))
         /\ Sound(MakeTombstone(index[n][p], n)) /\ ~Live(MakeTombstone(index[n][p], n))
<1>1. PICK e : e = index[n][p]
  OBVIOUS
<1>2. PICK f : f = disk[n][p]
  OBVIOUS
<1>3. Sound(e) /\ Dated(f)
  BY <1>1, <1>2
<1>4. Watched(n, p) = MarkDeleted(ScanOne(e, f, n), f, n)
  BY <1>1, <1>2 DEF Watched
<1>5. PICK t : t = MakeTombstone(e, n)
  OBVIOUS
<1>6. Sound(t) /\ ~Live(t)
  BY <1>5 DEF MakeTombstone, Sound, Live, Exists, Dated
<1>7. PICK s : s = ScanOne(e, f, n)
  OBVIOUS
<1>8. Sound(s)
  <2>1. PICK r : r = Record(f, Increment(e.clock, n))
    OBVIOUS
  <2>2. s = r \/ s = e
    BY <1>7, <2>1 DEF ScanOne
  <2>3. s # e => s = r /\ Exists(f)
    BY <1>7, <2>1 DEF ScanOne
  <2>4. Exists(f) => Sound(r)
    BY <1>3, <2>1 DEF Record, Sound, Live, Exists, Dated
  <2>5. QED BY <1>3, <2>3, <2>4
<1>9. PICK v : v = MakeTombstone(s, n)
  OBVIOUS
<1>10. Sound(v)
  BY <1>9 DEF MakeTombstone, Sound, Live, Exists, Dated
<1>11. Watched(n, p) = s \/ Watched(n, p) = v
  BY <1>4, <1>7, <1>9 DEF MarkDeleted
<1>12. QED BY <1>1, <1>5, <1>6, <1>8, <1>10, <1>11

-----------------------------------------------------------------------------
(* A link that nobody interrupts                                           *)

\* Nothing is promised of no message and of no job.
LEMMA EmptyHonest ==
  /\ HonestWire(<<>>) /\ JobPaths(<<>>) = {}
  /\ \A n \in Node : HonestJobs(n, <<>>)
  /\ SoundIndex(EmptyIndex)
<1>1. Items(<<>>) = {} /\ Len(<<>>) = 0
  BY ItemsOf
<1>2. SoundIndex(EmptyIndex)
  BY DEF SoundIndex, EmptyIndex, NoEntry, Sound, Live, Exists, Dated, NoSum
<1>3. QED BY <1>1, <1>2 DEF HonestWire, JobPaths, HonestJobs

\* The idle coroutines.
LEMMA IdleHonest ==
  ASSUME NEW k \in Link
  PROVE  HonestInitiator(k, IdleInitiator) /\ HonestListener(k, IdleListener)
<1>1. PICK i : i = IdleInitiator
  OBVIOUS
<1>2. PICK l : l = IdleListener
  OBVIOUS
<1>3. /\ i.pc = "idle" /\ i.jobs = <<>> /\ i.moves = {} /\ i.remote = EmptyIndex
      /\ i.snap = EmptyIndex /\ l.jobs = <<>> /\ l.remote = EmptyIndex
  BY <1>1, <1>2 DEF IdleInitiator, IdleListener
<1>4. HonestJobs(k[1], <<>>) /\ HonestJobs(k[2], <<>>)
  BY EmptyHonest, Ends
<1>5. QED BY <1>1, <1>2, <1>3, <1>4, EmptyHonest DEF HonestInitiator, HonestListener

\* A connection stays honest when an honest message is added, and when one is
\* read.
LEMMA HonestAppend ==
  ASSUME NEW w \in Seq(Message), NEW m \in Message, HonestWire(w), HonestMessage(m)
  PROVE  HonestWire(Append(w, m))
<1>1. Items(Append(w, m)) = Items(w) \cup {m}
  BY AppendWire
<1>2. QED BY <1>1 DEF HonestWire

\* The same of reading one.
LEMMA HonestTail ==
  ASSUME NEW w \in Seq(Message), w # <<>>, HonestWire(w)
  PROVE  HonestWire(Tail(w)) /\ HonestMessage(Head(w))
<1>1. Items(Tail(w)) \subseteq Items(w) /\ Head(w) \in Items(w)
  BY TailWire
<1>2. QED BY <1>1 DEF HonestWire

\* One job alone.
LEMMA HonestOne ==
  ASSUME NEW n \in Node, NEW q \in Path, NEW e \in Entry, NEW x \in Nat,
         Sound(e), Live(e) => x = e.sum
  PROVE  HonestJobs(n, <<Apply(q, e, x)>>)
<1>1. PICK j \in Job : j = Apply(q, e, x)
  BY ApplyJob
<1>2. j.path = q /\ j.entry = e /\ j.content = x
  BY <1>1 DEF Apply
<1>3. Len(<<j>>) = 1 /\ Items(<<j>>) = {j}
  BY <1>1, OneJob
<1>4. HonestJob(n, j)
  BY <1>2 DEF HonestJob
<1>5. QED BY <1>1, <1>3, <1>4 DEF HonestJobs

\* The jobs that are left when the first one has run.
LEMMA JobsTail ==
  ASSUME NEW n \in Node, NEW w \in Seq(Job), w # <<>>, HonestJobs(n, w)
  PROVE  /\ Head(w) \in Job /\ HonestJob(n, Head(w))
         /\ Tail(w) \in Seq(Job) /\ Items(Tail(w)) \subseteq Items(w)
         /\ \A j \in Items(Tail(w)) : j.path # Head(w).path
         /\ \A j \in Items(w) : j = Head(w) \/ j \in Items(Tail(w))
         /\ \A i, j \in 1..Len(Tail(w)) : Tail(w)[i].path = Tail(w)[j].path => i = j
<1>1. /\ Tail(w) \in Seq(Job) /\ Len(Tail(w)) = Len(w) - 1 /\ Len(w) >= 1
      /\ \A i \in 1..Len(Tail(w)) : Tail(w)[i] = w[i + 1]
      /\ Head(w) = w[1] /\ Head(w) \in Job
      /\ Head(w) \in Items(w) /\ Items(Tail(w)) \subseteq Items(w)
  BY TailWire
<1>2. Len(w) \in Nat
  BY LenProperties
<1>3. \A i, j \in 1..Len(w) : w[i].path = w[j].path => i = j
  BY DEF HonestJobs
<1>4. ASSUME NEW i \in 1..Len(Tail(w))
      PROVE  Tail(w)[i].path # Head(w).path
  <2>1. i + 1 \in 1..Len(w) /\ 1 \in 1..Len(w) /\ i + 1 # 1
    BY <1>1, <1>2
  <2>2. w[i + 1].path # w[1].path
    BY <1>3, <2>1
  <2>3. QED BY <1>1, <2>2
<1>5. ASSUME NEW i \in 1..Len(w)
      PROVE  w[i] = Head(w) \/ w[i] \in Items(Tail(w))
  <2>1. CASE i = 1
    BY <1>1, <2>1
  <2>2. CASE i # 1
    <3>1. i - 1 \in 1..Len(Tail(w)) /\ Tail(w)[i - 1] = w[i]
      BY <1>1, <1>2, <2>2
    <3>2. QED BY <3>1 DEF Items
  <2>3. QED BY <2>1, <2>2
<1>6. ASSUME NEW i \in 1..Len(Tail(w)), NEW j \in 1..Len(Tail(w)),
             Tail(w)[i].path = Tail(w)[j].path
      PROVE  i = j
  <2>1. i + 1 \in 1..Len(w) /\ j + 1 \in 1..Len(w)
    BY <1>1, <1>2
  <2>2. w[i + 1].path = w[j + 1].path
    BY <1>1, <1>6
  <2>3. i + 1 = j + 1
    BY <1>3, <2>1, <2>2
  <2>4. QED BY <2>3
<1>7. \A j \in Items(Tail(w)) : j.path # Head(w).path
  BY <1>4 DEF Items
<1>8. \A j \in Items(w) : j = Head(w) \/ j \in Items(Tail(w))
  BY <1>5 DEF Items
<1>9. QED BY <1>1, <1>6, <1>7, <1>8 DEF HonestJobs

\* A step that leaves the files and the indexes alone: what there is to show
\* of the link.
LEMMA QuietStep ==
  ASSUME NEW k \in Link, index' = index, disk' = disk,
         NEW r, NEW s, NEW u, NEW d,
         ini'[k] = r, lis'[k] = s, up'[k] = u, down'[k] = d,
         HonestInitiator(k, r), HonestListener(k, s), HonestWire(u), HonestWire(d),
         TidyInitiator(k, r), TidyListener(k, s)
  PROVE  LinkHonest(k)'
<1>1. HonestJobs(k[1], r.jobs)' /\ HonestJobs(k[2], s.jobs)'
  BY DEF HonestInitiator, HonestListener, HonestJobs, HonestJob
<1>2. HonestInitiator(k, ini[k])'
  BY <1>1 DEF HonestInitiator
<1>3. HonestListener(k, lis[k])'
  BY <1>1 DEF HonestListener
<1>4. TidyInitiator(k, ini[k])' /\ TidyListener(k, lis[k])'
  BY DEF TidyInitiator, TidyListener
<1>5. QED BY <1>2, <1>3, <1>4 DEF LinkHonest

\* A link that does something but to connect has a session open.
LEMMA Busy ==
  ASSUME NEW k \in Link, LinkHonest(k),
         (Initiate(k) /\ ~Connect(k)) \/ Listen(k) \/ Drop(k)
  PROVE  ~Idle(k)
<1>1. /\ ini[k].jobs # <<>> => ini[k].pc # "idle"
      /\ lis[k].jobs # <<>> => lis[k].pc # "idle"
  BY DEF LinkHonest, HonestInitiator, HonestListener
<1>2. CASE Initiate(k) /\ ~Connect(k)
  BY <1>1, <1>2
     DEF Initiate, InitiatorHello, InitiatorDeletion, RequestFile, Push, FindRenames,
         FinishPull, InitiatorRename, ComputeNeeded, ReceiveFile, FinishPush, At,
         InitiatorJob, Idle
<1>3. CASE Listen(k)
  <2>1. Greet(k) \/ ListenerHello(k) => up[k] # <<>>
    BY DEF Greet, ListenerHello, Got
  <2>2. QED BY <1>1, <1>3, <2>1
            DEF Listen, ListenerDeletion, BeginServing, Serve, ServeDone, AcceptFile,
                AcceptRename, AcceptAck, At, ListenerJob, Idle
<1>4. QED BY <1>2, <1>3 DEF Drop

\* What is known of a link with a session open, field by field.
LEMMA OpenLink ==
  ASSUME HonestInv, NEW k \in Link, ~Idle(k)
  PROVE  /\ TypeOK /\ k[1] \in Node /\ k[2] \in Node /\ k[1] # k[2]
         /\ ini[k] \in Initiator /\ lis[k] \in Listener
         /\ up[k] \in Seq(Message) /\ down[k] \in Seq(Message)
         /\ HonestInitiator(k, ini[k]) /\ HonestListener(k, lis[k])
         /\ HonestWire(up[k]) /\ HonestWire(down[k])
         /\ TidyInitiator(k, ini[k]) /\ TidyListener(k, lis[k])
         /\ FilesHonest
  BY Ends, LinkAssumption DEF HonestInv, LinkHonest, TypeOK

\* The other links are idle and stay so.
LEMMA OthersHonest ==
  ASSUME Calm, HonestInv, NEW k \in Link, Initiate(k) \/ Listen(k) \/ Drop(k),
         NEW l \in Link, l # k
  PROVE  /\ Idle(l) /\ Idle(l)'
         /\ ini'[l] = ini[l] /\ lis'[l] = lis[l] /\ up'[l] = up[l] /\ down'[l] = down[l]
<1>1. ini'[l] = ini[l] /\ lis'[l] = lis[l] /\ up'[l] = up[l] /\ down'[l] = down[l]
  BY OthersStay DEF HonestInv
<1>2. Idle(l)
  <2>1. CASE Connect(k)
    BY <2>1 DEF Connect, Calm
  <2>2. CASE ~Connect(k)
    <3>1. ~Idle(k)
      BY <2>2, Busy DEF HonestInv
    <3>2. QED BY <3>1 DEF HonestInv, ApartInv
  <2>3. QED BY <2>1, <2>2
<1>3. QED BY <1>1, <1>2 DEF Idle

\* A step of link k that keeps its own part, and the files, keeps the rest.
LEMMA HonestStep ==
  ASSUME Calm, HonestInv, TypeOK', NEW k \in Link, Initiate(k) \/ Listen(k) \/ Drop(k),
         LinkHonest(k)', FilesHonest'
  PROVE  HonestInv'
<1>1. ApartInv'
  <2> SUFFICES ASSUME NEW l \in Link, NEW m \in Link, l # m PROVE Idle(l)' \/ Idle(m)'
    BY DEF ApartInv
  <2>1. l # k \/ m # k
    OBVIOUS
  <2>2. QED BY <2>1, OthersHonest
<1>2. ASSUME NEW l \in Link, l # k PROVE LinkHonest(l)'
  <2>1. /\ Idle(l) /\ Idle(l)'
        /\ ini'[l] = ini[l] /\ lis'[l] = lis[l] /\ up'[l] = up[l] /\ down'[l] = down[l]
    BY <1>2, OthersHonest
  <2>2. LinkHonest(l) /\ l[1] \in Node /\ l[2] \in Node
    BY Ends DEF HonestInv
  <2>3. ini[l].pc = "idle" /\ ini[l].jobs = <<>> /\ lis[l].jobs = <<>>
    BY <2>1, <2>2 DEF LinkHonest, HonestInitiator, HonestListener, Idle
  <2>4. HonestJobs(l[1], <<>>)' /\ HonestJobs(l[2], <<>>)'
    BY ItemsOf DEF HonestJobs
  <2>5. HonestInitiator(l, ini[l])' /\ HonestListener(l, lis[l])'
    BY <2>1, <2>2, <2>3, <2>4 DEF LinkHonest, HonestInitiator, HonestListener
  <2>6. QED BY <2>1, <2>2, <2>5 DEF LinkHonest
<1>3. QED BY <1>1, <1>2 DEF HonestInv

\* With no rename under way every entry names what is on disk, whatever the
\* coroutine does next.
LEMMA TidyAll ==
  ASSUME NEW k \in Link
  PROVE  /\ \A c : TidyInitiator(k, c) /\ (c.pc # "rename" \/ c.jobs = <<>>) =>
              /\ \A p \in Path : Honest(index[k[1]][p], disk[k[1]][p])
              /\ \A r : TidyInitiator(k, r)
         /\ \A c : TidyListener(k, c) /\ (c.pc # "accept" \/ c.jobs = <<>>) =>
              /\ \A p \in Path : Honest(index[k[2]][p], disk[k[2]][p])
              /\ \A r : TidyListener(k, r)
  BY EmptyHonest DEF TidyInitiator, TidyListener

-----------------------------------------------------------------------------
(* The initiator's steps                                                   *)

\* A session starts on indexes that have caught up with the files.
LEMMA ConnectHonest ==
  ASSUME Calm, HonestInv, NEW k \in Link, Connect(k)
  PROVE  LinkHonest(k)'
<1>1. /\ TypeOK /\ FilesHonest /\ LinkHonest(k) /\ k[1] \in Node /\ k[2] \in Node
  BY Ends DEF HonestInv
<1>2. /\ ini[k] \in Initiator /\ up[k] \in Seq(Message) /\ ini[k].pc = "idle"
      /\ Observed(k[1]) /\ Observed(k[2])
  BY <1>1 DEF Connect, Idle, TypeOK, Calm
<1>3. PICK m \in Message : m = Hello(k[1])
  <2>1. index[k[1]] \in Index
    BY <1>1 DEF TypeOK
  <2>2. QED BY <2>1 DEF Hello, Message
<1>4. m.type = "HELLO" /\ m.index = index[k[1]]
  BY <1>3 DEF Hello
<1>5. PICK r : r = [ini[k] EXCEPT !.pc = "hello"]
  OBVIOUS
<1>6. /\ ini'[k] = r /\ lis'[k] = lis[k] /\ up'[k] = Append(up[k], m) /\ down'[k] = down[k]
      /\ index' = index /\ disk' = disk
  BY <1>1, <1>3, <1>5 DEF Connect, Send, TypeOK, files
<1>7. /\ r.pc = "hello" /\ r.remote = ini[k].remote /\ r.snap = ini[k].snap
      /\ r.jobs = ini[k].jobs /\ r.moves = ini[k].moves
  BY <1>2, <1>5 DEF Initiator
<1>8. HonestInitiator(k, r)
  BY <1>1, <1>2, <1>7 DEF LinkHonest, HonestInitiator
<1>9. HonestWire(Append(up[k], m))
  <2>1. HonestMessage(m)
    BY <1>1, <1>4 DEF HonestMessage, SoundIndex, FilesHonest
  <2>2. QED BY <1>1, <1>2, <2>1, HonestAppend DEF LinkHonest
<1>10. TidyInitiator(k, r) /\ TidyListener(k, lis[k])
  BY <1>1, <1>2, ObservedHonest DEF Observed, TidyInitiator, TidyListener, FilesHonest
<1>11. QED BY <1>1, <1>6, <1>8, <1>9, <1>10, QuietStep DEF LinkHonest

\* The initiator reads an index that is sound.
LEMMA InitiatorHelloHonest ==
  ASSUME HonestInv, NEW k \in Link, InitiatorHello(k), ~Idle(k)
  PROVE  LinkHonest(k)'
<1>1. /\ TypeOK /\ ini[k] \in Initiator /\ down[k] \in Seq(Message)
      /\ HonestInitiator(k, ini[k]) /\ HonestListener(k, lis[k])
      /\ HonestWire(up[k]) /\ HonestWire(down[k])
      /\ TidyInitiator(k, ini[k]) /\ TidyListener(k, lis[k])
  BY OpenLink
<1>2. ini[k].pc = "hello" /\ down[k] # <<>> /\ Head(down[k]).type = "HELLO"
  BY DEF InitiatorHello, Got
<1>3. PICK m \in Message : m = Head(down[k])
  BY <1>1, <1>2, TailWire
<1>4. PICK r : r = [ini[k] EXCEPT !.pc = "delete", !.remote = m.index,
                                  !.todo = Tombstones(m.index)]
  OBVIOUS
<1>5. /\ ini'[k] = r /\ lis'[k] = lis[k] /\ up'[k] = up[k] /\ down'[k] = Tail(down[k])
      /\ index' = index /\ disk' = disk
  BY <1>1, <1>3, <1>4 DEF InitiatorHello, TypeOK, files
<1>6. /\ r.pc = "delete" /\ r.remote = m.index /\ r.snap = ini[k].snap
      /\ r.jobs = ini[k].jobs /\ r.moves = ini[k].moves
  BY <1>1, <1>4 DEF Initiator
<1>7. HonestWire(Tail(down[k])) /\ HonestMessage(m)
  BY <1>1, <1>2, <1>3, HonestTail
<1>8. HonestInitiator(k, r)
  BY <1>1, <1>2, <1>3, <1>6, <1>7 DEF HonestInitiator, HonestMessage
<1>9. TidyInitiator(k, r)
  BY <1>1, <1>2, TidyAll
<1>10. QED BY <1>1, <1>5, <1>7, <1>8, <1>9, QuietStep

\* A deletion pass makes jobs of tombstones.
LEMMA DeletionHonest ==
  ASSUME TypeOK, NEW n \in Node, NEW x \in Index, SoundIndex(x), NEW p \in Path
  PROVE  HonestJobs(n, Deletion(n, x, p))
<1>1. CASE Confirmed(n, x, p)
  <2>1. x[p] \in Entry /\ Sound(x[p]) /\ ~Live(x[p])
    BY <1>1 DEF Index, SoundIndex, Confirmed, Superseded, Dead, Live
  <2>2. HonestJobs(n, <<Apply(p, x[p], NoSum)>>)
    BY <2>1, HonestOne DEF NoSum
  <2>3. QED BY <1>1, <2>2 DEF Deletion
<1>2. CASE ~Confirmed(n, x, p)
  BY <1>2, EmptyHonest DEF Deletion
<1>3. QED BY <1>1, <1>2

\* The initiator's deletion pass at one path.
LEMMA InitiatorDeletionHonest ==
  ASSUME HonestInv, NEW k \in Link, NEW q \in Path, InitiatorDeletion(k, q), ~Idle(k)
  PROVE  LinkHonest(k)'
<1>1. /\ TypeOK /\ ini[k] \in Initiator /\ k[1] \in Node
      /\ HonestInitiator(k, ini[k]) /\ HonestListener(k, lis[k])
      /\ HonestWire(up[k]) /\ HonestWire(down[k])
      /\ TidyInitiator(k, ini[k]) /\ TidyListener(k, lis[k])
  BY OpenLink
<1>2. ini[k].pc = "delete" /\ ini[k].remote \in Index
  BY <1>1 DEF InitiatorDeletion, At, Initiator
<1>3. PICK w : w = Deletion(k[1], ini[k].remote, q)
  OBVIOUS
<1>4. PICK r : r = [ini[k] EXCEPT !.todo = @ \ {q}, !.jobs = w]
  OBVIOUS
<1>5. /\ ini'[k] = r /\ lis'[k] = lis[k] /\ up'[k] = up[k] /\ down'[k] = down[k]
      /\ index' = index /\ disk' = disk
  BY <1>1, <1>3, <1>4 DEF InitiatorDeletion, TypeOK, wires
<1>6. /\ r.pc = "delete" /\ r.remote = ini[k].remote /\ r.snap = ini[k].snap
      /\ r.jobs = w /\ r.moves = ini[k].moves
  BY <1>1, <1>2, <1>4 DEF Initiator
<1>7. HonestJobs(k[1], w)
  BY <1>1, <1>2, <1>3, DeletionHonest DEF HonestInitiator
<1>8. HonestInitiator(k, r)
  BY <1>1, <1>6, <1>7 DEF HonestInitiator
<1>9. TidyInitiator(k, r)
  BY <1>1, <1>2, TidyAll
<1>10. QED BY <1>1, <1>5, <1>8, <1>9, QuietStep

\* A rename is from a path that is dead at the remote to one alive there.
LEMMA FindRenamesHonest ==
  ASSUME HonestInv, NEW k \in Link, NEW to \in [Path -> Path], FindRenames(k, to), ~Idle(k)
  PROVE  LinkHonest(k)'
<1>1. /\ TypeOK /\ ini[k] \in Initiator /\ k[1] \in Node
      /\ HonestInitiator(k, ini[k]) /\ HonestListener(k, lis[k])
      /\ HonestWire(up[k]) /\ HonestWire(down[k])
      /\ TidyInitiator(k, ini[k]) /\ TidyListener(k, lis[k])
  BY OpenLink
<1>2. ini[k].pc = "delete" /\ ini[k].jobs = <<>>
  BY DEF FindRenames, At
<1>3. PICK M : M = RemoteMoves(index[k[1]], ini[k].remote, to)
  OBVIOUS
<1>4. PICK r : r = [ini[k] EXCEPT !.pc = "rename", !.moves = M]
  OBVIOUS
<1>5. /\ ini'[k] = r /\ lis'[k] = lis[k] /\ up'[k] = up[k] /\ down'[k] = down[k]
      /\ index' = index /\ disk' = disk
  BY <1>1, <1>3, <1>4 DEF FindRenames, TypeOK, files, wires
<1>6. /\ r.pc = "rename" /\ r.remote = ini[k].remote /\ r.snap = ini[k].snap
      /\ r.jobs = <<>> /\ r.moves = M
  BY <1>1, <1>2, <1>4 DEF Initiator
<1>7. ASSUME NEW m \in M PROVE m[1] # m[2]
  <2>1. PICK p \in Path : /\ m = <<p, to[p]>> /\ Dead(ini[k].remote[p])
                          /\ PathsOf(ini[k].remote, index[k[1]][p].sum) # {}
    BY <1>3 DEF RemoteMoves
  <2>2. to[p] \in PathsOf(ini[k].remote, index[k[1]][p].sum)
    BY <2>1 DEF FindRenames, Target
  <2>3. QED BY <2>1, <2>2 DEF PathsOf, Dead, Live
<1>8. HonestInitiator(k, r)
  BY <1>1, <1>2, <1>6, <1>7 DEF HonestInitiator
<1>9. TidyInitiator(k, r)
  BY <1>1, <1>2, TidyAll
<1>10. QED BY <1>1, <1>5, <1>8, <1>9, QuietStep

\* The selection of files touches none.
LEMMA ComputeNeededHonest ==
  ASSUME HonestInv, NEW k \in Link, ComputeNeeded(k), ~Idle(k)
  PROVE  LinkHonest(k)'
<1>1. /\ TypeOK /\ ini[k] \in Initiator
      /\ HonestInitiator(k, ini[k]) /\ HonestListener(k, lis[k])
      /\ HonestWire(up[k]) /\ HonestWire(down[k])
      /\ TidyInitiator(k, ini[k]) /\ TidyListener(k, lis[k])
  BY OpenLink
<1>2. ini[k].jobs = <<>>
  BY DEF ComputeNeeded, At
<1>3. PICK T : T = {p \in Path : Needed(Strategy, index[k[1]], ini[k].remote, {}, p)}
  OBVIOUS
<1>4. PICK r : r = [ini[k] EXCEPT !.pc = "pull", !.todo = T]
  OBVIOUS
<1>5. /\ ini'[k] = r /\ lis'[k] = lis[k] /\ up'[k] = up[k] /\ down'[k] = down[k]
      /\ index' = index /\ disk' = disk
  BY <1>1, <1>3, <1>4 DEF ComputeNeeded, TypeOK, wires
<1>6. /\ r.pc = "pull" /\ r.remote = ini[k].remote /\ r.snap = ini[k].snap
      /\ r.jobs = <<>> /\ r.moves = ini[k].moves
  BY <1>1, <1>2, <1>4 DEF Initiator
<1>7. HonestInitiator(k, r)
  BY <1>1, <1>2, <1>6 DEF HonestInitiator
<1>8. TidyInitiator(k, r)
  BY <1>1, <1>2, TidyAll
<1>9. QED BY <1>1, <1>5, <1>7, <1>8, QuietStep

\* A request says nothing of a content.
LEMMA RequestFileHonest ==
  ASSUME HonestInv, NEW k \in Link, NEW q \in Path, RequestFile(k, q), ~Idle(k)
  PROVE  LinkHonest(k)'
<1>1. /\ TypeOK /\ ini[k] \in Initiator /\ up[k] \in Seq(Message)
      /\ HonestInitiator(k, ini[k]) /\ HonestListener(k, lis[k])
      /\ HonestWire(up[k]) /\ HonestWire(down[k])
      /\ TidyInitiator(k, ini[k]) /\ TidyListener(k, lis[k])
  BY OpenLink
<1>2. ini[k].jobs = <<>>
  BY DEF RequestFile, At
<1>3. PICK m \in Message : m = [type |-> "GET_FILE", path |-> q]
  BY DEF Message
<1>4. PICK r : r = [ini[k] EXCEPT !.pc = "wait", !.todo = @ \ {q}]
  OBVIOUS
<1>5. /\ ini'[k] = r /\ lis'[k] = lis[k] /\ up'[k] = Append(up[k], m) /\ down'[k] = down[k]
      /\ index' = index /\ disk' = disk
  BY <1>1, <1>3, <1>4 DEF RequestFile, Send, TypeOK, files
<1>6. /\ r.pc = "wait" /\ r.remote = ini[k].remote /\ r.snap = ini[k].snap
      /\ r.jobs = <<>> /\ r.moves = ini[k].moves
  BY <1>1, <1>2, <1>4 DEF Initiator
<1>7. HonestInitiator(k, r)
  BY <1>1, <1>2, <1>6 DEF HonestInitiator
<1>8. HonestWire(Append(up[k], m))
  BY <1>1, <1>3, HonestAppend DEF HonestMessage
<1>9. TidyInitiator(k, r)
  BY <1>1, <1>2, TidyAll
<1>10. QED BY <1>1, <1>5, <1>7, <1>8, <1>9, QuietStep

\* A file that has come is installed with the entry of its content.
LEMMA ReceiveFileHonest ==
  ASSUME HonestInv, NEW k \in Link, ReceiveFile(k), ~Idle(k)
  PROVE  LinkHonest(k)'
<1>1. /\ TypeOK /\ ini[k] \in Initiator /\ down[k] \in Seq(Message) /\ k[1] \in Node
      /\ HonestInitiator(k, ini[k]) /\ HonestListener(k, lis[k])
      /\ HonestWire(up[k]) /\ HonestWire(down[k])
      /\ TidyInitiator(k, ini[k]) /\ TidyListener(k, lis[k])
  BY OpenLink
<1>2. ini[k].pc = "wait" /\ down[k] # <<>> /\ Head(down[k]).type = "FILE_DATA"
  BY DEF ReceiveFile, Got
<1>3. PICK m \in Message : m = Head(down[k])
  BY <1>1, <1>2, TailWire
<1>4. m.path \in Path /\ m.entry \in Entry /\ m.content \in Nat
  BY <1>2, <1>3, MessageFields
<1>5. PICK w : w = <<Apply(m.path, m.entry, m.content)>>
  OBVIOUS
<1>6. PICK r : r = [ini[k] EXCEPT !.pc = "pull", !.jobs = w]
  OBVIOUS
<1>7. /\ ini'[k] = r /\ lis'[k] = lis[k] /\ up'[k] = up[k] /\ down'[k] = Tail(down[k])
      /\ index' = index /\ disk' = disk
  BY <1>1, <1>3, <1>5, <1>6 DEF ReceiveFile, TypeOK, files
<1>8. /\ r.pc = "pull" /\ r.remote = ini[k].remote /\ r.snap = ini[k].snap
      /\ r.jobs = w /\ r.moves = ini[k].moves
  BY <1>1, <1>6 DEF Initiator
<1>9. HonestWire(Tail(down[k])) /\ Sound(m.entry) /\ m.content = m.entry.sum
  <2>1. HonestWire(Tail(down[k])) /\ HonestMessage(m)
    BY <1>1, <1>2, <1>3, HonestTail
  <2>2. QED BY <1>2, <1>3, <2>1 DEF HonestMessage
<1>10. HonestInitiator(k, r)
  <2>1. HonestJobs(k[1], w)
    BY <1>1, <1>4, <1>5, <1>9, HonestOne
  <2>2. QED BY <1>1, <1>8, <2>1 DEF HonestInitiator
<1>11. TidyInitiator(k, r)
  BY <1>1, <1>2, TidyAll
<1>12. QED BY <1>1, <1>7, <1>9, <1>10, <1>11, QuietStep

\* The push is of the index of this moment; a local rename is from another
\* name.
LEMMA FinishPullHonest ==
  ASSUME HonestInv, NEW k \in Link, NEW old \in [Path -> Path], FinishPull(k, old), ~Idle(k)
  PROVE  LinkHonest(k)'
<1>1. /\ TypeOK /\ ini[k] \in Initiator /\ up[k] \in Seq(Message) /\ k[1] \in Node
      /\ HonestInitiator(k, ini[k]) /\ HonestListener(k, lis[k])
      /\ HonestWire(up[k]) /\ HonestWire(down[k])
      /\ TidyInitiator(k, ini[k]) /\ TidyListener(k, lis[k]) /\ FilesHonest
  BY OpenLink
<1>2. ini[k].jobs = <<>>
  BY DEF FinishPull, At
<1>3. PICK m \in Message : m = [type |-> "SYNC_DONE"]
  BY DEF Message
<1>4. PICK T : T = {p \in Path : Behind(index[k[1]], ini[k].remote, p)}
  OBVIOUS
<1>5. PICK M : M = LocalMoves(index[k[1]], ini[k].remote, old)
  OBVIOUS
<1>6. PICK r : r = [ini[k] EXCEPT !.pc = "push", !.snap = index[k[1]], !.todo = T, !.moves = M]
  OBVIOUS
<1>7. /\ ini'[k] = r /\ lis'[k] = lis[k] /\ up'[k] = Append(up[k], m) /\ down'[k] = down[k]
      /\ index' = index /\ disk' = disk
  BY <1>1, <1>3, <1>4, <1>5, <1>6 DEF FinishPull, Send, TypeOK, files
<1>8. /\ r.pc = "push" /\ r.remote = ini[k].remote /\ r.snap = index[k[1]]
      /\ r.jobs = <<>> /\ r.moves = M
  BY <1>1, <1>2, <1>6 DEF Initiator
<1>9. \A x \in M : x[1] # x[2]
  BY <1>5 DEF LocalMoves
<1>10. HonestInitiator(k, r)
  BY <1>1, <1>2, <1>8, <1>9 DEF HonestInitiator, FilesHonest, SoundIndex
<1>11. HonestWire(Append(up[k], m))
  BY <1>1, <1>3, HonestAppend DEF HonestMessage
<1>12. TidyInitiator(k, r)
  BY <1>1, <1>2, TidyAll
<1>13. QED BY <1>1, <1>7, <1>10, <1>11, <1>12, QuietStep

\* What is pushed is the entry of this moment with the content of its file.
LEMMA PushHonest ==
  ASSUME HonestInv, NEW k \in Link, NEW q \in Path, Push(k, q), ~Idle(k)
  PROVE  LinkHonest(k)'
<1>1. /\ TypeOK /\ ini[k] \in Initiator /\ up[k] \in Seq(Message) /\ k[1] \in Node
      /\ HonestInitiator(k, ini[k]) /\ HonestListener(k, lis[k])
      /\ HonestWire(up[k]) /\ HonestWire(down[k])
      /\ TidyInitiator(k, ini[k]) /\ TidyListener(k, lis[k]) /\ FilesHonest
  BY OpenLink
<1>2. /\ ini[k].pc = "push" /\ ini[k].jobs = <<>> /\ ini[k].snap = index[k[1]]
      /\ ini[k].moves \subseteq Path \X Path
  BY <1>1 DEF Push, HonestInitiator, Initiator
<1>3. PICK e \in Entry : e = ini[k].snap[q] /\ Sound(e)
  BY <1>1, <1>2 DEF TypeOK, Index, FilesHonest
<1>4. Honest(e, disk[k[1]][q])
  BY <1>1, <1>2, <1>3, TidyAll
<1>5. PICK r : r = [ini[k] EXCEPT !.todo = @ \ {q}]
  OBVIOUS
<1>6. PICK u : u = up'[k]
  OBVIOUS
<1>7. /\ ini'[k] = r /\ lis'[k] = lis[k] /\ down'[k] = down[k]
      /\ index' = index /\ disk' = disk
  BY <1>1, <1>5 DEF Push, Send, TypeOK, files
<1>8. \/ u = up[k]
      \/ \E m \in Message : u = Append(up[k], m) /\ HonestMessage(m)
  <2>1. ASSUME NEW x \in {y \in ini[k].moves : y[2] = q},
               up' = Send(up, k, [type |-> "RENAME_FILE", from |-> x[1], path |-> q, entry |-> e])
        PROVE  \E m \in Message : u = Append(up[k], m) /\ HonestMessage(m)
    <3>1. x[1] \in Path /\ x[1] # q
      BY <1>1, <1>2 DEF HonestInitiator
    <3>2. PICK m \in Message :
            m = [type |-> "RENAME_FILE", from |-> x[1], path |-> q, entry |-> e]
      BY <3>1 DEF Message
    <3>3. m.type = "RENAME_FILE" /\ m.from = x[1] /\ m.path = q /\ m.entry = e
      BY <3>2
    <3>4. HonestMessage(m)
      BY <1>3, <3>1, <3>3 DEF HonestMessage
    <3>5. u = Append(up[k], m)
      BY <1>1, <1>6, <2>1, <3>2 DEF Send, TypeOK
    <3>6. QED BY <3>4, <3>5
  <2>2. ASSUME up' = Send(up, k, [type |-> "FILE_DATA", path |-> q, entry |-> e,
                                  content |-> disk[k[1]][q].sum])
        PROVE  \E m \in Message : u = Append(up[k], m) /\ HonestMessage(m)
    <3>1. PICK m \in Message : m = [type |-> "FILE_DATA", path |-> q, entry |-> e,
                                    content |-> disk[k[1]][q].sum]
      <4>1. disk[k[1]][q].sum \in Nat
        BY <1>1 DEF TypeOK, File
      <4>2. QED BY <4>1 DEF Message
    <3>2. m.type = "FILE_DATA" /\ m.entry = e /\ m.content = disk[k[1]][q].sum
      BY <3>1
    <3>3. HonestMessage(m)
      BY <1>3, <1>4, <3>2 DEF HonestMessage, Honest
    <3>4. u = Append(up[k], m)
      BY <1>1, <1>6, <2>2, <3>1 DEF Send, TypeOK
    <3>5. QED BY <3>3, <3>4
  <2>3. QED BY <1>3, <1>6, <2>1, <2>2 DEF Push
<1>9. /\ r.pc = "push" /\ r.remote = ini[k].remote /\ r.snap = ini[k].snap
      /\ r.jobs = <<>> /\ r.moves = ini[k].moves
  BY <1>1, <1>2, <1>5 DEF Initiator
<1>10. HonestInitiator(k, r)
  BY <1>1, <1>2, <1>9 DEF HonestInitiator
<1>11. HonestWire(u)
  BY <1>1, <1>8, HonestAppend
<1>12. TidyInitiator(k, r)
  BY <1>1, <1>2, TidyAll
<1>13. QED BY <1>1, <1>6, <1>7, <1>10, <1>11, <1>12, QuietStep

\* The initiator is done.
LEMMA FinishPushHonest ==
  ASSUME HonestInv, NEW k \in Link, FinishPush(k), ~Idle(k)
  PROVE  LinkHonest(k)'
<1>1. /\ TypeOK /\ up[k] \in Seq(Message)
      /\ HonestListener(k, lis[k]) /\ HonestWire(up[k]) /\ HonestWire(down[k])
      /\ TidyInitiator(k, ini[k]) /\ TidyListener(k, lis[k])
  BY OpenLink
<1>2. ini[k].pc = "push"
  BY DEF FinishPush
<1>3. PICK m \in Message : m = [type |-> "ACK"]
  BY DEF Message
<1>4. /\ ini'[k] = IdleInitiator /\ lis'[k] = lis[k] /\ up'[k] = Append(up[k], m)
      /\ down'[k] = down[k] /\ index' = index /\ disk' = disk
  BY <1>1, <1>3 DEF FinishPush, Send, TypeOK, files
<1>5. HonestWire(Append(up[k], m))
  BY <1>1, <1>3, HonestAppend DEF HonestMessage
<1>6. TidyInitiator(k, IdleInitiator)
  BY <1>1, <1>2, TidyAll
<1>7. QED BY <1>1, <1>4, <1>5, <1>6, IdleHonest, QuietStep

-----------------------------------------------------------------------------
(* The listener's steps                                                    *)

\* The server greets with an index that is sound.
LEMMA GreetHonest ==
  ASSUME HonestInv, NEW k \in Link, Greet(k), ~Idle(k)
  PROVE  LinkHonest(k)'
<1>1. /\ TypeOK /\ lis[k] \in Listener /\ down[k] \in Seq(Message) /\ k[2] \in Node
      /\ HonestInitiator(k, ini[k]) /\ HonestListener(k, lis[k])
      /\ HonestWire(up[k]) /\ HonestWire(down[k])
      /\ TidyInitiator(k, ini[k]) /\ TidyListener(k, lis[k]) /\ FilesHonest
  BY OpenLink
<1>2. lis[k].pc = "idle"
  BY DEF Greet
<1>3. PICK m \in Message : m = Hello(k[2])
  <2>1. index[k[2]] \in Index
    BY <1>1 DEF TypeOK
  <2>2. QED BY <2>1 DEF Hello, Message
<1>4. m.type = "HELLO" /\ m.index = index[k[2]]
  BY <1>3 DEF Hello
<1>5. PICK s : s = [lis[k] EXCEPT !.pc = "hello"]
  OBVIOUS
<1>6. /\ ini'[k] = ini[k] /\ lis'[k] = s /\ up'[k] = up[k] /\ down'[k] = Append(down[k], m)
      /\ index' = index /\ disk' = disk
  BY <1>1, <1>3, <1>5 DEF Greet, Send, TypeOK, files
<1>7. s.pc = "hello" /\ s.remote = lis[k].remote /\ s.jobs = lis[k].jobs
  BY <1>1, <1>5 DEF Listener
<1>8. HonestListener(k, s)
  BY <1>1, <1>2, <1>7 DEF HonestListener
<1>9. HonestWire(Append(down[k], m))
  <2>1. HonestMessage(m)
    BY <1>1, <1>4 DEF HonestMessage, SoundIndex, FilesHonest
  <2>2. QED BY <1>1, <2>1, HonestAppend
<1>10. TidyListener(k, s)
  BY <1>1, <1>2, TidyAll
<1>11. QED BY <1>1, <1>6, <1>8, <1>9, <1>10, QuietStep

\* The listener reads a HELLO, and answers it unless it has greeted.
LEMMA ListenerHelloHonest ==
  ASSUME HonestInv, NEW k \in Link, ListenerHello(k), ~Idle(k)
  PROVE  LinkHonest(k)'
<1>1. /\ TypeOK /\ lis[k] \in Listener /\ up[k] \in Seq(Message) /\ k[2] \in Node
      /\ down[k] \in Seq(Message)
      /\ HonestInitiator(k, ini[k]) /\ HonestListener(k, lis[k])
      /\ HonestWire(up[k]) /\ HonestWire(down[k])
      /\ TidyInitiator(k, ini[k]) /\ TidyListener(k, lis[k]) /\ FilesHonest
  BY OpenLink
<1>2. /\ lis[k].pc \in {"idle", "hello"} /\ up[k] # <<>> /\ Head(up[k]).type = "HELLO"
  BY DEF ListenerHello, Got
<1>3. PICK g \in Message : g = Head(up[k])
  BY <1>1, <1>2, TailWire
<1>4. PICK m \in Message : m = Hello(k[2])
  <2>1. index[k[2]] \in Index
    BY <1>1 DEF TypeOK
  <2>2. QED BY <2>1 DEF Hello, Message
<1>5. m.type = "HELLO" /\ m.index = index[k[2]]
  BY <1>4 DEF Hello
<1>6. PICK s : s = [lis[k] EXCEPT !.pc = "delete", !.remote = g.index,
                                  !.todo = Tombstones(g.index)]
  OBVIOUS
<1>7. PICK d : d = down'[k]
  OBVIOUS
<1>8. /\ ini'[k] = ini[k] /\ lis'[k] = s /\ up'[k] = Tail(up[k])
      /\ index' = index /\ disk' = disk
      /\ d = down[k] \/ d = Append(down[k], m)
  BY <1>1, <1>3, <1>4, <1>6, <1>7 DEF ListenerHello, Send, TypeOK, files
<1>9. s.pc = "delete" /\ s.remote = g.index /\ s.jobs = lis[k].jobs
  BY <1>1, <1>6 DEF Listener
<1>10. HonestWire(Tail(up[k])) /\ HonestMessage(g)
  BY <1>1, <1>2, <1>3, HonestTail
<1>11. HonestListener(k, s)
  BY <1>1, <1>2, <1>3, <1>9, <1>10 DEF HonestListener, HonestMessage
<1>12. HonestWire(d)
  <2>1. HonestMessage(m)
    BY <1>1, <1>5 DEF HonestMessage, SoundIndex, FilesHonest
  <2>2. QED BY <1>1, <1>8, <2>1, HonestAppend
<1>13. TidyListener(k, s)
  BY <1>1, <1>2, TidyAll
<1>14. QED BY <1>1, <1>7, <1>8, <1>10, <1>11, <1>12, <1>13, QuietStep

\* The listener's deletion pass at one path.
LEMMA ListenerDeletionHonest ==
  ASSUME HonestInv, NEW k \in Link, NEW q \in Path, ListenerDeletion(k, q), ~Idle(k)
  PROVE  LinkHonest(k)'
<1>1. /\ TypeOK /\ lis[k] \in Listener /\ k[2] \in Node
      /\ HonestInitiator(k, ini[k]) /\ HonestListener(k, lis[k])
      /\ HonestWire(up[k]) /\ HonestWire(down[k])
      /\ TidyInitiator(k, ini[k]) /\ TidyListener(k, lis[k])
  BY OpenLink
<1>2. lis[k].pc = "delete" /\ lis[k].remote \in Index
  BY <1>1 DEF ListenerDeletion, At, Listener
<1>3. PICK w : w = Deletion(k[2], lis[k].remote, q)
  OBVIOUS
<1>4. PICK s : s = [lis[k] EXCEPT !.todo = @ \ {q}, !.jobs = w]
  OBVIOUS
<1>5. /\ ini'[k] = ini[k] /\ lis'[k] = s /\ up'[k] = up[k] /\ down'[k] = down[k]
      /\ index' = index /\ disk' = disk
  BY <1>1, <1>3, <1>4 DEF ListenerDeletion, TypeOK, wires
<1>6. s.pc = "delete" /\ s.remote = lis[k].remote /\ s.jobs = w
  BY <1>1, <1>2, <1>4 DEF Listener
<1>7. HonestJobs(k[2], w)
  BY <1>1, <1>2, <1>3, DeletionHonest DEF HonestListener
<1>8. HonestListener(k, s)
  BY <1>1, <1>6, <1>7 DEF HonestListener
<1>9. TidyListener(k, s)
  BY <1>1, <1>2, TidyAll
<1>10. QED BY <1>1, <1>5, <1>8, <1>9, QuietStep

\* The listener goes on to the next phase, or reads that the pull is over.
LEMMA ServingHonest ==
  ASSUME HonestInv, NEW k \in Link, BeginServing(k) \/ ServeDone(k), ~Idle(k)
  PROVE  LinkHonest(k)'
<1>1. /\ TypeOK /\ lis[k] \in Listener /\ up[k] \in Seq(Message)
      /\ HonestInitiator(k, ini[k]) /\ HonestListener(k, lis[k])
      /\ HonestWire(up[k]) /\ HonestWire(down[k])
      /\ TidyInitiator(k, ini[k]) /\ TidyListener(k, lis[k])
  BY OpenLink
<1>2. PICK c \in {"serve", "accept"} : lis' = [lis EXCEPT ![k].pc = c]
  BY DEF BeginServing, ServeDone
<1>3. PICK s : s = [lis[k] EXCEPT !.pc = c]
  OBVIOUS
<1>4. PICK u : u = up'[k]
  OBVIOUS
<1>5. /\ ini'[k] = ini[k] /\ lis'[k] = s /\ down'[k] = down[k]
      /\ index' = index /\ disk' = disk
      /\ u = up[k] \/ (u = Tail(up[k]) /\ up[k] # <<>>)
      /\ lis[k].pc \in {"delete", "serve"} /\ lis[k].jobs = <<>>
  BY <1>1, <1>2, <1>3, <1>4
     DEF BeginServing, ServeDone, At, Got, TypeOK, files, wires, HonestListener
<1>6. s.remote = lis[k].remote /\ s.jobs = <<>>
  BY <1>1, <1>3, <1>5 DEF Listener
<1>7. HonestListener(k, s)
  BY <1>1, <1>5, <1>6 DEF HonestListener
<1>8. HonestWire(u)
  BY <1>1, <1>5, HonestTail
<1>9. TidyListener(k, s)
  BY <1>1, <1>5, TidyAll
<1>10. QED BY <1>1, <1>4, <1>5, <1>7, <1>8, <1>9, QuietStep

\* A file is served with the entry that names its content.
LEMMA ServeHonest ==
  ASSUME HonestInv, NEW k \in Link, Serve(k), ~Idle(k)
  PROVE  LinkHonest(k)'
<1>1. /\ TypeOK /\ up[k] \in Seq(Message) /\ down[k] \in Seq(Message) /\ k[2] \in Node
      /\ HonestInitiator(k, ini[k]) /\ HonestListener(k, lis[k])
      /\ HonestWire(up[k]) /\ HonestWire(down[k])
      /\ TidyInitiator(k, ini[k]) /\ TidyListener(k, lis[k]) /\ FilesHonest
  BY OpenLink
<1>2. lis[k].pc = "serve" /\ up[k] # <<>> /\ Head(up[k]).type = "GET_FILE"
  BY DEF Serve, Got
<1>3. PICK g \in Message : g = Head(up[k])
  BY <1>1, <1>2, TailWire
<1>4. PICK q \in Path : q = g.path
  BY <1>2, <1>3, MessageFields
<1>5. PICK e \in Entry : e = index[k[2]][q] /\ Sound(e)
  BY <1>1 DEF TypeOK, Index, FilesHonest
<1>6. Honest(e, disk[k[2]][q])
  BY <1>1, <1>2, <1>5, TidyAll
<1>7. PICK m \in Message : m = [type |-> "FILE_DATA", path |-> q, entry |-> e,
                                content |-> disk[k[2]][q].sum]
  <2>1. disk[k[2]][q].sum \in Nat
    BY <1>1 DEF TypeOK, File
  <2>2. QED BY <2>1 DEF Message
<1>8. m.type = "FILE_DATA" /\ m.entry = e /\ m.content = disk[k[2]][q].sum
  BY <1>7
<1>9. HonestMessage(m)
  BY <1>5, <1>6, <1>8 DEF HonestMessage, Honest
<1>10. PICK d : d = down'[k]
  OBVIOUS
<1>11. /\ ini'[k] = ini[k] /\ lis'[k] = lis[k] /\ up'[k] = Tail(up[k])
       /\ index' = index /\ disk' = disk
       /\ d = down[k] \/ d = Append(down[k], m)
  BY <1>1, <1>3, <1>4, <1>5, <1>7, <1>10 DEF Serve, Send, TypeOK, files
<1>12. HonestWire(d) /\ HonestWire(Tail(up[k]))
  BY <1>1, <1>2, <1>9, <1>11, HonestAppend, HonestTail
<1>13. QED BY <1>1, <1>10, <1>11, <1>12, QuietStep

\* A file that is pushed is installed with the entry of its content.
LEMMA AcceptFileHonest ==
  ASSUME HonestInv, NEW k \in Link, AcceptFile(k), ~Idle(k)
  PROVE  LinkHonest(k)'
<1>1. /\ TypeOK /\ lis[k] \in Listener /\ up[k] \in Seq(Message) /\ k[2] \in Node
      /\ HonestInitiator(k, ini[k]) /\ HonestListener(k, lis[k])
      /\ HonestWire(up[k]) /\ HonestWire(down[k])
      /\ TidyInitiator(k, ini[k]) /\ TidyListener(k, lis[k])
  BY OpenLink
<1>2. /\ lis[k].pc = "accept" /\ lis[k].jobs = <<>>
      /\ up[k] # <<>> /\ Head(up[k]).type = "FILE_DATA"
  BY DEF AcceptFile, At, Got
<1>3. PICK m \in Message : m = Head(up[k])
  BY <1>1, <1>2, TailWire
<1>4. m.path \in Path /\ m.entry \in Entry /\ m.content \in Nat
  BY <1>2, <1>3, MessageFields
<1>5. PICK w : w = <<Apply(m.path, m.entry, m.content)>>
  OBVIOUS
<1>6. PICK s : s = lis'[k]
  OBVIOUS
<1>7. /\ ini'[k] = ini[k] /\ up'[k] = Tail(up[k]) /\ down'[k] = down[k]
      /\ index' = index /\ disk' = disk
      /\ s = lis[k] \/ s = [lis[k] EXCEPT !.jobs = w]
  BY <1>1, <1>3, <1>5, <1>6 DEF AcceptFile, TypeOK
<1>8. HonestWire(Tail(up[k])) /\ Sound(m.entry) /\ m.content = m.entry.sum
  <2>1. HonestWire(Tail(up[k])) /\ HonestMessage(m)
    BY <1>1, <1>2, <1>3, HonestTail
  <2>2. QED BY <1>2, <1>3, <2>1 DEF HonestMessage
<1>9. HonestListener(k, s)
  <2>1. HonestJobs(k[2], w)
    BY <1>1, <1>4, <1>5, <1>8, HonestOne
  <2>2. CASE s = [lis[k] EXCEPT !.jobs = w]
    <3>1. s.pc = "accept" /\ s.remote = lis[k].remote /\ s.jobs = w
      BY <1>1, <1>2, <2>2 DEF Listener
    <3>2. QED BY <1>1, <2>1, <3>1 DEF HonestListener
  <2>3. QED BY <1>1, <1>7, <2>2
<1>10. TidyListener(k, s)
  BY <1>1, <1>2, TidyAll
<1>11. QED BY <1>1, <1>6, <1>7, <1>8, <1>9, <1>10, QuietStep

\* The listener is done.
LEMMA AcceptAckHonest ==
  ASSUME HonestInv, NEW k \in Link, AcceptAck(k), ~Idle(k)
  PROVE  LinkHonest(k)'
<1>1. /\ TypeOK /\ up[k] \in Seq(Message)
      /\ HonestInitiator(k, ini[k]) /\ HonestWire(up[k]) /\ HonestWire(down[k])
      /\ TidyInitiator(k, ini[k]) /\ TidyListener(k, lis[k])
  BY OpenLink
<1>2. lis[k].jobs = <<>> /\ up[k] # <<>>
  BY DEF AcceptAck, At, Got
<1>3. /\ ini'[k] = ini[k] /\ lis'[k] = IdleListener /\ up'[k] = Tail(up[k])
      /\ down'[k] = down[k] /\ index' = index /\ disk' = disk
  BY <1>1 DEF AcceptAck, TypeOK, files
<1>4. HonestWire(Tail(up[k]))
  BY <1>1, <1>2, HonestTail
<1>5. TidyListener(k, IdleListener)
  BY <1>1, <1>2, TidyAll
<1>6. QED BY <1>1, <1>3, <1>4, <1>5, IdleHonest, QuietStep

\* A connection is lost between the jobs of its two ends.
LEMMA DropHonest ==
  ASSUME HonestInv, NEW k \in Link, Drop(k), ~Idle(k)
  PROVE  LinkHonest(k)'
<1>1. TypeOK /\ TidyInitiator(k, ini[k]) /\ TidyListener(k, lis[k])
  BY OpenLink
<1>2. /\ ini'[k] = IdleInitiator /\ lis'[k] = IdleListener /\ up'[k] = <<>>
      /\ down'[k] = <<>> /\ index' = index /\ disk' = disk
      /\ ini[k].jobs = <<>> /\ lis[k].jobs = <<>>
  BY <1>1 DEF Drop, TypeOK
<1>3. TidyInitiator(k, IdleInitiator) /\ TidyListener(k, IdleListener)
  BY <1>1, <1>2, TidyAll
<1>4. QED BY <1>2, <1>3, IdleHonest, EmptyHonest, QuietStep

-----------------------------------------------------------------------------
(* Renames and jobs                                                        *)

\* What happens at the other end leaves an end honest.
LEMMA OtherEnd ==
  ASSUME TypeOK, NEW k \in Link
  PROVE  /\ index'[k[1]] = index[k[1]] /\ disk'[k[1]] = disk[k[1]] =>
              /\ \A c : HonestInitiator(k, c) => HonestInitiator(k, c)'
              /\ \A c : TidyInitiator(k, c) => TidyInitiator(k, c)'
         /\ index'[k[2]] = index[k[2]] /\ disk'[k[2]] = disk[k[2]] =>
              /\ \A c : HonestListener(k, c) => HonestListener(k, c)'
              /\ \A c : TidyListener(k, c) => TidyListener(k, c)'
<1>1. ASSUME NEW n \in Node, disk'[n] = disk[n], NEW w, HonestJobs(n, w)
      PROVE  HonestJobs(n, w)'
  BY <1>1 DEF HonestJobs, HonestJob
<1>2. k[1] \in Node /\ k[2] \in Node
  BY Ends
<1>3. QED BY <1>1, <1>2
          DEF HonestInitiator, HonestListener, TidyInitiator, TidyListener

\* _apply_rename moves the file under a job for each of the two names; the one
\* for the new name finds its content there.
LEMMA RenameHonest ==
  ASSUME TypeOK, FilesHonest, NEW n \in Node, NEW from \in Path, NEW to \in Path, from # to,
         NEW e \in Entry, Sound(e), \A p \in Path : Honest(index[n][p], disk[n][p]),
         Renameable(n, from, e), RenameFile(n, from, to), index' = index,
         NEW w, w = RenameJobs(n, from, to, e)
  PROVE  /\ w # <<>> /\ Items(w) = {w[1], w[2]}
         /\ w[1].path = from /\ w[2].path = to /\ w[2].entry = e
         /\ JobPaths(w) = {from, to} /\ HonestJobs(n, w)'
         /\ \A p \in Path : p = from \/ p = to \/ disk'[n][p] = disk[n][p]
         /\ \A i \in Node : i # n => disk'[i] = disk[i]
         /\ FilesHonest'
<1>1. PICK a \in Job : a = Apply(from, MakeTombstone(index[n][from], n), NoSum)
  <2>1. index[n][from] \in Entry
    BY DEF TypeOK, Index
  <2>2. MakeTombstone(index[n][from], n) \in Entry
    BY <2>1, MakeTombstoneType
  <2>3. QED BY <2>2, ApplyJob DEF NoSum
<1>2. PICK b \in Job : b = Apply(to, e, NoSum)
  BY ApplyJob DEF NoSum
<1>3. /\ a.path = from /\ a.content = NoSum /\ Sound(a.entry) /\ ~Live(a.entry)
      /\ b.path = to /\ b.content = NoSum /\ b.entry = e
  BY <1>1, <1>2, WatchedSound DEF Apply, FilesHonest
<1>4. w = <<a, b>> /\ Len(w) = 2 /\ w[1] = a /\ w[2] = b /\ w # <<>>
  BY <1>1, <1>2 DEF RenameJobs
<1>5. Items(w) = {a, b}
  BY <1>4 DEF Items
<1>6. PICK f \in File : f = disk[n][from]
  BY DEF TypeOK
<1>7. disk' = [disk EXCEPT ![n][from] = Absent, ![n][to] = f]
  BY <1>6 DEF RenameFile
<1>8. /\ disk'[n][to] = f /\ disk'[n][from] = Absent
      /\ \A p \in Path : p = from \/ p = to \/ disk'[n][p] = disk[n][p]
      /\ \A i \in Node : i # n => disk'[i] = disk[i]
  BY <1>7 DEF TypeOK
<1>9. f.sum = e.sum /\ Dated(f)
  BY <1>6 DEF Renameable, Honest, FilesHonest
<1>10. HonestJobs(n, w)'
  <2>1. HonestJob(n, a)'
    BY <1>3 DEF HonestJob
  <2>2. HonestJob(n, b)'
    BY <1>3, <1>8, <1>9 DEF HonestJob
  <2>3. QED BY <1>3, <1>4, <1>5, <2>1, <2>2 DEF HonestJobs
<1>11. Dated(Absent)
  BY DEF Dated, Absent, Exists
<1>12. FilesHonest'
  BY <1>8, <1>9, <1>11 DEF FilesHonest
<1>13. JobPaths(w) = {from, to}
  BY <1>3, <1>5 DEF JobPaths
<1>14. QED BY <1>3, <1>4, <1>5, <1>8, <1>10, <1>12, <1>13

\* The initiator renames a file as the remote has, or finds that it cannot.
LEMMA InitiatorRenameHonest ==
  ASSUME HonestInv, NEW k \in Link, NEW m \in Path \X Path, InitiatorRename(k, m), ~Idle(k)
  PROVE  LinkHonest(k)' /\ FilesHonest'
<1>1. /\ TypeOK /\ ini[k] \in Initiator /\ k[1] \in Node /\ k[2] \in Node /\ k[1] # k[2]
      /\ HonestInitiator(k, ini[k]) /\ HonestListener(k, lis[k])
      /\ HonestWire(up[k]) /\ HonestWire(down[k])
      /\ TidyInitiator(k, ini[k]) /\ TidyListener(k, lis[k]) /\ FilesHonest
  BY OpenLink
<1>2. /\ ini[k].pc = "rename" /\ ini[k].jobs = <<>> /\ m \in ini[k].moves
  BY DEF InitiatorRename, At
<1>3. /\ m[1] \in Path /\ m[2] \in Path /\ m[1] # m[2]
      /\ ini'[k].pc = ini[k].pc
  BY <1>1, <1>2 DEF InitiatorRename, HonestInitiator, TypeOK, Initiator
<1>4. PICK e \in Entry : e = ini[k].remote[m[2]] /\ Sound(e)
  BY <1>1, <1>3 DEF Initiator, Index, HonestInitiator, SoundIndex
<1>5. CASE Renameable(k[1], m[1], e)
  <2>1. PICK w : w = RenameJobs(k[1], m[1], m[2], e)
    OBVIOUS
  <2>2. PICK r : r = [ini[k] EXCEPT !.moves = @ \ {m}, !.jobs = w]
    OBVIOUS
  <2>3. /\ RenameFile(k[1], m[1], m[2]) /\ ini'[k] = r /\ lis'[k] = lis[k]
        /\ up'[k] = up[k] /\ down'[k] = down[k] /\ index' = index
    BY <1>1, <1>4, <1>5, <2>1, <2>2 DEF InitiatorRename, TypeOK, wires
  <2>4. /\ r.pc = "rename" /\ r.remote = ini[k].remote /\ r.snap = ini[k].snap
        /\ r.jobs = w /\ r.moves = ini[k].moves \ {m}
    BY <1>1, <1>2, <2>2 DEF Initiator
  <2>5. \A p \in Path : Honest(index[k[1]][p], disk[k[1]][p])
    BY <1>1, <1>2, TidyAll
  <2>6. /\ JobPaths(w) = {m[1], m[2]} /\ HonestJobs(k[1], w)'
        /\ \A p \in Path : p = m[1] \/ p = m[2] \/ disk'[k[1]][p] = disk[k[1]][p]
        /\ \A i \in Node : i # k[1] => disk'[i] = disk[i]
        /\ FilesHonest'
    BY <1>1, <1>3, <1>4, <1>5, <2>1, <2>3, <2>5, RenameHonest
  <2>7. HonestInitiator(k, ini[k])'
    BY <1>1, <2>3, <2>4, <2>6 DEF HonestInitiator
  <2>8. TidyInitiator(k, ini[k])'
    BY <2>3, <2>4, <2>5, <2>6 DEF TidyInitiator
  <2>9. HonestListener(k, lis[k])' /\ TidyListener(k, lis[k])'
    <3>1. index'[k[2]] = index[k[2]] /\ disk'[k[2]] = disk[k[2]]
      BY <1>1, <2>3, <2>6
    <3>2. PICK s : s = lis[k]
      OBVIOUS
    <3>3. HonestListener(k, s)' /\ TidyListener(k, s)'
      BY <1>1, <3>1, <3>2, OtherEnd
    <3>4. QED BY <2>3, <3>2, <3>3
  <2>10. QED BY <1>1, <2>3, <2>6, <2>7, <2>8, <2>9 DEF LinkHonest
<1>6. CASE ~Renameable(k[1], m[1], e)
  <2>1. PICK r : r = [ini[k] EXCEPT !.moves = @ \ {m}]
    OBVIOUS
  <2>2. /\ ini'[k] = r /\ lis'[k] = lis[k] /\ up'[k] = up[k] /\ down'[k] = down[k]
        /\ index' = index /\ disk' = disk
    BY <1>1, <1>4, <1>6, <2>1 DEF InitiatorRename, TypeOK, wires
  <2>3. /\ r.pc = "rename" /\ r.remote = ini[k].remote /\ r.snap = ini[k].snap
        /\ r.jobs = <<>> /\ r.moves = ini[k].moves \ {m}
    BY <1>1, <1>2, <2>1 DEF Initiator
  <2>4. HonestInitiator(k, r)
    BY <1>1, <1>2, <2>3 DEF HonestInitiator
  <2>5. TidyInitiator(k, r)
    BY <1>1, <1>2, TidyAll
  <2>6. FilesHonest'
    BY <1>1, <2>2 DEF FilesHonest
  <2>7. QED BY <1>1, <2>2, <2>4, <2>5, <2>6, QuietStep
<1>7. QED BY <1>5, <1>6

\* The listener renames a file as it is told, or finds that it cannot.
LEMMA AcceptRenameHonest ==
  ASSUME HonestInv, NEW k \in Link, AcceptRename(k), ~Idle(k)
  PROVE  LinkHonest(k)' /\ FilesHonest'
<1>1. /\ TypeOK /\ lis[k] \in Listener /\ k[1] \in Node /\ k[2] \in Node /\ k[1] # k[2]
      /\ up[k] \in Seq(Message)
      /\ HonestInitiator(k, ini[k]) /\ HonestListener(k, lis[k])
      /\ HonestWire(up[k]) /\ HonestWire(down[k])
      /\ TidyInitiator(k, ini[k]) /\ TidyListener(k, lis[k]) /\ FilesHonest
  BY OpenLink
<1>2. /\ lis[k].pc = "accept" /\ lis[k].jobs = <<>>
      /\ up[k] # <<>> /\ Head(up[k]).type = "RENAME_FILE"
  BY DEF AcceptRename, At, Got
<1>3. PICK m \in Message : m = Head(up[k])
  BY <1>1, <1>2, TailWire
<1>4. /\ m.from \in Path /\ m.path \in Path /\ m.entry \in Entry
  BY <1>2, <1>3, MessageFields
<1>5. HonestWire(Tail(up[k])) /\ Sound(m.entry) /\ m.from # m.path
  <2>1. HonestWire(Tail(up[k])) /\ HonestMessage(m)
    BY <1>1, <1>2, <1>3, HonestTail
  <2>2. QED BY <1>2, <1>3, <2>1 DEF HonestMessage
<1>6. CASE Renameable(k[2], m.from, m.entry)
  <2>1. PICK w : w = RenameJobs(k[2], m.from, m.path, m.entry)
    OBVIOUS
  <2>2. PICK s : s = [lis[k] EXCEPT !.jobs = w]
    OBVIOUS
  <2>3. /\ RenameFile(k[2], m.from, m.path) /\ ini'[k] = ini[k] /\ lis'[k] = s
        /\ up'[k] = Tail(up[k]) /\ down'[k] = down[k] /\ index' = index
    BY <1>1, <1>3, <1>6, <2>1, <2>2 DEF AcceptRename, TypeOK
  <2>4. s.pc = "accept" /\ s.remote = lis[k].remote /\ s.jobs = w
    BY <1>1, <1>2, <2>2 DEF Listener
  <2>5. \A p \in Path : Honest(index[k[2]][p], disk[k[2]][p])
    BY <1>1, <1>2, TidyAll
  <2>6. /\ JobPaths(w) = {m.from, m.path} /\ HonestJobs(k[2], w)'
        /\ \A p \in Path : p = m.from \/ p = m.path \/ disk'[k[2]][p] = disk[k[2]][p]
        /\ \A i \in Node : i # k[2] => disk'[i] = disk[i]
        /\ FilesHonest'
    BY <1>1, <1>4, <1>5, <1>6, <2>1, <2>3, <2>5, RenameHonest
  <2>7. HonestListener(k, lis[k])'
    BY <1>1, <2>3, <2>4, <2>6 DEF HonestListener
  <2>8. TidyListener(k, lis[k])'
    BY <2>3, <2>4, <2>5, <2>6 DEF TidyListener
  <2>9. HonestInitiator(k, ini[k])' /\ TidyInitiator(k, ini[k])'
    <3>1. index'[k[1]] = index[k[1]] /\ disk'[k[1]] = disk[k[1]]
      BY <1>1, <2>3, <2>6
    <3>2. PICK r : r = ini[k]
      OBVIOUS
    <3>3. HonestInitiator(k, r)' /\ TidyInitiator(k, r)'
      BY <1>1, <3>1, <3>2, OtherEnd
    <3>4. QED BY <2>3, <3>2, <3>3
  <2>10. QED BY <1>1, <1>5, <2>3, <2>6, <2>7, <2>8, <2>9 DEF LinkHonest
<1>7. CASE ~Renameable(k[2], m.from, m.entry)
  <2>1. /\ ini'[k] = ini[k] /\ lis'[k] = lis[k] /\ up'[k] = Tail(up[k])
        /\ down'[k] = down[k] /\ index' = index /\ disk' = disk
    BY <1>1, <1>3, <1>7 DEF AcceptRename, TypeOK
  <2>2. FilesHonest'
    BY <1>1, <2>1 DEF FilesHonest
  <2>3. QED BY <1>1, <1>5, <2>1, <2>2, QuietStep
<1>8. QED BY <1>6, <1>7

\* A job leaves an entry that names the content on disk (apply_remote).
LEMMA AppliedHonest ==
  ASSUME TypeOK, FilesHonest, NEW n \in Node, NEW j \in Job, HonestJob(n, j), Applied(n, j)
  PROVE  /\ FilesHonest' /\ Honest(index[n][j.path], disk[n][j.path])'
         /\ \A i \in Node, p \in Path : i # n \/ p # j.path =>
              index'[i][p] = index[i][p] /\ disk'[i][p] = disk[i][p]
         /\ \A i \in Node : i # n => index'[i] = index[i] /\ disk'[i] = disk[i]
<1>1. j.path \in Path /\ j.content \in Nat /\ now \in Nat
  BY DEF Job, TypeOK
<1>2. PICK e \in Entry : e = j.entry /\ Sound(e)
  BY DEF Job, HonestJob
<1>3. PICK g : g = disk[n][j.path] /\ Dated(g)
  BY <1>1 DEF FilesHonest
<1>4. PICK f : f = IF ~Live(e) THEN Absent
                   ELSE IF j.content = NoSum THEN g
                   ELSE [sum |-> j.content, mtime |-> Stamp(now, j.content)]
  OBVIOUS
<1>5. disk' = [disk EXCEPT ![n][j.path] = f]
  BY <1>1, <1>2, <1>3, <1>4 DEF Applied, TypeOK
<1>6. disk'[n][j.path] = f
  BY <1>1, <1>5 DEF TypeOK
<1>7. PICK x : x = RecordRemote(e, f)
  OBVIOUS
<1>8. index' = [index EXCEPT ![n][j.path] = x]
  BY <1>2, <1>6, <1>7 DEF Applied
<1>9. index'[n][j.path] = x
  BY <1>1, <1>8 DEF TypeOK, Index
<1>10. Live(e) => j.content = e.sum \/ (j.content = NoSum /\ g.sum = e.sum)
  BY <1>2, <1>3 DEF HonestJob
<1>11. Sound(x) /\ Dated(f) /\ Honest(x, f)
  <2>1. CASE ~Live(e)
    <3>1. f = Absent /\ x = e
      BY <1>4, <1>7, <2>1 DEF RecordRemote
    <3>2. QED BY <1>2, <2>1, <3>1 DEF Sound, Dated, Honest, Absent, Exists, Live
  <2>2. CASE Live(e)
    <3>1. f.sum = e.sum /\ Exists(f) /\ Exists(e) /\ e.sum <= MaxTime
      BY <1>2, <1>4, <1>10, <2>2 DEF Sound, Dated, Exists
    <3>2. \E t \in Nat : f.mtime = Stamp(t, f.sum)
      <4>1. CASE j.content = NoSum
        BY <1>3, <1>4, <2>2, <3>1, <4>1 DEF Dated
      <4>2. CASE j.content # NoSum
        BY <1>1, <1>4, <2>2, <4>2
      <4>3. QED BY <4>1, <4>2
    <3>3. x = [e EXCEPT !.mtime = f.mtime]
      BY <1>7, <2>2, <3>1 DEF RecordRemote
    <3>4. x.sum = e.sum /\ x.mtime = f.mtime /\ x.deleted = e.deleted
      BY <3>3 DEF Entry
    <3>5. QED BY <2>2, <3>1, <3>2, <3>4 DEF Sound, Dated, Honest, Live, Exists
  <2>3. QED BY <2>1, <2>2
<1>12. \A i \in Node, p \in Path : i # n \/ p # j.path =>
         index'[i][p] = index[i][p] /\ disk'[i][p] = disk[i][p]
  BY <1>5, <1>8 DEF TypeOK, Index
<1>13. \A i \in Node : i # n => index'[i] = index[i] /\ disk'[i] = disk[i]
  BY <1>5, <1>8 DEF TypeOK
<1>14. FilesHonest'
  BY <1>6, <1>9, <1>11, <1>12 DEF FilesHonest
<1>15. QED BY <1>6, <1>9, <1>11, <1>12, <1>13, <1>14

\* The jobs that are left are as honest as they were.
LEMMA LeftHonest ==
  ASSUME NEW n \in Node, NEW w \in Seq(Job), w # <<>>, HonestJobs(n, w),
         \A p \in Path : p # Head(w).path => disk'[n][p] = disk[n][p]
  PROVE  HonestJobs(n, Tail(w))'
<1>1. /\ Items(Tail(w)) \subseteq Items(w) /\ Items(w) \subseteq Job
      /\ \A j \in Items(Tail(w)) : j.path # Head(w).path
      /\ \A i, j \in 1..Len(Tail(w)) : Tail(w)[i].path = Tail(w)[j].path => i = j
  BY JobsTail, ItemsOf
<1>2. ASSUME NEW j \in Items(Tail(w)) PROVE HonestJob(n, j)'
  <2>1. HonestJob(n, j) /\ j.path \in Path /\ j.path # Head(w).path
    BY <1>1 DEF HonestJobs, Job
  <2>2. QED BY <2>1 DEF HonestJob
<1>3. QED BY <1>1, <1>2 DEF HonestJobs

\* The initiator's worker thread.
LEMMA InitiatorJobHonest ==
  ASSUME HonestInv, NEW k \in Link, InitiatorJob(k), ~Idle(k)
  PROVE  LinkHonest(k)' /\ FilesHonest'
<1>1. /\ TypeOK /\ ini[k] \in Initiator /\ k[1] \in Node /\ k[2] \in Node /\ k[1] # k[2]
      /\ HonestInitiator(k, ini[k]) /\ HonestListener(k, lis[k])
      /\ HonestWire(up[k]) /\ HonestWire(down[k])
      /\ TidyInitiator(k, ini[k]) /\ TidyListener(k, lis[k]) /\ FilesHonest
  BY OpenLink
<1>2. PICK w \in Seq(Job) : w = ini[k].jobs /\ w # <<>> /\ HonestJobs(k[1], w)
  BY <1>1 DEF InitiatorJob, Initiator, HonestInitiator
<1>3. PICK j \in Job : j = Head(w) /\ HonestJob(k[1], j)
  BY <1>1, <1>2, JobsTail
<1>4. PICK r : r = [ini[k] EXCEPT !.jobs = Tail(w)]
  OBVIOUS
<1>5. /\ Applied(k[1], j) /\ ini'[k] = r /\ lis'[k] = lis[k]
      /\ up'[k] = up[k] /\ down'[k] = down[k]
  BY <1>1, <1>2, <1>3, <1>4 DEF InitiatorJob, Applied, TypeOK, wires
<1>6. /\ r.pc = ini[k].pc /\ r.remote = ini[k].remote /\ r.snap = ini[k].snap
      /\ r.jobs = Tail(w) /\ r.moves = ini[k].moves
  BY <1>1, <1>4 DEF Initiator
<1>7. /\ FilesHonest' /\ Honest(index[k[1]][j.path], disk[k[1]][j.path])'
      /\ \A p \in Path : p # j.path =>
           index'[k[1]][p] = index[k[1]][p] /\ disk'[k[1]][p] = disk[k[1]][p]
      /\ index'[k[2]] = index[k[2]] /\ disk'[k[2]] = disk[k[2]]
  BY <1>1, <1>3, <1>5, AppliedHonest
<1>8. HonestJobs(k[1], Tail(w))'
  BY <1>1, <1>2, <1>3, <1>7, LeftHonest
<1>9. HonestInitiator(k, ini[k])'
  BY <1>1, <1>2, <1>5, <1>6, <1>8 DEF HonestInitiator
<1>10. TidyInitiator(k, ini[k])'
  <2> SUFFICES ASSUME NEW p \in Path, p # j.path
               PROVE  Honest(index[k[1]][p], disk[k[1]][p])'
                        \/ (r.pc = "rename" /\ p \in JobPaths(Tail(w)))
    BY <1>5, <1>6, <1>7 DEF TidyInitiator
  <2>1. p \in JobPaths(w) => p \in JobPaths(Tail(w))
    <3>1. \A x \in Items(w) : x = j \/ x \in Items(Tail(w))
      BY <1>1, <1>2, <1>3, JobsTail
    <3>2. QED BY <3>1 DEF JobPaths
  <2>2. Honest(index[k[1]][p], disk[k[1]][p]) \/ (r.pc = "rename" /\ p \in JobPaths(w))
    BY <1>1, <1>2, <1>6 DEF TidyInitiator
  <2>3. QED BY <1>7, <2>1, <2>2
<1>11. HonestListener(k, lis[k])' /\ TidyListener(k, lis[k])'
  <2>1. PICK s : s = lis[k]
    OBVIOUS
  <2>2. HonestListener(k, s)' /\ TidyListener(k, s)'
    BY <1>1, <1>7, <2>1, OtherEnd
  <2>3. QED BY <1>5, <2>1, <2>2
<1>12. QED BY <1>1, <1>5, <1>7, <1>9, <1>10, <1>11 DEF LinkHonest

\* The listener's worker thread.
LEMMA ListenerJobHonest ==
  ASSUME HonestInv, NEW k \in Link, ListenerJob(k), ~Idle(k)
  PROVE  LinkHonest(k)' /\ FilesHonest'
<1>1. /\ TypeOK /\ lis[k] \in Listener /\ k[1] \in Node /\ k[2] \in Node /\ k[1] # k[2]
      /\ HonestInitiator(k, ini[k]) /\ HonestListener(k, lis[k])
      /\ HonestWire(up[k]) /\ HonestWire(down[k])
      /\ TidyInitiator(k, ini[k]) /\ TidyListener(k, lis[k]) /\ FilesHonest
  BY OpenLink
<1>2. PICK w \in Seq(Job) : w = lis[k].jobs /\ w # <<>> /\ HonestJobs(k[2], w)
  BY <1>1 DEF ListenerJob, Listener, HonestListener
<1>3. PICK j \in Job : j = Head(w) /\ HonestJob(k[2], j)
  BY <1>1, <1>2, JobsTail
<1>4. PICK s : s = [lis[k] EXCEPT !.jobs = Tail(w)]
  OBVIOUS
<1>5. /\ Applied(k[2], j) /\ lis'[k] = s /\ ini'[k] = ini[k]
      /\ up'[k] = up[k] /\ down'[k] = down[k]
  BY <1>1, <1>2, <1>3, <1>4 DEF ListenerJob, Applied, TypeOK, wires
<1>6. s.pc = lis[k].pc /\ s.remote = lis[k].remote /\ s.jobs = Tail(w)
  BY <1>1, <1>4 DEF Listener
<1>7. /\ FilesHonest' /\ Honest(index[k[2]][j.path], disk[k[2]][j.path])'
      /\ \A p \in Path : p # j.path =>
           index'[k[2]][p] = index[k[2]][p] /\ disk'[k[2]][p] = disk[k[2]][p]
      /\ index'[k[1]] = index[k[1]] /\ disk'[k[1]] = disk[k[1]]
  BY <1>1, <1>3, <1>5, AppliedHonest
<1>8. HonestJobs(k[2], Tail(w))'
  BY <1>1, <1>2, <1>3, <1>7, LeftHonest
<1>9. HonestListener(k, lis[k])'
  BY <1>1, <1>2, <1>5, <1>6, <1>8 DEF HonestListener
<1>10. TidyListener(k, lis[k])'
  <2> SUFFICES ASSUME NEW p \in Path, p # j.path
               PROVE  Honest(index[k[2]][p], disk[k[2]][p])'
                        \/ (s.pc = "accept" /\ p \in JobPaths(Tail(w)))
    BY <1>5, <1>6, <1>7 DEF TidyListener
  <2>1. p \in JobPaths(w) => p \in JobPaths(Tail(w))
    <3>1. \A x \in Items(w) : x = j \/ x \in Items(Tail(w))
      BY <1>1, <1>2, <1>3, JobsTail
    <3>2. QED BY <3>1 DEF JobPaths
  <2>2. Honest(index[k[2]][p], disk[k[2]][p]) \/ (s.pc = "accept" /\ p \in JobPaths(w))
    BY <1>1, <1>2, <1>6 DEF TidyListener
  <2>3. QED BY <1>7, <2>1, <2>2
<1>11. HonestInitiator(k, ini[k])' /\ TidyInitiator(k, ini[k])'
  <2>1. PICK r : r = ini[k]
    OBVIOUS
  <2>2. HonestInitiator(k, r)' /\ TidyInitiator(k, r)'
    BY <1>1, <1>7, <2>1, OtherEnd
  <2>3. QED BY <1>5, <2>1, <2>2
<1>12. QED BY <1>1, <1>5, <1>7, <1>9, <1>10, <1>11 DEF LinkHonest

-----------------------------------------------------------------------------
(* Every step keeps the indexes honest                                     *)

\* A step of a link.
LEMMA LinkHonestStep ==
  ASSUME Calm, HonestInv, TypeOK', NEW k \in Link, Initiate(k) \/ Listen(k) \/ Drop(k)
  PROVE  HonestInv'
<1>1. FilesHonest /\ LinkHonest(k)
  BY DEF HonestInv
<1>2. index' = index /\ disk' = disk => FilesHonest'
  BY <1>1 DEF FilesHonest
<1>3. Connect(k) => LinkHonest(k)' /\ FilesHonest'
  BY <1>2, ConnectHonest DEF Connect, files
<1>4. CASE Connect(k)
  BY <1>3, <1>4, HonestStep
<1>5. CASE ~Connect(k)
  <2>1. ~Idle(k)
    BY <1>1, <1>5, Busy
  <2>2. InitiatorHello(k) => LinkHonest(k)' /\ FilesHonest'
    BY <1>2, <2>1, InitiatorHelloHonest DEF InitiatorHello, files
  <2>3. \A p \in Path : InitiatorDeletion(k, p) => LinkHonest(k)' /\ FilesHonest'
    BY <1>2, <2>1, InitiatorDeletionHonest DEF InitiatorDeletion
  <2>4. \A p \in Path : RequestFile(k, p) => LinkHonest(k)' /\ FilesHonest'
    BY <1>2, <2>1, RequestFileHonest DEF RequestFile, files
  <2>5. \A p \in Path : Push(k, p) => LinkHonest(k)' /\ FilesHonest'
    BY <1>2, <2>1, PushHonest DEF Push, files
  <2>6. \A q \in [Path -> Path] : FindRenames(k, q) => LinkHonest(k)' /\ FilesHonest'
    BY <1>2, <2>1, FindRenamesHonest DEF FindRenames, files
  <2>7. \A q \in [Path -> Path] : FinishPull(k, q) => LinkHonest(k)' /\ FilesHonest'
    BY <1>2, <2>1, FinishPullHonest DEF FinishPull, files
  <2>8. \A m \in Path \X Path : InitiatorRename(k, m) => LinkHonest(k)' /\ FilesHonest'
    BY <2>1, InitiatorRenameHonest
  <2>9. ComputeNeeded(k) => LinkHonest(k)' /\ FilesHonest'
    BY <1>2, <2>1, ComputeNeededHonest DEF ComputeNeeded
  <2>10. ReceiveFile(k) => LinkHonest(k)' /\ FilesHonest'
    BY <1>2, <2>1, ReceiveFileHonest DEF ReceiveFile, files
  <2>11. FinishPush(k) => LinkHonest(k)' /\ FilesHonest'
    BY <1>2, <2>1, FinishPushHonest DEF FinishPush, files
  <2>12. InitiatorJob(k) \/ ListenerJob(k) => LinkHonest(k)' /\ FilesHonest'
    BY <2>1, InitiatorJobHonest, ListenerJobHonest
  <2>13. Greet(k) => LinkHonest(k)' /\ FilesHonest'
    BY <1>2, <2>1, GreetHonest DEF Greet, files
  <2>14. ListenerHello(k) => LinkHonest(k)' /\ FilesHonest'
    BY <1>2, <2>1, ListenerHelloHonest DEF ListenerHello, files
  <2>15. \A p \in Path : ListenerDeletion(k, p) => LinkHonest(k)' /\ FilesHonest'
    BY <1>2, <2>1, ListenerDeletionHonest DEF ListenerDeletion
  <2>16. BeginServing(k) \/ ServeDone(k) => LinkHonest(k)' /\ FilesHonest'
    BY <1>2, <2>1, ServingHonest DEF BeginServing, ServeDone, files
  <2>17. Serve(k) => LinkHonest(k)' /\ FilesHonest'
    BY <1>2, <2>1, ServeHonest DEF Serve, files
  <2>18. AcceptFile(k) => LinkHonest(k)' /\ FilesHonest'
    BY <1>2, <2>1, AcceptFileHonest DEF AcceptFile
  <2>19. AcceptRename(k) => LinkHonest(k)' /\ FilesHonest'
    BY <2>1, AcceptRenameHonest
  <2>20. AcceptAck(k) => LinkHonest(k)' /\ FilesHonest'
    BY <1>2, <2>1, AcceptAckHonest DEF AcceptAck, files
  <2>21. Drop(k) => LinkHonest(k)' /\ FilesHonest'
    BY <1>2, <2>1, DropHonest DEF Drop
  <2>22. LinkHonest(k)' /\ FilesHonest'
    BY <1>5, <2>2, <2>3, <2>4, <2>5, <2>6, <2>7, <2>8, <2>9, <2>10, <2>11, <2>12, <2>13,
       <2>14, <2>15, <2>16, <2>17, <2>18, <2>19, <2>20, <2>21 DEF Initiate, Listen
  <2>23. QED BY <2>22, HonestStep
<1>6. QED BY <1>4, <1>5

\* Users edit files while everything is idle; the time of an edit is new.
LEMMA UsersHonest ==
  ASSUME Calm, HonestInv, TypeOK', Users
  PROVE  HonestInv'
<1>1. TypeOK /\ FilesHonest /\ now \in Nat
  BY DEF HonestInv, TypeOK
<1>2. PICK n \in Node, p \in Path :
        \/ UserWrite(n, p) \/ UserDelete(n, p)
        \/ \E q \in Path : UserMove(n, p, q) \/ UserCopy(n, p, q)
  BY DEF Users
<1>3. /\ index' = index /\ ini' = ini /\ lis' = lis /\ up' = up /\ down' = down
      /\ now < MaxTime /\ \A k \in Link : Idle(k)
  BY <1>2 DEF UserWrite, UserDelete, UserMove, UserCopy, Edit, Calm, wires
<1>4. PICK g \in File : g = disk[n][p] /\ Dated(g)
  BY <1>1 DEF TypeOK, FilesHonest
<1>5. Dated(Absent)
  BY DEF Dated, Absent, Exists
<1>6. \A i \in Node, r \in Path : Dated(disk'[i][r])
  <2>1. CASE UserWrite(n, p)
    <3>1. PICK f : f = [sum |-> now + 1, mtime |-> Stamp(now + 1, now + 1)]
      OBVIOUS
    <3>2. Dated(f)
      BY <1>1, <1>3, <3>1, ModeAssumption DEF Dated
    <3>3. disk' = [disk EXCEPT ![n][p] = f]
      BY <2>1, <3>1 DEF UserWrite, Put
    <3>4. QED BY <1>1, <3>2, <3>3 DEF TypeOK, FilesHonest
  <2>2. CASE UserDelete(n, p)
    BY <1>1, <1>5, <2>2 DEF UserDelete, Put, TypeOK, FilesHonest
  <2>3. ASSUME NEW q \in Path, UserMove(n, p, q) PROVE \A i \in Node, r \in Path : Dated(disk'[i][r])
    <3>1. disk' = [disk EXCEPT ![n][p] = Absent, ![n][q] = g]
      BY <1>4, <2>3 DEF UserMove
    <3>2. QED BY <1>1, <1>4, <1>5, <3>1 DEF TypeOK, FilesHonest
  <2>4. ASSUME NEW q \in Path, UserCopy(n, p, q) PROVE \A i \in Node, r \in Path : Dated(disk'[i][r])
    <3>1. PICK f : f = [sum |-> g.sum, mtime |-> Stamp(now + 1, g.sum)]
      OBVIOUS
    <3>2. Dated(f)
      BY <1>1, <1>4, <2>4, <3>1 DEF Dated, Exists, UserCopy
    <3>3. disk' = [disk EXCEPT ![n][q] = f]
      BY <1>4, <2>4, <3>1 DEF UserCopy, Put
    <3>4. QED BY <1>1, <3>2, <3>3 DEF TypeOK, FilesHonest
  <2>5. QED BY <1>2, <2>1, <2>2, <2>3, <2>4
<1>7. FilesHonest'
  BY <1>1, <1>3, <1>6 DEF FilesHonest
<1>8. ASSUME NEW k \in Link PROVE LinkHonest(k)'
  <2>1. LinkHonest(k) /\ Idle(k) /\ Idle(k)'
    BY <1>3 DEF HonestInv, Idle
  <2>2. ini[k].pc = "idle" /\ ini[k].jobs = <<>> /\ lis[k].jobs = <<>>
    BY <2>1 DEF LinkHonest, HonestInitiator, HonestListener, Idle
  <2>3. HonestJobs(k[1], <<>>)' /\ HonestJobs(k[2], <<>>)'
    BY ItemsOf DEF HonestJobs
  <2>4. HonestInitiator(k, ini[k])' /\ HonestListener(k, lis[k])'
    BY <1>3, <2>1, <2>2, <2>3 DEF LinkHonest, HonestInitiator, HonestListener
  <2>5. QED BY <1>3, <2>1, <2>4 DEF LinkHonest
<1>9. ApartInv'
  BY <1>3 DEF HonestInv, ApartInv, Idle
<1>10. QED BY <1>7, <1>8, <1>9 DEF HonestInv

\* A watcher has something to see only where the index is not honest: not at
\* the ends of an open session, but for the names of a rename under way.
LEMMA ObserveHonest ==
  ASSUME HonestInv, TypeOK', NEW n \in Node, NEW q \in Path, Observe(n, q)
  PROVE  HonestInv'
<1>1. TypeOK /\ FilesHonest
  BY DEF HonestInv
<1>2. /\ ini' = ini /\ lis' = lis /\ up' = up /\ down' = down /\ disk' = disk
      /\ index' = [index EXCEPT ![n][q] = Watched(n, q)]
  BY DEF Observe, wires
<1>3. /\ \A i \in Node, p \in Path : i # n \/ p # q => index'[i][p] = index[i][p]
      /\ \A i \in Node : i # n => index'[i] = index[i]
      /\ index'[n][q] = Watched(n, q)
  BY <1>1, <1>2 DEF TypeOK, Index
<1>4. ~Honest(index[n][q], disk[n][q])
  BY <1>1, ObservedHonest DEF Observe, FilesHonest
<1>5. Sound(Watched(n, q))
  BY <1>1, WatchedSound DEF FilesHonest
<1>6. FilesHonest'
  BY <1>1, <1>2, <1>3, <1>5 DEF FilesHonest
<1>7. ASSUME NEW k \in Link PROVE LinkHonest(k)'
  <2>1. LinkHonest(k) /\ k[1] \in Node /\ k[2] \in Node
    BY Ends DEF HonestInv
  <2>2. ini[k].pc = "push" => ~Idle(k)
    BY DEF Idle
  <2>3. ini[k].pc = "push" => index'[k[1]] = index[k[1]]
    <3>1. ini[k].pc = "push" => \A p \in Path : Honest(index[k[1]][p], disk[k[1]][p])
      BY <2>1, <2>2 DEF LinkHonest, TidyInitiator
    <3>2. ini[k].pc = "push" => k[1] # n
      BY <1>4, <3>1
    <3>3. QED BY <1>3, <2>1, <3>2
  <2>4. HonestJobs(k[1], ini[k].jobs)' /\ HonestJobs(k[2], lis[k].jobs)'
    BY <1>2, <2>1 DEF LinkHonest, HonestInitiator, HonestListener, HonestJobs, HonestJob
  <2>5. HonestInitiator(k, ini[k])' /\ HonestListener(k, lis[k])'
    BY <1>2, <2>1, <2>3, <2>4 DEF LinkHonest, HonestInitiator, HonestListener
  <2>6. ASSUME ~Idle(k) PROVE TidyInitiator(k, ini[k])' /\ TidyListener(k, lis[k])'
    <3>1. TidyInitiator(k, ini[k]) /\ TidyListener(k, lis[k])
      BY <2>1, <2>6 DEF LinkHonest
    <3>2. TidyInitiator(k, ini[k])'
      BY <1>2, <1>3, <1>4, <2>1, <3>1 DEF TidyInitiator
    <3>3. TidyListener(k, lis[k])'
      BY <1>2, <1>3, <1>4, <2>1, <3>1 DEF TidyListener
    <3>4. QED BY <3>2, <3>3
  <2>7. Idle(k)' <=> Idle(k)
    BY <1>2 DEF Idle
  <2>8. QED BY <1>2, <2>1, <2>5, <2>6, <2>7 DEF LinkHonest
<1>8. ApartInv'
  BY <1>2 DEF HonestInv, ApartInv, Idle
<1>9. QED BY <1>6, <1>7, <1>8 DEF HonestInv

\* There are no files and no sessions.
LEMMA HonestInit == Init => HonestInv
<1> SUFFICES ASSUME Init PROVE HonestInv
  OBVIOUS
<1>1. TypeOK
  BY TypeInit
<1>2. /\ \A n \in Node, p \in Path : index[n][p] = NoEntry /\ disk[n][p] = Absent
      /\ \A k \in Link : /\ ini[k] = IdleInitiator /\ lis[k] = IdleListener
                         /\ up[k] = <<>> /\ down[k] = <<>>
  BY DEF Init, EmptyIndex
<1>3. Sound(NoEntry) /\ Dated(Absent)
  BY DEF Sound, Dated, NoEntry, Absent, Live, Exists, NoSum
<1>4. FilesHonest
  BY <1>2, <1>3 DEF FilesHonest
<1>5. ASSUME NEW k \in Link PROVE Idle(k)
  BY <1>2 DEF Idle, IdleInitiator, IdleListener
<1>6. ASSUME NEW k \in Link PROVE LinkHonest(k)
  BY <1>2, <1>5, IdleHonest, EmptyHonest DEF LinkHonest
<1>7. QED BY <1>1, <1>4, <1>5, <1>6 DEF HonestInv, ApartInv

\* Every step.
LEMMA HonestNext ==
  ASSUME Calm, HonestInv, [Next]_vars
  PROVE  HonestInv'
<1>1. TypeOK'
  BY TypeStep DEF HonestInv
<1>2. CASE UNCHANGED vars
  <2>1. /\ index' = index /\ disk' = disk /\ ini' = ini /\ lis' = lis
        /\ up' = up /\ down' = down
    BY <1>2 DEF vars
  <2>2. FilesHonest' /\ ApartInv'
    BY <2>1 DEF HonestInv, FilesHonest, ApartInv, Idle
  <2>3. ASSUME NEW k \in Link PROVE LinkHonest(k)'
    <3>1. LinkHonest(k)
      BY DEF HonestInv
    <3>2. HonestJobs(k[1], ini[k].jobs)' /\ HonestJobs(k[2], lis[k].jobs)'
      BY <2>1, <3>1 DEF LinkHonest, HonestInitiator, HonestListener, HonestJobs, HonestJob
    <3>3. HonestInitiator(k, ini[k])' /\ HonestListener(k, lis[k])'
      BY <2>1, <3>1, <3>2 DEF LinkHonest, HonestInitiator, HonestListener
    <3>4. Idle(k)' <=> Idle(k)
      BY <2>1 DEF Idle
    <3>5. QED BY <2>1, <3>1, <3>3, <3>4 DEF LinkHonest, TidyInitiator, TidyListener
  <2>4. QED BY <1>1, <2>2, <2>3 DEF HonestInv
<1>3. CASE Users
  BY <1>1, <1>3, UsersHonest
<1>4. ASSUME NEW n \in Node, NEW p \in Path, Observe(n, p) PROVE HonestInv'
  BY <1>1, <1>4, ObserveHonest
<1>5. ASSUME NEW k \in Link, Initiate(k) \/ Listen(k) \/ Drop(k) PROVE HonestInv'
  BY <1>1, <1>5, LinkHonestStep
<1>6. QED BY <1>2, <1>3, <1>4, <1>5 DEF Next

\* Between sessions that nobody interrupted, with every edit indexed, every
\* entry names the content on disk: for any number of nodes and links, with
\* users who write, delete, rename and copy files, either provider, either
\* conflict strategy, and connections lost at any time. What _serve_file and
\* the push send, what _apply_rename moves under two pending jobs, and what
\* apply_remote installs stay together, and the modification times by which
\* scan_one decides never hide a change.
THEOREM IndexHonestHolds ==
  ASSUME Calm
  PROVE  Spec => []IndexHonest
<1>1. HonestInv => IndexHonest
  <2> SUFFICES ASSUME HonestInv, \A n \in Node : Observed(n), NEW n \in Node, NEW p \in Path
               PROVE  Honest(index[n][p], disk[n][p])
    BY DEF IndexHonest, Honest, Live, Exists
  <2>1. Watched(n, p) = index[n][p]
    BY DEF Observed
  <2>2. QED BY <2>1, ObservedHonest DEF HonestInv, FilesHonest
<1>2. HonestInv /\ [Next]_vars => HonestInv'
  BY HonestNext
<1>3. QED BY <1>1, <1>2, HonestInit, PTL DEF Spec

\* A file that is under way between two nodes has the content its entry names.
SentAsNamed ==
    \A k \in Link : \A m \in Items(up[k]) \cup Items(down[k]) :
        m.type = "FILE_DATA" => Live(m.entry) = (m.content # NoSum) /\ m.content = m.entry.sum

\* No file travels under the entry of another content, though the entry and
\* the content are read one after the other (_serve_file, _do_push).
THEOREM SentAsNamedHolds ==
  ASSUME Calm
  PROVE  Spec => []SentAsNamed
<1>1. HonestInv => SentAsNamed
  <2> SUFFICES ASSUME HonestInv, NEW k \in Link, NEW m \in Items(up[k]) \cup Items(down[k]),
                      m.type = "FILE_DATA"
               PROVE  Live(m.entry) = (m.content # NoSum) /\ m.content = m.entry.sum
    BY DEF SentAsNamed
  <2>1. HonestMessage(m)
    BY DEF HonestInv, LinkHonest, HonestWire
  <2>2. Sound(m.entry) /\ m.content = m.entry.sum
    BY <2>1 DEF HonestMessage
  <2>3. QED BY <2>2 DEF Sound, Exists, Live
<1>2. HonestInv /\ [Next]_vars => HonestInv'
  BY HonestNext
<1>3. QED BY <1>1, <1>2, HonestInit, PTL DEF Spec

-----------------------------------------------------------------------------
(* Whose turn it is: definitions                                           *)

\* What the two directions of a connection hold when the initiator is at i and
\* the listener at l. One who waits for a file has asked for it, or it comes.
Turn(i, l, u, d) ==
    /\ Len(d) <= 1
    /\ \A m \in Items(d) :
          \/ m.type = "HELLO" /\ i = "hello" /\ l # "idle"
          \/ m.type = "FILE_DATA" /\ i = "wait" /\ l = "serve" /\ u = <<>>
    /\ \A n \in 1..Len(u) :
          /\ u[n].type = "HELLO" => n = 1 /\ l \in {"idle", "hello"}
          /\ u[n].type = "GET_FILE" => n = Len(u) /\ i = "wait" /\ d = <<>>
          /\ u[n].type = "ACK" => n = Len(u) /\ i = "idle"
          /\ u[n].type \in {"SYNC_DONE", "FILE_DATA", "RENAME_FILE"} => i \in {"push", "idle"}
    /\ l = "hello" => GreetFirst /\ u # <<>> /\ u[1].type = "HELLO"
    /\ l = "idle" =>
          /\ d = <<>>
          /\ \/ u = <<>> /\ i = "idle"
             \/ Len(u) = 1 /\ u[1].type = "HELLO" /\ i = "hello"
    /\ i = "hello" /\ d = <<>> => l = "idle"
    /\ l = "accept" => i \in {"push", "idle"}
    /\ i = "wait" => d # <<>> \/ \E m \in Items(u) : m.type = "GET_FILE"

TurnInv(k) == Turn(ini[k].pc, lis[k].pc, up[k], down[k])

\* The index the initiator has sent, while the listener may act on it, and
\* the index it has got.
Says(k, g) ==
    \/ \E m \in Items(up[k]) : m.type = "HELLO" /\ g = m.index
    \/ lis[k].pc \in {"delete", "serve"} /\ g = lis[k].remote
Answers(k, r) ==
    \/ \E m \in Items(down[k]) : m.type = "HELLO" /\ r = m.index
    \/ ini[k].pc \in {"delete", "rename", "pull", "wait"} /\ r = ini[k].remote

\* The initiator is going to ask for p, or has and is not answered.
Wants(k, p) == Asks(up[k], p) \/ (ini[k].pc \in {"pull", "wait"} /\ p \in ini[k].todo)

\* The listener still has the files it has offered, but for those of which
\* the initiator has a newer version, a tombstone.
StandsBy(k) ==
    \A r \in Index : Answers(k, r) =>
        \A p \in Path : Live(r[p]) =>
            /\ \/ index[k[2]][p] = r[p]
               \/ /\ lis[k].pc \in {"delete", "serve"}
                  /\ HappensBefore(r[p].clock, lis[k].remote[p].clock)
            /\ p \in JobPaths(lis[k].jobs) =>
                  /\ lis[k].pc = "delete"
                  /\ HappensBefore(r[p].clock, lis[k].remote[p].clock)

\* What the initiator has of a file that is offered is what it said it had, or
\* what a rename has made of it; it never wants what it has a newer version of.
Follows(k) ==
    \A g \in Index : Says(k, g) =>
        \A p \in Path :
            /\ ini[k].pc = "hello" => index[k[1]][p] = g[p]
            /\ ini[k].pc \in {"delete", "rename"} /\ Live(ini[k].remote[p]) =>
                  \/ index[k[1]][p] = g[p]
                  \/ index[k[1]][p].clock = ini[k].remote[p].clock
                  \/ p \in JobPaths(ini[k].jobs)
            /\ Wants(k, p) => ~HappensBefore(ini[k].remote[p].clock, g[p].clock)

\* The jobs of the initiator's passes are of paths the remote has dead, or of
\* the versions it has.
PassInv(k) ==
    /\ ini[k].pc = "rename" => \A m \in ini[k].moves : ~Live(ini[k].remote[m[1]])
    /\ ini[k].pc \in {"delete", "rename"} =>
          \A j \in Items(ini[k].jobs) :
              Live(ini[k].remote[j.path]) => j.entry.clock = ini[k].remote[j.path].clock
    /\ \A p \in Path : Wants(k, p) => Live(ini[k].remote[p])

LinkWaits(k) == TurnInv(k) /\ StandsBy(k) /\ Follows(k) /\ PassInv(k)

WaitInv == HonestInv /\ \A k \in Link : LinkWaits(k)

-----------------------------------------------------------------------------
(* How the turn goes                                                       *)

\* A wire with one message at most.
LEMMA ShortWire ==
  ASSUME NEW d \in Seq(Message), Len(d) <= 1
  PROVE  /\ d # <<>> => Items(d) = {Head(d)} /\ Tail(d) = <<>> /\ Len(d) = 1
         /\ Items(d) = {} => d = <<>>
<1>1. PICK n \in Nat : n = Len(d)
  BY LenProperties
<1>2. ASSUME d # <<>>
      PROVE  Items(d) = {Head(d)} /\ Tail(d) = <<>> /\ Len(d) = 1
  <2>1. n # 0 /\ n <= 1
    BY <1>1, <1>2, EmptySeq
  <2>2. n = 1
    BY <2>1
  <2>3. Len(d) = 1
    BY <1>1, <2>2
  <2>4. QED BY <2>3, ItemsOf
<1>3. QED BY <1>2

\* Nothing comes back to an initiator that has not asked, and nothing is left
\* when both are idle.
LEMMA TurnFacts ==
  ASSUME NEW i, NEW l, NEW u \in Seq(Message), NEW d \in Seq(Message), Turn(i, l, u, d)
  PROVE  /\ i \notin {"hello", "wait"} => d = <<>>
         /\ l = "idle" => d = <<>>
         /\ i # "wait" => \A m \in Items(u) : m.type # "GET_FILE"
         /\ i # "hello" => \A m \in Items(d) : m.type # "HELLO"
         /\ i \notin {"push", "idle"} => l # "accept"
         /\ l \notin {"idle", "hello"} => \A m \in Items(u) : m.type # "HELLO"
         /\ u = <<>> => i # "hello" \/ l # "idle"
<1>1. i \notin {"hello", "wait"} => d = <<>>
  <2>1. i \notin {"hello", "wait"} => Items(d) = {}
    BY DEF Turn
  <2>2. QED BY <2>1, ShortWire DEF Turn
<1>2. i # "wait" => \A m \in Items(u) : m.type # "GET_FILE"
  BY DEF Turn, Items
<1>3. l \notin {"idle", "hello"} => \A m \in Items(u) : m.type # "HELLO"
  BY DEF Turn, Items
<1>4. u = <<>> => i # "hello" \/ l # "idle"
  BY DEF Turn
<1>5. i # "hello" => \A m \in Items(d) : m.type # "HELLO"
  BY DEF Turn
<1>6. QED BY <1>1, <1>2, <1>3, <1>4, <1>5 DEF Turn

\* The initiator says something.
LEMMA TurnAppend ==
  ASSUME NEW i, NEW j, NEW l, NEW u \in Seq(Message), NEW d \in Seq(Message),
         Turn(i, l, u, d), NEW m \in Message,
         \/ i = "pull" /\ j = "wait" /\ m.type = "GET_FILE"
         \/ i = "pull" /\ j = "push" /\ m.type = "SYNC_DONE"
         \/ i = "push" /\ j = "push" /\ m.type \in {"FILE_DATA", "RENAME_FILE"}
         \/ i = "push" /\ j = "idle" /\ m.type = "ACK"
  PROVE  Turn(j, l, Append(u, m), d)
<1>1. PICK w : w = Append(u, m)
  OBVIOUS
<1>2. /\ Len(w) = Len(u) + 1 /\ w # <<>> /\ Items(w) = Items(u) \cup {m}
      /\ \A n \in 1..Len(u) : w[n] = u[n]
      /\ w[Len(u) + 1] = m /\ Len(u) \in Nat
  BY <1>1, AppendWire, LenProperties
<1>3. \A n \in 1..Len(w) : (n \in 1..Len(u) /\ w[n] = u[n]) \/ (n = Len(w) /\ w[n] = m)
  BY <1>2
<1>4. d = <<>> /\ Items(d) = {}
  <2>1. i \notin {"hello", "wait"}
    OBVIOUS
  <2>2. d = <<>>
    BY <2>1, TurnFacts
  <2>3. QED BY <2>2, ItemsOf
<1>5. \A n \in 1..Len(u) :
        /\ u[n].type \notin {"GET_FILE", "ACK"}
        /\ i = "pull" => u[n].type \notin {"FILE_DATA", "SYNC_DONE", "RENAME_FILE"}
        /\ u[n].type = "HELLO" => n = 1 /\ l \in {"idle", "hello"}
  BY DEF Turn
<1>6. l # "idle" /\ (i = "pull" => l # "accept")
  BY DEF Turn
<1>7. l = "hello" => GreetFirst /\ w[1].type = "HELLO"
  <2>1. l = "hello" => GreetFirst /\ u # <<>> /\ u[1].type = "HELLO"
    BY DEF Turn
  <2>2. u # <<>> => 1 \in 1..Len(u)
    BY <1>2, EmptySeq
  <2>3. QED BY <1>2, <2>1, <2>2
<1>8. j = "wait" => \E x \in Items(w) : x.type = "GET_FILE"
  BY <1>2
<1>9. Len(d) <= 1
  BY DEF Turn
<1>10. \A n \in 1..Len(w) :
         /\ w[n].type = "HELLO" => n = 1 /\ l \in {"idle", "hello"}
         /\ w[n].type = "GET_FILE" => n = Len(w) /\ j = "wait" /\ d = <<>>
         /\ w[n].type = "ACK" => n = Len(w) /\ j = "idle"
         /\ w[n].type \in {"SYNC_DONE", "FILE_DATA", "RENAME_FILE"} => j \in {"push", "idle"}
  BY <1>3, <1>4, <1>5
<1>11. Turn(j, l, w, d)
  BY <1>2, <1>4, <1>6, <1>7, <1>8, <1>9, <1>10 DEF Turn
<1>12. QED BY <1>1, <1>11

\* The initiator goes on to the next pass, or reads what has come.
LEMMA TurnOn ==
  ASSUME NEW i, NEW j, NEW l, NEW u \in Seq(Message), NEW d \in Seq(Message),
         Turn(i, l, u, d)
  PROVE  /\ i \in {"delete", "rename"} /\ j \in {"rename", "pull"} => Turn(j, l, u, d)
         /\ i = "hello" /\ j = "delete" /\ d # <<>> => Turn(j, l, u, Tail(d)) /\ Tail(d) = <<>>
         /\ i = "wait" /\ j = "pull" /\ d # <<>> => Turn(j, l, u, Tail(d)) /\ Tail(d) = <<>>
<1>1. i \in {"delete", "rename"} /\ j \in {"rename", "pull"} => Turn(j, l, u, d)
  BY DEF Turn
<1>2. ASSUME i \in {"hello", "wait"}, d # <<>>, j = IF i = "hello" THEN "delete" ELSE "pull"
      PROVE  Turn(j, l, u, Tail(d)) /\ Tail(d) = <<>>
  <2>1. Tail(d) = <<>> /\ Items(d) = {Head(d)}
    BY <1>2, ShortWire DEF Turn
  <2>2. Items(<<>>) = {} /\ Len(<<>>) = 0
    BY ItemsOf
  <2>3. l \notin {"idle", "accept"}
    BY <1>2 DEF Turn
  <2>4. \A n \in 1..Len(u) :
          u[n].type \notin {"GET_FILE", "ACK", "SYNC_DONE", "FILE_DATA", "RENAME_FILE"}
    BY <1>2 DEF Turn
  <2>5. Turn(j, l, u, <<>>)
    BY <1>2, <2>2, <2>3, <2>4 DEF Turn
  <2>6. QED BY <2>1, <2>5
<1>3. QED BY <1>1, <1>2

\* The listener reads what the initiator has said.
LEMMA TurnTail ==
  ASSUME NEW i, NEW l, NEW c, NEW u \in Seq(Message), NEW d \in Seq(Message),
         Turn(i, l, u, d), u # <<>>,
         \/ l = "serve" /\ Head(u).type = "SYNC_DONE" /\ c = "accept"
         \/ l = "accept" /\ Head(u).type \in {"FILE_DATA", "RENAME_FILE"} /\ c = "accept"
         \/ l = "accept" /\ Head(u).type = "ACK" /\ c = "idle"
  PROVE  Turn(i, c, Tail(u), d) /\ i \in {"push", "idle"}
<1>1. PICK w : w = Tail(u)
  OBVIOUS
<1>2. /\ w \in Seq(Message) /\ Len(w) = Len(u) - 1
      /\ \A n \in 1..Len(w) : w[n] = u[n + 1]
      /\ Len(u) \in Nat /\ Len(u) >= 1 /\ u[1] = Head(u)
  BY <1>1, TailWire, LenProperties
<1>3. \A n \in 1..Len(w) : /\ w[n] = u[n + 1] /\ n + 1 \in 1..Len(u) /\ n + 1 # 1
                           /\ n + 1 = Len(u) => n = Len(w)
  BY <1>2
<1>4. 1 \in 1..Len(u)
  BY <1>2
<1>5. i \in {"push", "idle"}
  BY <1>2, <1>4 DEF Turn
<1>6. d = <<>> /\ Items(d) = {} /\ Len(d) <= 1
  <2>1. i \notin {"hello", "wait"} /\ Len(d) <= 1
    BY <1>5 DEF Turn
  <2>2. d = <<>>
    BY <2>1, TurnFacts
  <2>3. QED BY <2>1, <2>2, ItemsOf
<1>7. \A n \in 1..Len(w) :
        /\ w[n].type \notin {"HELLO", "GET_FILE"}
        /\ w[n].type = "ACK" => n = Len(w) /\ i = "idle"
  <2>1. l \notin {"idle", "hello"}
    OBVIOUS
  <2>2. QED BY <1>3, <1>5, <2>1 DEF Turn
<1>8. c = "idle" => w = <<>> /\ i = "idle"
  <2>1. Head(u).type = "ACK" => Len(u) = 1 /\ i = "idle"
    BY <1>2, <1>4 DEF Turn
  <2>2. Len(u) = 1 => w = <<>>
    BY <1>1, ItemsOf
  <2>3. QED BY <2>1, <2>2
<1>9. Turn(i, c, w, d)
  BY <1>5, <1>6, <1>7, <1>8 DEF Turn
<1>10. QED BY <1>1, <1>5, <1>9

\* The listener that has greeted reads the HELLO.
LEMMA TurnHello ==
  ASSUME NEW i, NEW u \in Seq(Message), NEW d \in Seq(Message),
         Turn(i, "hello", u, d), u # <<>>
  PROVE  Turn(i, "delete", Tail(u), d)
<1>1. PICK w : w = Tail(u)
  OBVIOUS
<1>2. /\ w \in Seq(Message) /\ Len(w) = Len(u) - 1 /\ Items(w) \subseteq Items(u)
      /\ \A n \in 1..Len(w) : w[n] = u[n + 1]
      /\ Len(u) \in Nat /\ Len(u) >= 1 /\ u[1].type = "HELLO"
  BY <1>1, TailWire, LenProperties DEF Turn
<1>3. \A n \in 1..Len(w) : /\ w[n] = u[n + 1] /\ n + 1 \in 1..Len(u) /\ n + 1 # 1
                           /\ n + 1 = Len(u) => n = Len(w)
  BY <1>2
<1>4. \A x \in Items(u) : x = u[1] \/ x \in Items(w)
  <2>1. ASSUME NEW n \in 1..Len(u), n # 1 PROVE u[n] \in Items(w)
    <3>1. n - 1 \in 1..Len(w) /\ w[n - 1] = u[n]
      BY <1>2, <2>1
    <3>2. QED BY <3>1 DEF Items
  <2>2. QED BY <2>1 DEF Items
<1>5. \A n \in 1..Len(w) :
        /\ w[n].type # "HELLO"
        /\ w[n].type = "GET_FILE" => n = Len(w) /\ i = "wait" /\ d = <<>>
        /\ w[n].type = "ACK" => n = Len(w) /\ i = "idle"
        /\ w[n].type \in {"SYNC_DONE", "FILE_DATA", "RENAME_FILE"} => i \in {"push", "idle"}
  BY <1>3 DEF Turn
<1>6. i = "wait" => d # <<>> \/ \E x \in Items(w) : x.type = "GET_FILE"
  BY <1>2, <1>4 DEF Turn
<1>7. i = "hello" => d # <<>>
  BY DEF Turn
<1>8. \A x \in Items(d) : x.type = "HELLO" /\ i = "hello"
  BY DEF Turn
<1>9. Turn(i, "delete", w, d)
  BY <1>5, <1>6, <1>7, <1>8 DEF Turn
<1>10. QED BY <1>1, <1>9

\* The listener that has not reads it and sends its own.
LEMMA TurnAnswer ==
  ASSUME NEW i, NEW u \in Seq(Message), NEW d \in Seq(Message),
         Turn(i, "idle", u, d), u # <<>>, NEW m \in Message, m.type = "HELLO"
  PROVE  /\ i = "hello" /\ d = <<>> /\ Items(Append(d, m)) = {m}
         /\ Turn(i, "delete", Tail(u), Append(d, m))
<1>1. i = "hello" /\ d = <<>> /\ Len(u) = 1
  BY EmptySeq DEF Turn
<1>2. Tail(u) = <<>>
  BY <1>1, ItemsOf
<1>3. PICK e : e = <<m>>
  OBVIOUS
<1>4. Append(d, m) = e /\ Items(e) = {m} /\ Len(e) = 1 /\ e # <<>>
  BY <1>1, <1>3 DEF Items
<1>5. Turn(i, "delete", <<>>, e)
  BY <1>1, <1>4 DEF Turn
<1>6. QED BY <1>1, <1>2, <1>4, <1>5

\* The server greets.
LEMMA TurnGreet ==
  ASSUME NEW i, NEW u \in Seq(Message), NEW d \in Seq(Message),
         Turn(i, "idle", u, d), u # <<>>, GreetFirst, NEW m \in Message, m.type = "HELLO"
  PROVE  /\ i = "hello" /\ d = <<>> /\ Items(Append(d, m)) = {m}
         /\ Turn(i, "hello", u, Append(d, m))
<1>1. i = "hello" /\ d = <<>> /\ Len(u) = 1 /\ u[1].type = "HELLO"
  BY EmptySeq DEF Turn
<1>2. PICK e : e = <<m>>
  OBVIOUS
<1>3. Append(d, m) = e /\ Items(e) = {m} /\ Len(e) = 1 /\ e # <<>>
  BY <1>1, <1>2 DEF Items
<1>4. Turn(i, "hello", u, e)
  BY <1>1, <1>3 DEF Turn
<1>5. QED BY <1>1, <1>3, <1>4

\* The listener begins to serve.
LEMMA TurnServing ==
  ASSUME NEW i, NEW u, NEW d, Turn(i, "delete", u, d)
  PROVE  Turn(i, "serve", u, d)
  BY DEF Turn

\* The listener serves a file.
LEMMA TurnServe ==
  ASSUME NEW i, NEW u \in Seq(Message), NEW d \in Seq(Message),
         Turn(i, "serve", u, d), u # <<>>, Head(u).type = "GET_FILE",
         NEW m \in Message, m.type = "FILE_DATA"
  PROVE  /\ i = "wait" /\ d = <<>> /\ Tail(u) = <<>> /\ Items(Append(d, m)) = {m}
         /\ Turn(i, "serve", Tail(u), Append(d, m))
<1>1. 1 \in 1..Len(u) /\ u[1] = Head(u)
  BY TailWire, LenProperties
<1>2. i = "wait" /\ d = <<>> /\ Len(u) = 1
  BY <1>1 DEF Turn
<1>3. Tail(u) = <<>>
  BY <1>2, ItemsOf
<1>4. PICK e : e = <<m>>
  OBVIOUS
<1>5. Append(d, m) = e /\ Items(e) = {m} /\ Len(e) = 1 /\ e # <<>>
  BY <1>2, <1>4 DEF Items
<1>6. Turn(i, "serve", <<>>, e)
  BY <1>2, <1>5 DEF Turn
<1>7. QED BY <1>2, <1>3, <1>5, <1>6

\* A session is opened, and is over.
LEMMA TurnIdle ==
  /\ Turn("idle", "idle", <<>>, <<>>)
  /\ \A m \in Message : m.type = "HELLO" => Turn("hello", "idle", <<m>>, <<>>)
<1>1. Items(<<>>) = {} /\ Len(<<>>) = 0
  BY ItemsOf
<1>2. Turn("idle", "idle", <<>>, <<>>)
  BY <1>1 DEF Turn
<1>3. ASSUME NEW m \in Message, m.type = "HELLO" PROVE Turn("hello", "idle", <<m>>, <<>>)
  <2>1. PICK u : u = <<m>>
    OBVIOUS
  <2>2. Len(u) = 1 /\ u[1] = m
    BY <2>1
  <2>3. Turn("hello", "idle", u, <<>>)
    BY <1>1, <1>3, <2>2 DEF Turn
  <2>4. QED BY <2>1, <2>3
<1>4. QED BY <1>2, <1>3

-----------------------------------------------------------------------------
(* The initiator's steps, and who waits                                    *)

\* The initiator's steps leave what the listener stands by, unless they make
\* it stand by more.
LEMMA StandsByStays ==
  ASSUME NEW k \in Link, StandsBy(k), index'[k[2]] = index[k[2]], lis'[k] = lis[k],
         \A r \in Index : Answers(k, r)' => Answers(k, r)
  PROVE  StandsBy(k)'
  BY DEF StandsBy

\* The listener's steps leave what the initiator goes by, unless they say more.
LEMMA FollowsStays ==
  ASSUME NEW k \in Link, Follows(k), PassInv(k),
         index'[k[1]] = index[k[1]], ini'[k] = ini[k],
         \A g \in Index : Says(k, g)' => Says(k, g),
         \A p \in Path : Wants(k, p)' => Wants(k, p)
  PROVE  Follows(k)' /\ PassInv(k)'
<1>1. Follows(k)'
  BY DEF Follows
<1>2. PassInv(k)'
  BY DEF PassInv
<1>3. QED BY <1>1, <1>2

\* After its HELLO the initiator says nothing of its index.
LEMMA SaysStay ==
  ASSUME NEW k \in Link, up[k] \in Seq(Message), lis'[k] = lis[k],
         NEW u, up'[k] = u,
         u = up[k] \/ \E m \in Message : m.type # "HELLO" /\ u = Append(up[k], m)
  PROVE  \A g \in Index : Says(k, g)' => Says(k, g)
<1>1. PICK w \in Seq(Message) : w = up[k]
  OBVIOUS
<1>2. ASSUME NEW m \in Message, m.type # "HELLO", u = Append(w, m)
      PROVE  \A x \in Items(u) : x.type = "HELLO" => x \in Items(w)
  <2>1. Items(u) = Items(w) \cup {m}
    BY <1>2, AppendWire
  <2>2. QED BY <1>2, <2>1
<1>3. \A x \in Items(u) : x.type = "HELLO" => x \in Items(w)
  BY <1>1, <1>2
<1>4. QED BY <1>1, <1>3 DEF Says

\* Where it has not asked for a file the initiator wants what it will pull.
LEMMA WantsOnly ==
  ASSUME NEW k \in Link, TypeOK, TurnInv(k), ini[k].pc # "wait"
  PROVE  \A p \in Path : ~Asks(up[k], p)
<1>1. PICK u \in Seq(Message) : u = up[k]
  BY DEF TypeOK
<1>2. PICK d \in Seq(Message) : d = down[k]
  BY DEF TypeOK
<1>3. Turn(ini[k].pc, lis[k].pc, u, d)
  BY <1>1, <1>2 DEF TurnInv
<1>4. \A m \in Items(u) : m.type # "GET_FILE"
  BY <1>3, TurnFacts
<1>5. QED BY <1>1, <1>4 DEF Asks

\* A session starts: the listener may act on the index as it is.
LEMMA ConnectWaits ==
  ASSUME WaitInv, NEW k \in Link, Connect(k)
  PROVE  LinkWaits(k)'
<1>1. /\ TypeOK /\ ini[k] \in Initiator /\ up[k] \in Seq(Message) /\ down[k] \in Seq(Message)
      /\ k[1] \in Node /\ TurnInv(k)
  BY Ends DEF WaitInv, LinkWaits, HonestInv, TypeOK
<1>2. ini[k].pc = "idle" /\ lis[k].pc = "idle" /\ up[k] = <<>> /\ down[k] = <<>>
  <2>1. ini[k].pc = "idle" /\ lis[k].pc = "idle" /\ up[k] = <<>>
    BY DEF Connect, Idle
  <2>2. QED BY <1>1, <2>1, TurnFacts DEF TurnInv
<1>3. PICK m \in Message : m = Hello(k[1])
  <2>1. index[k[1]] \in Index
    BY <1>1 DEF TypeOK
  <2>2. QED BY <2>1 DEF Hello, Message
<1>4. m.type = "HELLO" /\ m.index = index[k[1]]
  BY <1>3 DEF Hello
<1>5. PICK u : u = <<m>>
  OBVIOUS
<1>6. Items(u) = {m} /\ Append(<<>>, m) = u
  BY <1>5 DEF Items
<1>7. /\ ini'[k].pc = "hello" /\ lis'[k] = lis[k] /\ up'[k] = u /\ down'[k] = <<>>
      /\ index' = index
  BY <1>1, <1>2, <1>3, <1>6 DEF Connect, Send, TypeOK, files, Initiator
<1>8. Items(<<>>) = {}
  BY ItemsOf
<1>9. TurnInv(k)'
  <2>1. Turn("hello", "idle", u, <<>>)
    BY <1>4, <1>5, TurnIdle
  <2>2. QED BY <1>2, <1>7, <2>1 DEF TurnInv
<1>10. StandsBy(k)'
  BY <1>7, <1>8 DEF StandsBy, Answers
<1>11. \A p \in Path : ~Wants(k, p)'
  BY <1>4, <1>6, <1>7 DEF Wants, Asks
<1>12. Follows(k)'
  BY <1>2, <1>4, <1>6, <1>7, <1>11 DEF Follows, Says
<1>13. PassInv(k)'
  BY <1>7, <1>11 DEF PassInv
<1>14. QED BY <1>9, <1>10, <1>12, <1>13 DEF LinkWaits

\* The initiator reads what the listener offers.
LEMMA InitiatorHelloWaits ==
  ASSUME WaitInv, NEW k \in Link, InitiatorHello(k), ~Idle(k)
  PROVE  LinkWaits(k)'
<1>1. /\ TypeOK /\ ini[k] \in Initiator /\ up[k] \in Seq(Message) /\ down[k] \in Seq(Message)
      /\ HonestInitiator(k, ini[k])
      /\ TurnInv(k) /\ StandsBy(k) /\ Follows(k) /\ PassInv(k)
  BY OpenLink DEF WaitInv, LinkWaits
<1>2. ini[k].pc = "hello" /\ down[k] # <<>> /\ Head(down[k]).type = "HELLO"
  BY DEF InitiatorHello, Got
<1>3. PICK m \in Message : m = Head(down[k]) /\ m \in Items(down[k])
  BY <1>1, <1>2, TailWire
<1>4. m.index \in Index
  BY <1>2, <1>3, MessageFields
<1>5. PICK r : r = [ini[k] EXCEPT !.pc = "delete", !.remote = m.index,
                                  !.todo = Tombstones(m.index)]
  OBVIOUS
<1>6. /\ ini'[k] = r /\ lis'[k] = lis[k] /\ up'[k] = up[k] /\ down'[k] = Tail(down[k])
      /\ index' = index
  BY <1>1, <1>3, <1>5 DEF InitiatorHello, TypeOK, files
<1>7. r.pc = "delete" /\ r.remote = m.index /\ r.jobs = <<>>
  BY <1>1, <1>2, <1>5 DEF Initiator, HonestInitiator
<1>8. Turn("delete", lis[k].pc, up[k], Tail(down[k])) /\ Tail(down[k]) = <<>>
  BY <1>1, <1>2, TurnOn DEF TurnInv
<1>9. Items(<<>>) = {} /\ JobPaths(<<>>) = {}
  BY ItemsOf, EmptyHonest
<1>10. StandsBy(k)'
  <2>1. \A x \in Index : Answers(k, x)' => Answers(k, x)
    BY <1>2, <1>3, <1>6, <1>7, <1>8, <1>9 DEF Answers
  <2>2. QED BY <1>1, <1>6, <2>1, StandsByStays
<1>11. \A g \in Index : Says(k, g)' => Says(k, g)
  BY <1>1, <1>6, SaysStay
<1>12. \A p \in Path : ~Wants(k, p)'
  BY <1>1, <1>2, <1>6, <1>7, WantsOnly DEF Wants
<1>13. Follows(k)'
  BY <1>1, <1>2, <1>6, <1>7, <1>11, <1>12 DEF Follows
<1>14. PassInv(k)'
  BY <1>6, <1>7, <1>9, <1>12 DEF PassInv
<1>15. QED BY <1>6, <1>7, <1>8, <1>10, <1>13, <1>14 DEF LinkWaits, TurnInv

\* A deletion is of a path that the remote has dead.
LEMMA DeletionJobs ==
  ASSUME TypeOK, NEW n \in Node, NEW x \in Index, NEW q \in Path
  PROVE  /\ \A j \in Items(Deletion(n, x, q)) :
              /\ j.path = q /\ ~Live(x[q])
              /\ HappensBefore(index[n][q].clock, x[q].clock)
<1>1. CASE Confirmed(n, x, q)
  <2>1. /\ Dead(x[q]) /\ Reconcile(index[n][q], x[q]) = "accept_remote"
    BY <1>1 DEF Confirmed, Superseded
  <2>2. ~Live(x[q]) /\ HappensBefore(index[n][q].clock, x[q].clock)
    BY <2>1 DEF Dead, Live, Reconcile
  <2>3. PICK j : j = Apply(q, x[q], NoSum)
    OBVIOUS
  <2>4. j.path = q
    BY <2>3 DEF Apply
  <2>5. Items(<<j>>) = {j}
    BY DEF Items
  <2>6. QED BY <1>1, <2>2, <2>3, <2>4, <2>5 DEF Deletion
<1>2. CASE ~Confirmed(n, x, q)
  BY <1>2, ItemsOf DEF Deletion
<1>3. QED BY <1>1, <1>2

\* The initiator's deletion pass at one path.
LEMMA InitiatorDeletionWaits ==
  ASSUME WaitInv, NEW k \in Link, NEW q \in Path, InitiatorDeletion(k, q), ~Idle(k)
  PROVE  LinkWaits(k)'
<1>1. /\ TypeOK /\ ini[k] \in Initiator /\ up[k] \in Seq(Message) /\ k[1] \in Node
      /\ TurnInv(k) /\ StandsBy(k) /\ Follows(k) /\ PassInv(k)
  BY OpenLink DEF WaitInv, LinkWaits
<1>2. ini[k].pc = "delete" /\ ini[k].jobs = <<>> /\ ini[k].remote \in Index
  BY <1>1 DEF InitiatorDeletion, At, Initiator
<1>3. PICK w : w = Deletion(k[1], ini[k].remote, q)
  OBVIOUS
<1>4. PICK r : r = [ini[k] EXCEPT !.todo = @ \ {q}, !.jobs = w]
  OBVIOUS
<1>5. /\ ini'[k] = r /\ lis'[k] = lis[k] /\ up'[k] = up[k] /\ down'[k] = down[k]
      /\ index' = index
  BY <1>1, <1>3, <1>4 DEF InitiatorDeletion, TypeOK, wires
<1>6. r.pc = "delete" /\ r.remote = ini[k].remote /\ r.jobs = w
  BY <1>1, <1>2, <1>4 DEF Initiator
<1>7. JobPaths(<<>>) = {}
  BY EmptyHonest
<1>8. StandsBy(k)'
  <2>1. \A x \in Index : Answers(k, x)' => Answers(k, x)
    BY <1>2, <1>5, <1>6 DEF Answers
  <2>2. QED BY <1>1, <1>5, <2>1, StandsByStays
<1>9. \A g \in Index : Says(k, g)' => Says(k, g)
  BY <1>1, <1>5, SaysStay
<1>10. \A p \in Path : ~Wants(k, p)'
  BY <1>1, <1>2, <1>5, <1>6, WantsOnly DEF Wants
<1>11. Follows(k)'
  BY <1>1, <1>2, <1>5, <1>6, <1>7, <1>9, <1>10 DEF Follows
<1>12. \A j \in Items(w) : j.path = q /\ ~Live(ini[k].remote[q])
  BY <1>1, <1>2, <1>3, DeletionJobs
<1>13. PassInv(k)'
  BY <1>5, <1>6, <1>10, <1>12 DEF PassInv
<1>14. QED BY <1>1, <1>2, <1>5, <1>6, <1>8, <1>11, <1>13 DEF LinkWaits, TurnInv

\* A rename is from a path that the remote has dead.
LEMMA FindRenamesWaits ==
  ASSUME WaitInv, NEW k \in Link, NEW to \in [Path -> Path], FindRenames(k, to), ~Idle(k)
  PROVE  LinkWaits(k)'
<1>1. /\ TypeOK /\ ini[k] \in Initiator /\ up[k] \in Seq(Message) /\ down[k] \in Seq(Message)
      /\ TurnInv(k) /\ StandsBy(k) /\ Follows(k) /\ PassInv(k)
  BY OpenLink DEF WaitInv, LinkWaits
<1>2. ini[k].pc = "delete" /\ ini[k].jobs = <<>>
  BY DEF FindRenames, At
<1>3. PICK M : M = RemoteMoves(index[k[1]], ini[k].remote, to)
  OBVIOUS
<1>4. PICK r : r = [ini[k] EXCEPT !.pc = "rename", !.moves = M]
  OBVIOUS
<1>5. /\ ini'[k] = r /\ lis'[k] = lis[k] /\ up'[k] = up[k] /\ down'[k] = down[k]
      /\ index' = index
  BY <1>1, <1>3, <1>4 DEF FindRenames, TypeOK, files, wires
<1>6. r.pc = "rename" /\ r.remote = ini[k].remote /\ r.jobs = <<>> /\ r.moves = M
  BY <1>1, <1>2, <1>4 DEF Initiator
<1>7. Items(<<>>) = {} /\ JobPaths(<<>>) = {}
  BY ItemsOf, EmptyHonest
<1>8. Turn("rename", lis[k].pc, up[k], down[k])
  BY <1>1, <1>2, TurnOn DEF TurnInv
<1>9. StandsBy(k)'
  <2>1. \A x \in Index : Answers(k, x)' => Answers(k, x)
    BY <1>2, <1>5, <1>6 DEF Answers
  <2>2. QED BY <1>1, <1>5, <2>1, StandsByStays
<1>10. \A g \in Index : Says(k, g)' => Says(k, g)
  BY <1>1, <1>5, SaysStay
<1>11. \A p \in Path : ~Wants(k, p)'
  BY <1>1, <1>2, <1>5, <1>6, WantsOnly DEF Wants
<1>12. Follows(k)'
  BY <1>1, <1>2, <1>5, <1>6, <1>7, <1>10, <1>11 DEF Follows
<1>13. \A m \in M : ~Live(ini[k].remote[m[1]])
  BY <1>3 DEF RemoteMoves, Dead, Live
<1>14. PassInv(k)'
  BY <1>5, <1>6, <1>7, <1>11, <1>13 DEF PassInv
<1>15. QED BY <1>5, <1>6, <1>8, <1>9, <1>12, <1>14 DEF LinkWaits, TurnInv

\* What a rename installs at a path the remote has is the remote's version.
LEMMA InitiatorRenameWaits ==
  ASSUME WaitInv, NEW k \in Link, NEW m \in Path \X Path, InitiatorRename(k, m), ~Idle(k)
  PROVE  LinkWaits(k)'
<1>1. /\ TypeOK /\ ini[k] \in Initiator /\ up[k] \in Seq(Message) /\ k[1] \in Node
      /\ TurnInv(k) /\ StandsBy(k) /\ Follows(k) /\ PassInv(k)
  BY OpenLink DEF WaitInv, LinkWaits
<1>2. /\ ini[k].pc = "rename" /\ ini[k].jobs = <<>> /\ m \in ini[k].moves
      /\ m[1] \in Path /\ m[2] \in Path
  BY DEF InitiatorRename, At
<1>3. PICK e : e = ini[k].remote[m[2]]
  OBVIOUS
<1>4. PICK w : w = RenameJobs(k[1], m[1], m[2], e)
  OBVIOUS
<1>5. \A j \in Items(w) : j.path = m[1] \/ (j.path = m[2] /\ j.entry = e)
  <2>1. PICK a : a = Apply(m[1], MakeTombstone(index[k[1]][m[1]], k[1]), NoSum)
    OBVIOUS
  <2>2. PICK b : b = Apply(m[2], e, NoSum)
    OBVIOUS
  <2>3. a.path = m[1] /\ b.path = m[2] /\ b.entry = e
    BY <2>1, <2>2 DEF Apply
  <2>4. w = <<a, b>>
    BY <1>4, <2>1, <2>2 DEF RenameJobs
  <2>5. Items(w) = {a, b}
    BY <2>4 DEF Items
  <2>6. QED BY <2>3, <2>5
<1>6. PICK r : r = ini'[k]
  OBVIOUS
<1>7. /\ lis'[k] = lis[k] /\ up'[k] = up[k] /\ down'[k] = down[k] /\ index' = index
      /\ r.pc = "rename" /\ r.remote = ini[k].remote /\ r.moves = ini[k].moves \ {m}
      /\ r.jobs = <<>> \/ r.jobs = w
  <2>1. \/ ini' = [ini EXCEPT ![k].moves = @ \ {m}]
        \/ ini' = [ini EXCEPT ![k].moves = @ \ {m}, ![k].jobs = w]
    BY <1>3, <1>4 DEF InitiatorRename
  <2>2. \/ r = [ini[k] EXCEPT !.moves = @ \ {m}]
        \/ r = [ini[k] EXCEPT !.moves = @ \ {m}, !.jobs = w]
    BY <1>1, <1>6, <2>1 DEF TypeOK
  <2>3. /\ r.pc = "rename" /\ r.remote = ini[k].remote /\ r.moves = ini[k].moves \ {m}
        /\ r.jobs = <<>> \/ r.jobs = w
    BY <1>1, <1>2, <2>2 DEF Initiator
  <2>4. QED BY <2>3 DEF InitiatorRename, wires
<1>8. Items(<<>>) = {} /\ JobPaths(<<>>) = {}
  BY ItemsOf, EmptyHonest
<1>9. StandsBy(k)'
  <2>1. \A x \in Index : Answers(k, x)' => Answers(k, x)
    BY <1>2, <1>6, <1>7 DEF Answers
  <2>2. QED BY <1>1, <1>7, <2>1, StandsByStays
<1>10. \A g \in Index : Says(k, g)' => Says(k, g)
  BY <1>1, <1>7, SaysStay
<1>11. \A p \in Path : ~Wants(k, p)'
  BY <1>1, <1>2, <1>6, <1>7, WantsOnly DEF Wants
<1>12. Follows(k)'
  BY <1>1, <1>2, <1>6, <1>7, <1>8, <1>10, <1>11 DEF Follows
<1>13. ~Live(ini[k].remote[m[1]])
  BY <1>1, <1>2 DEF PassInv
<1>14. PassInv(k)'
  <2>1. \A j \in Items(r.jobs) : Live(r.remote[j.path]) => j.entry.clock = r.remote[j.path].clock
    BY <1>3, <1>5, <1>7, <1>8, <1>13
  <2>2. \A x \in r.moves : ~Live(r.remote[x[1]])
    BY <1>1, <1>2, <1>7 DEF PassInv
  <2>3. QED BY <1>6, <1>11, <2>1, <2>2 DEF PassInv
<1>15. QED BY <1>1, <1>2, <1>6, <1>7, <1>9, <1>12, <1>14 DEF LinkWaits, TurnInv

\* A file that is asked for is alive at the remote, and not older than what
\* the initiator has said it has: equal clocks or an older version are no
\* reason to ask (reconcile).
LEMMA NeededNews ==
  ASSUME NEW x \in Index, NEW r \in Index, NEW p \in Path,
         Needed(Strategy, x, r, {}, p)
  PROVE  /\ Live(r[p]) /\ ~HappensBefore(r[p].clock, x[p].clock)
         /\ x[p].clock # r[p].clock
<1>1. PICK e \in Entry : e = x[p]
  BY DEF Index
<1>2. PICK f \in Entry : f = r[p]
  BY DEF Index
<1>3. Live(f) /\ Reconcile(e, f) \in {"accept_remote", "conflict"}
  BY <1>1, <1>2 DEF Needed, Accept
<1>4. e.clock \in Clock /\ f.clock \in Clock
  BY DEF Entry
<1>5. ASSUME Reconcile(e, f) = "accept_remote"
      PROVE  ~HappensBefore(f.clock, e.clock) /\ e.clock # f.clock
  <2>1. HappensBefore(e.clock, f.clock)
    BY <1>5 DEF Reconcile
  <2>2. QED BY <1>4, <2>1, HappensBeforeAsymmetric, HappensBeforeStrict
<1>6. ASSUME Reconcile(e, f) = "conflict"
      PROVE  ~HappensBefore(f.clock, e.clock) /\ e.clock # f.clock
  <2>1. ~Equals(e.clock, f.clock) /\ ~HappensBefore(f.clock, e.clock)
    BY <1>6 DEF Reconcile
  <2>2. QED BY <2>1 DEF Equals
<1>7. QED BY <1>1, <1>2, <1>3, <1>5, <1>6

\* The selection of files.
LEMMA ComputeNeededWaits ==
  ASSUME WaitInv, NEW k \in Link, ComputeNeeded(k), ~Idle(k)
  PROVE  LinkWaits(k)'
<1>1. /\ TypeOK /\ ini[k] \in Initiator /\ up[k] \in Seq(Message) /\ down[k] \in Seq(Message)
      /\ k[1] \in Node /\ TurnInv(k) /\ StandsBy(k) /\ Follows(k) /\ PassInv(k)
  BY OpenLink DEF WaitInv, LinkWaits
<1>2. ini[k].pc = "rename" /\ ini[k].jobs = <<>>
  BY DEF ComputeNeeded, At
<1>3. PICK x \in Index : x = index[k[1]]
  BY <1>1 DEF TypeOK
<1>4. PICK y \in Index : y = ini[k].remote
  BY <1>1 DEF Initiator
<1>5. PICK T : T = {p \in Path : Needed(Strategy, x, y, {}, p)}
  OBVIOUS
<1>6. PICK r : r = [ini[k] EXCEPT !.pc = "pull", !.todo = T]
  OBVIOUS
<1>7. /\ ini'[k] = r /\ lis'[k] = lis[k] /\ up'[k] = up[k] /\ down'[k] = down[k]
      /\ index' = index
  BY <1>1, <1>3, <1>4, <1>5, <1>6 DEF ComputeNeeded, TypeOK, wires
<1>8. r.pc = "pull" /\ r.remote = y /\ r.todo = T
  BY <1>1, <1>4, <1>6 DEF Initiator
<1>9. JobPaths(<<>>) = {}
  BY EmptyHonest
<1>10. Turn("pull", lis[k].pc, up[k], down[k])
  BY <1>1, <1>2, TurnOn DEF TurnInv
<1>11. StandsBy(k)'
  <2>1. \A z \in Index : Answers(k, z)' => Answers(k, z)
    BY <1>2, <1>4, <1>7, <1>8 DEF Answers
  <2>2. QED BY <1>1, <1>7, <2>1, StandsByStays
<1>12. \A g \in Index : Says(k, g)' => Says(k, g)
  BY <1>1, <1>7, SaysStay
<1>13. \A p \in Path : Wants(k, p)' => p \in T
  BY <1>1, <1>2, <1>7, <1>8, WantsOnly DEF Wants
<1>14. \A p \in T : Live(y[p]) /\ ~HappensBefore(y[p].clock, x[p].clock) /\ x[p].clock # y[p].clock
  BY <1>5, NeededNews
<1>15. ASSUME NEW g \in Index, Says(k, g), NEW p \in T
       PROVE  ~HappensBefore(y[p].clock, g[p].clock)
  <2>1. p \in Path
    BY <1>5
  <2>2. x[p] = g[p] \/ x[p].clock = y[p].clock
    BY <1>1, <1>2, <1>3, <1>4, <1>9, <1>14, <1>15, <2>1 DEF Follows
  <2>3. QED BY <1>14, <2>2
<1>16. Follows(k)'
  BY <1>7, <1>8, <1>12, <1>13, <1>15 DEF Follows
<1>17. PassInv(k)'
  BY <1>7, <1>8, <1>13, <1>14 DEF PassInv
<1>18. QED BY <1>7, <1>8, <1>10, <1>11, <1>16, <1>17 DEF LinkWaits, TurnInv

\* The initiator asks for a file and waits.
LEMMA RequestFileWaits ==
  ASSUME WaitInv, NEW k \in Link, NEW q \in Path, RequestFile(k, q), ~Idle(k)
  PROVE  LinkWaits(k)'
<1>1. /\ TypeOK /\ ini[k] \in Initiator /\ up[k] \in Seq(Message) /\ down[k] \in Seq(Message)
      /\ TurnInv(k) /\ StandsBy(k) /\ Follows(k) /\ PassInv(k)
  BY OpenLink DEF WaitInv, LinkWaits
<1>2. ini[k].pc = "pull" /\ q \in ini[k].todo
  BY DEF RequestFile, At
<1>3. PICK m \in Message : m = [type |-> "GET_FILE", path |-> q]
  BY DEF Message
<1>4. m.type = "GET_FILE" /\ m.path = q
  BY <1>3
<1>5. PICK r : r = [ini[k] EXCEPT !.pc = "wait", !.todo = @ \ {q}]
  OBVIOUS
<1>6. PICK u : u = Append(up[k], m)
  OBVIOUS
<1>7. /\ ini'[k] = r /\ lis'[k] = lis[k] /\ up'[k] = u /\ down'[k] = down[k]
      /\ index' = index
  BY <1>1, <1>3, <1>5, <1>6 DEF RequestFile, Send, TypeOK, files
<1>8. r.pc = "wait" /\ r.remote = ini[k].remote /\ r.todo = ini[k].todo \ {q}
  BY <1>1, <1>5 DEF Initiator
<1>9. Turn("wait", lis[k].pc, u, down[k])
  BY <1>1, <1>2, <1>4, <1>6, TurnAppend DEF TurnInv
<1>10. StandsBy(k)'
  <2>1. \A z \in Index : Answers(k, z)' => Answers(k, z)
    BY <1>2, <1>7, <1>8 DEF Answers
  <2>2. QED BY <1>1, <1>7, <2>1, StandsByStays
<1>11. \A g \in Index : Says(k, g)' => Says(k, g)
  BY <1>1, <1>4, <1>6, <1>7, SaysStay
<1>12. ASSUME NEW p \in Path, Wants(k, p)' PROVE Wants(k, p)
  <2>1. Asks(u, p) => Asks(up[k], p) \/ q = p
    BY <1>1, <1>4, <1>6, AppendViews
  <2>2. QED BY <1>2, <1>7, <1>8, <1>12, <2>1 DEF Wants
<1>13. Follows(k)'
  BY <1>1, <1>7, <1>8, <1>11, <1>12 DEF Follows
<1>14. PassInv(k)'
  BY <1>1, <1>7, <1>8, <1>12 DEF PassInv
<1>15. QED BY <1>7, <1>8, <1>9, <1>10, <1>13, <1>14 DEF LinkWaits, TurnInv

\* The file has come.
LEMMA ReceiveFileWaits ==
  ASSUME WaitInv, NEW k \in Link, ReceiveFile(k), ~Idle(k)
  PROVE  LinkWaits(k)'
<1>1. /\ TypeOK /\ ini[k] \in Initiator /\ up[k] \in Seq(Message) /\ down[k] \in Seq(Message)
      /\ TurnInv(k) /\ StandsBy(k) /\ Follows(k) /\ PassInv(k)
  BY OpenLink DEF WaitInv, LinkWaits
<1>2. ini[k].pc = "wait" /\ down[k] # <<>>
  BY DEF ReceiveFile, Got
<1>3. PICK m : m = Head(down[k])
  OBVIOUS
<1>4. PICK w : w = <<Apply(m.path, m.entry, m.content)>>
  OBVIOUS
<1>5. PICK r : r = [ini[k] EXCEPT !.pc = "pull", !.jobs = w]
  OBVIOUS
<1>6. /\ ini'[k] = r /\ lis'[k] = lis[k] /\ up'[k] = up[k] /\ down'[k] = Tail(down[k])
      /\ index' = index
  BY <1>1, <1>3, <1>4, <1>5 DEF ReceiveFile, TypeOK, files
<1>7. r.pc = "pull" /\ r.remote = ini[k].remote /\ r.todo = ini[k].todo
  BY <1>1, <1>5 DEF Initiator
<1>8. Turn("pull", lis[k].pc, up[k], Tail(down[k])) /\ Tail(down[k]) = <<>>
  BY <1>1, <1>2, TurnOn DEF TurnInv
<1>9. StandsBy(k)'
  <2>1. Items(<<>>) = {}
    BY ItemsOf
  <2>2. \A z \in Index : Answers(k, z)' => Answers(k, z)
    BY <1>2, <1>6, <1>7, <1>8, <2>1 DEF Answers
  <2>3. QED BY <1>1, <1>6, <2>2, StandsByStays
<1>10. \A g \in Index : Says(k, g)' => Says(k, g)
  BY <1>1, <1>6, SaysStay
<1>11. \A p \in Path : Wants(k, p)' => Wants(k, p)
  BY <1>2, <1>6, <1>7 DEF Wants
<1>12. Follows(k)'
  BY <1>1, <1>6, <1>7, <1>10, <1>11 DEF Follows
<1>13. PassInv(k)'
  BY <1>1, <1>6, <1>7, <1>11 DEF PassInv
<1>14. QED BY <1>6, <1>7, <1>8, <1>9, <1>12, <1>13 DEF LinkWaits, TurnInv

\* An initiator that is pushing, or done, has nothing to be answered and asks
\* for nothing.
LEMMA PushingWaits ==
  ASSUME NEW k \in Link, index' = index,
         NEW u, NEW d, up'[k] = u, down'[k] = d,
         ini'[k].pc \in {"push", "idle"}, d = <<>>, \A p \in Path : ~Asks(u, p)
  PROVE  StandsBy(k)' /\ Follows(k)' /\ PassInv(k)'
<1>1. Items(<<>>) = {}
  BY ItemsOf
<1>2. \A r \in Index : ~Answers(k, r)'
  BY <1>1 DEF Answers
<1>3. \A p \in Path : ~Wants(k, p)'
  BY DEF Wants
<1>4. StandsBy(k)'
  BY <1>2 DEF StandsBy
<1>5. Follows(k)'
  BY <1>3 DEF Follows
<1>6. PassInv(k)'
  BY <1>3 DEF PassInv
<1>7. QED BY <1>4, <1>5, <1>6

\* The initiator says that it has all it wants, pushes a file or its new name,
\* and is done.
LEMMA PushWaits ==
  ASSUME WaitInv, NEW k \in Link,
         \/ \E old \in [Path -> Path] : FinishPull(k, old)
         \/ \E p \in Path : Push(k, p)
         \/ FinishPush(k),
         TypeOK', ~Idle(k)
  PROVE  LinkWaits(k)'
<1>1. /\ TypeOK /\ ini[k] \in Initiator /\ up[k] \in Seq(Message) /\ down[k] \in Seq(Message)
      /\ TurnInv(k)
  BY OpenLink DEF WaitInv, LinkWaits
<1>2. ini[k].pc \in {"pull", "push"}
  BY DEF FinishPull, Push, FinishPush, At
<1>3. PICK i : i = ini'[k].pc
  OBVIOUS
<1>4. PICK u \in Seq(Message) : u = up'[k]
  BY DEF TypeOK
<1>5. /\ lis'[k] = lis[k] /\ down'[k] = down[k] /\ index' = index
      /\ \/ ini[k].pc = "push" /\ i = "push" /\ u = up[k]
         \/ \E m \in Message :
              /\ u = Append(up[k], m)
              /\ \/ ini[k].pc = "pull" /\ i = "push" /\ m.type = "SYNC_DONE"
                 \/ ini[k].pc = "push" /\ i = "push" /\ m.type \in {"FILE_DATA", "RENAME_FILE"}
                 \/ ini[k].pc = "push" /\ i = "idle" /\ m.type = "ACK"
  <2>1. ASSUME NEW old \in [Path -> Path], FinishPull(k, old)
        PROVE  \E m \in Message :
                 /\ u = Append(up[k], m)
                 /\ ini[k].pc = "pull" /\ i = "push" /\ m.type = "SYNC_DONE"
    <3>1. PICK m \in Message : m = [type |-> "SYNC_DONE"]
      BY DEF Message
    <3>2. u = Append(up[k], m)
      BY <1>1, <1>4, <2>1, <3>1 DEF FinishPull, Send, TypeOK
    <3>3. ini[k].pc = "pull" /\ i = "push"
      BY <1>1, <1>3, <2>1 DEF FinishPull, At, TypeOK, Initiator
    <3>4. m.type = "SYNC_DONE"
      BY <3>1
    <3>5. QED BY <3>2, <3>3, <3>4
  <2>2. ASSUME NEW p \in Path, Push(k, p)
        PROVE  /\ ini[k].pc = "push" /\ i = "push"
               /\ u = up[k] \/ \E m \in Message : u = Append(up[k], m)
                                                  /\ m.type \in {"FILE_DATA", "RENAME_FILE"}
    <3>1. ini[k].pc = "push" /\ i = "push" /\ ini[k].snap[p] \in Entry
      BY <1>1, <1>3, <2>2 DEF Push, TypeOK, Initiator, Index
    <3>2. ASSUME up' # up
          PROVE  \E m \in Message : up' = Send(up, k, m) /\ m.type \in {"FILE_DATA", "RENAME_FILE"}
      <4>1. ASSUME NEW x \in ini[k].moves
            PROVE  /\ [type |-> "RENAME_FILE", from |-> x[1], path |-> p,
                       entry |-> ini[k].snap[p]] \in Message
        <5>1. x[1] \in Path
          BY <1>1, <4>1 DEF Initiator
        <5>2. QED BY <3>1, <5>1 DEF Message
      <4>2. [type |-> "FILE_DATA", path |-> p, entry |-> ini[k].snap[p],
             content |-> disk[k[1]][p].sum] \in Message
        <5>1. disk[k[1]][p].sum \in Nat
          BY <1>1, Ends DEF TypeOK, File
        <5>2. QED BY <3>1, <5>1 DEF Message
      <4>3. QED BY <2>2, <3>2, <4>1, <4>2 DEF Push
    <3>3. QED BY <1>1, <1>4, <3>1, <3>2 DEF Send, TypeOK
  <2>3. ASSUME FinishPush(k)
        PROVE  \E m \in Message :
                 /\ u = Append(up[k], m)
                 /\ ini[k].pc = "push" /\ i = "idle" /\ m.type = "ACK"
    <3>1. PICK m \in Message : m = [type |-> "ACK"]
      BY DEF Message
    <3>2. u = Append(up[k], m)
      BY <1>1, <1>4, <2>3, <3>1 DEF FinishPush, Send, TypeOK
    <3>3. ini[k].pc = "push" /\ i = "idle"
      BY <1>1, <1>3, <2>3 DEF FinishPush, TypeOK, IdleInitiator
    <3>4. m.type = "ACK"
      BY <3>1
    <3>5. QED BY <3>2, <3>3, <3>4
  <2>4. lis'[k] = lis[k] /\ down'[k] = down[k] /\ index' = index
    BY DEF FinishPull, Push, FinishPush, files
  <2>5. QED BY <2>1, <2>2, <2>3, <2>4
<1>6. Turn(i, lis[k].pc, u, down[k])
  BY <1>1, <1>5, TurnAppend DEF TurnInv
<1>7. down[k] = <<>>
  <2>1. ini[k].pc \notin {"hello", "wait"}
    BY <1>2
  <2>2. QED BY <1>1, <2>1, TurnFacts DEF TurnInv
<1>8. \A p \in Path : ~Asks(u, p)
  <2>1. \A p \in Path : ~Asks(up[k], p)
    BY <1>1, <1>2, WantsOnly
  <2>2. ASSUME NEW m \in Message, m.type # "GET_FILE", u = Append(up[k], m), NEW p \in Path
        PROVE  ~Asks(u, p)
    BY <1>1, <2>1, <2>2, AppendViews
  <2>3. QED BY <1>5, <2>1, <2>2
<1>9. i \in {"push", "idle"}
  BY <1>5
<1>10. StandsBy(k)' /\ Follows(k)' /\ PassInv(k)'
  BY <1>3, <1>4, <1>5, <1>7, <1>8, <1>9, PushingWaits
<1>11. QED BY <1>3, <1>4, <1>5, <1>6, <1>10 DEF LinkWaits, TurnInv

\* The initiator's worker thread: what it installs at a path the remote has is
\* the remote's version, or of the pull.
LEMMA InitiatorJobWaits ==
  ASSUME WaitInv, NEW k \in Link, InitiatorJob(k), ~Idle(k)
  PROVE  LinkWaits(k)'
<1>1. /\ TypeOK /\ ini[k] \in Initiator /\ up[k] \in Seq(Message)
      /\ k[1] \in Node /\ k[2] \in Node /\ k[1] # k[2] /\ HonestInitiator(k, ini[k])
      /\ TurnInv(k) /\ StandsBy(k) /\ Follows(k) /\ PassInv(k)
  BY OpenLink DEF WaitInv, LinkWaits
<1>2. PICK w \in Seq(Job) : w = ini[k].jobs /\ w # <<>> /\ HonestJobs(k[1], w)
  BY <1>1 DEF InitiatorJob, Initiator, HonestInitiator
<1>3. PICK j \in Job : j = Head(w) /\ j \in Items(w)
  BY <1>2, TailWire
<1>4. PICK r : r = [ini[k] EXCEPT !.jobs = Tail(w)]
  OBVIOUS
<1>5. /\ Applied(k[1], j) /\ ini'[k] = r /\ lis'[k] = lis[k]
      /\ up'[k] = up[k] /\ down'[k] = down[k]
  BY <1>1, <1>2, <1>3, <1>4 DEF InitiatorJob, Applied, TypeOK, wires
<1>6. /\ r.pc = ini[k].pc /\ r.remote = ini[k].remote /\ r.todo = ini[k].todo
      /\ r.jobs = Tail(w) /\ r.moves = ini[k].moves
  BY <1>1, <1>4 DEF Initiator
<1>7. ini[k].pc \in {"delete", "rename", "pull"}
  BY <1>1, <1>2 DEF HonestInitiator
<1>8. /\ Items(Tail(w)) \subseteq Items(w)
      /\ \A p \in JobPaths(w) : p = j.path \/ p \in JobPaths(Tail(w))
  <2>1. /\ Items(Tail(w)) \subseteq Items(w)
        /\ \A x \in Items(w) : x = j \/ x \in Items(Tail(w))
    BY <1>1, <1>2, <1>3, JobsTail
  <2>2. QED BY <2>1 DEF JobPaths
<1>9. /\ \A p \in Path : p # j.path => index'[k[1]][p] = index[k[1]][p]
      /\ index'[k[1]][j.path].clock = j.entry.clock
      /\ \A p \in Path : index'[k[2]][p] = index[k[2]][p]
  BY <1>1, <1>3, <1>5, AppliedWhat
<1>10. index'[k[2]] = index[k[2]]
  BY <1>1, <1>5 DEF Applied, TypeOK
<1>11. StandsBy(k)'
  <2>1. \A x \in Index : Answers(k, x)' => Answers(k, x)
    BY <1>5, <1>6 DEF Answers
  <2>2. QED BY <1>1, <1>5, <1>10, <2>1, StandsByStays
<1>12. \A g \in Index : Says(k, g)' => Says(k, g)
  BY <1>1, <1>5, SaysStay
<1>13. \A p \in Path : Wants(k, p)' => Wants(k, p)
  BY <1>5, <1>6 DEF Wants
<1>14. Follows(k)'
  <2> SUFFICES ASSUME NEW g \in Index, Says(k, g), NEW p \in Path
               PROVE  /\ r.pc \in {"delete", "rename"} /\ Live(r.remote[p]) =>
                            \/ index'[k[1]][p] = g[p]
                            \/ index'[k[1]][p].clock = r.remote[p].clock
                            \/ p \in JobPaths(Tail(w))
                      /\ Wants(k, p) => ~HappensBefore(r.remote[p].clock, g[p].clock)
    BY <1>5, <1>6, <1>7, <1>12, <1>13 DEF Follows
  <2>1. Wants(k, p) => ~HappensBefore(r.remote[p].clock, g[p].clock)
    BY <1>1, <1>6 DEF Follows
  <2>2. ASSUME r.pc \in {"delete", "rename"}, Live(r.remote[p]), p = j.path
        PROVE  index'[k[1]][p].clock = r.remote[p].clock
    BY <1>1, <1>2, <1>3, <1>6, <1>9, <2>2 DEF PassInv
  <2>3. ASSUME r.pc \in {"delete", "rename"}, Live(r.remote[p]), p # j.path
        PROVE  \/ index'[k[1]][p] = g[p]
               \/ index'[k[1]][p].clock = r.remote[p].clock
               \/ p \in JobPaths(Tail(w))
    BY <1>1, <1>2, <1>6, <1>8, <1>9, <2>3 DEF Follows
  <2>4. QED BY <2>1, <2>2, <2>3
<1>15. PassInv(k)'
  BY <1>1, <1>2, <1>5, <1>6, <1>8, <1>13 DEF PassInv
<1>16. QED BY <1>1, <1>5, <1>6, <1>11, <1>14, <1>15 DEF LinkWaits, TurnInv

-----------------------------------------------------------------------------
(* The listener's steps, and who waits                                     *)

\* An initiator that is pushing, or done, is not answered.
LEMMA NoAnswers ==
  ASSUME NEW k \in Link, TypeOK, TurnInv(k), ini[k].pc \in {"push", "idle"}
  PROVE  down[k] = <<>> /\ \A r \in Index : ~Answers(k, r)
<1>1. PICK u \in Seq(Message) : u = up[k]
  BY DEF TypeOK
<1>2. PICK d \in Seq(Message) : d = down[k]
  BY DEF TypeOK
<1>3. PICK i : i = ini[k].pc
  OBVIOUS
<1>4. Turn(i, lis[k].pc, u, d) /\ i \notin {"hello", "wait"}
  BY <1>1, <1>2, <1>3 DEF TurnInv
<1>5. d = <<>>
  BY <1>4, TurnFacts
<1>6. Items(<<>>) = {}
  BY ItemsOf
<1>7. QED BY <1>2, <1>5, <1>6 DEF Answers

\* The listener offers the index as it is.
LEMMA OfferWaits ==
  ASSUME NEW k \in Link, index' = index, ini'[k] = ini[k], ini[k].pc = "hello",
         NEW m, m.index = index[k[2]], NEW d, Items(d) = {m}, down'[k] = d,
         NEW s, s.jobs = <<>>, lis'[k] = s
  PROVE  StandsBy(k)'
<1>1. \A r \in Index : Answers(k, r)' => r = index[k[2]]
  BY DEF Answers
<1>2. JobPaths(<<>>) = {}
  BY EmptyHonest
<1>3. QED BY <1>1, <1>2 DEF StandsBy

\* The server greets.
LEMMA GreetWaits ==
  ASSUME WaitInv, NEW k \in Link, Greet(k), ~Idle(k)
  PROVE  LinkWaits(k)'
<1>1. /\ TypeOK /\ lis[k] \in Listener /\ up[k] \in Seq(Message) /\ down[k] \in Seq(Message)
      /\ k[2] \in Node /\ HonestListener(k, lis[k])
      /\ TurnInv(k) /\ StandsBy(k) /\ Follows(k) /\ PassInv(k)
  BY OpenLink DEF WaitInv, LinkWaits
<1>2. lis[k].pc = "idle" /\ up[k] # <<>> /\ GreetFirst
  BY DEF Greet, Got
<1>3. PICK m \in Message : m = Hello(k[2])
  <2>1. index[k[2]] \in Index
    BY <1>1 DEF TypeOK
  <2>2. QED BY <2>1 DEF Hello, Message
<1>4. m.type = "HELLO" /\ m.index = index[k[2]]
  BY <1>3 DEF Hello
<1>5. PICK s : s = [lis[k] EXCEPT !.pc = "hello"]
  OBVIOUS
<1>6. PICK d : d = Append(down[k], m)
  OBVIOUS
<1>7. /\ ini'[k] = ini[k] /\ lis'[k] = s /\ up'[k] = up[k] /\ down'[k] = d
      /\ index' = index
  BY <1>1, <1>3, <1>5, <1>6 DEF Greet, Send, TypeOK, files
<1>8. s.pc = "hello" /\ s.jobs = <<>>
  BY <1>1, <1>2, <1>5 DEF Listener, HonestListener
<1>9. Turn(ini[k].pc, "idle", up[k], down[k])
  BY <1>1, <1>2 DEF TurnInv
<1>10. /\ ini[k].pc = "hello" /\ Items(d) = {m}
       /\ Turn(ini[k].pc, "hello", up[k], d)
  BY <1>1, <1>2, <1>4, <1>6, <1>9, TurnGreet
<1>11. StandsBy(k)'
  BY <1>4, <1>7, <1>8, <1>10, OfferWaits
<1>12. \A g \in Index : Says(k, g)' => Says(k, g)
  BY <1>7, <1>8 DEF Says
<1>13. \A p \in Path : Wants(k, p)' => Wants(k, p)
  BY <1>7 DEF Wants
<1>14. Follows(k)' /\ PassInv(k)'
  BY <1>1, <1>7, <1>12, <1>13, FollowsStays
<1>15. QED BY <1>7, <1>8, <1>10, <1>11, <1>14 DEF LinkWaits, TurnInv

\* The listener reads a HELLO, and answers it unless it has greeted.
LEMMA ListenerHelloWaits ==
  ASSUME WaitInv, NEW k \in Link, ListenerHello(k), ~Idle(k)
  PROVE  LinkWaits(k)'
<1>1. /\ TypeOK /\ lis[k] \in Listener /\ up[k] \in Seq(Message) /\ down[k] \in Seq(Message)
      /\ k[2] \in Node /\ HonestListener(k, lis[k])
      /\ TurnInv(k) /\ StandsBy(k) /\ Follows(k) /\ PassInv(k)
  BY OpenLink DEF WaitInv, LinkWaits
<1>2. /\ lis[k].pc = IF GreetFirst THEN "hello" ELSE "idle"
      /\ up[k] # <<>> /\ Head(up[k]).type = "HELLO"
  BY DEF ListenerHello, Got
<1>3. PICK u : u = Tail(up[k])
  OBVIOUS
<1>4. PICK g \in Message : g = Head(up[k]) /\ g \in Items(up[k]) /\ Items(u) \subseteq Items(up[k])
  BY <1>1, <1>2, <1>3, TailWire
<1>5. PICK m \in Message : m = Hello(k[2])
  <2>1. index[k[2]] \in Index
    BY <1>1 DEF TypeOK
  <2>2. QED BY <2>1 DEF Hello, Message
<1>6. m.type = "HELLO" /\ m.index = index[k[2]]
  BY <1>5 DEF Hello
<1>7. PICK s : s = [lis[k] EXCEPT !.pc = "delete", !.remote = g.index,
                                  !.todo = Tombstones(g.index)]
  OBVIOUS
<1>8. PICK d : d = IF GreetFirst THEN down[k] ELSE Append(down[k], m)
  OBVIOUS
<1>9. /\ ini'[k] = ini[k] /\ lis'[k] = s /\ up'[k] = u /\ down'[k] = d
      /\ index' = index
  BY <1>1, <1>3, <1>4, <1>5, <1>7, <1>8 DEF ListenerHello, Send, TypeOK, files
<1>10. s.pc = "delete" /\ s.remote = g.index /\ s.jobs = <<>>
  BY <1>1, <1>2, <1>7 DEF Listener, HonestListener
<1>11. d \in Seq(Message)
  BY <1>1, <1>8, AppendWire
<1>12. /\ Turn(ini[k].pc, "delete", u, d)
       /\ lis[k].pc = "idle" => ini[k].pc = "hello" /\ Items(d) = {m}
  <2>1. PICK i, l : i = ini[k].pc /\ l = lis[k].pc
    OBVIOUS
  <2>2. PICK v \in Seq(Message) : v = up[k]
    BY <1>1
  <2>3. PICK e \in Seq(Message) : e = down[k]
    BY <1>1
  <2>4. /\ Turn(i, l, v, e) /\ v # <<>>
        /\ \/ l = "hello" /\ d = e
           \/ l = "idle" /\ d = Append(e, m)
    BY <1>1, <1>2, <1>8, <2>1, <2>2, <2>3 DEF TurnInv
  <2>5. /\ Turn(i, "delete", Tail(v), d)
        /\ l = "idle" => i = "hello" /\ Items(d) = {m}
    <3>1. m.type = "HELLO" /\ d \in Seq(Message)
      BY <1>6, <1>11
    <3>2. CASE l = "hello" /\ d = e
      BY <2>4, <3>1, <3>2, TurnHello
    <3>3. CASE l = "idle" /\ d = Append(e, m)
      BY <2>4, <3>1, <3>3, TurnAnswer
    <3>4. QED BY <2>4, <3>2, <3>3
  <2>6. QED BY <1>3, <2>1, <2>2, <2>5
<1>13. StandsBy(k)'
  <2>1. CASE GreetFirst
    <3>1. lis[k].pc = "hello" /\ d = down[k] /\ JobPaths(<<>>) = {}
      BY <1>2, <1>8, <2>1, EmptyHonest
    <3>2. \A x \in Index : Answers(k, x)' => Answers(k, x)
      BY <1>9, <3>1 DEF Answers
    <3>3. QED BY <1>1, <1>9, <1>10, <3>1, <3>2 DEF StandsBy
  <2>2. CASE ~GreetFirst
    BY <1>2, <1>6, <1>9, <1>10, <1>12, <2>2, OfferWaits
  <2>3. QED BY <2>1, <2>2
<1>14. \A x \in Index : Says(k, x)' => Says(k, x)
  BY <1>2, <1>4, <1>9, <1>10 DEF Says
<1>15. \A p \in Path : Wants(k, p)' => Wants(k, p)
  BY <1>4, <1>9 DEF Wants, Asks
<1>16. Follows(k)' /\ PassInv(k)'
  BY <1>1, <1>9, <1>14, <1>15, FollowsStays
<1>17. QED BY <1>9, <1>10, <1>12, <1>13, <1>16 DEF LinkWaits, TurnInv

\* The listener deletes a file it has offered only for a newer tombstone.
LEMMA ListenerDeletionWaits ==
  ASSUME WaitInv, NEW k \in Link, NEW q \in Path, ListenerDeletion(k, q), ~Idle(k)
  PROVE  LinkWaits(k)'
<1>1. /\ TypeOK /\ lis[k] \in Listener /\ up[k] \in Seq(Message) /\ k[2] \in Node
      /\ TurnInv(k) /\ StandsBy(k) /\ Follows(k) /\ PassInv(k)
  BY OpenLink DEF WaitInv, LinkWaits
<1>2. lis[k].pc = "delete" /\ lis[k].remote \in Index
  BY <1>1 DEF ListenerDeletion, At, Listener
<1>3. PICK w : w = Deletion(k[2], lis[k].remote, q)
  OBVIOUS
<1>4. PICK s : s = [lis[k] EXCEPT !.todo = @ \ {q}, !.jobs = w]
  OBVIOUS
<1>5. /\ ini'[k] = ini[k] /\ lis'[k] = s /\ up'[k] = up[k] /\ down'[k] = down[k]
      /\ index' = index
  BY <1>1, <1>3, <1>4 DEF ListenerDeletion, TypeOK, wires
<1>6. s.pc = "delete" /\ s.remote = lis[k].remote /\ s.jobs = w
  BY <1>1, <1>2, <1>4 DEF Listener
<1>7. \A p \in JobPaths(w) :
        p = q /\ HappensBefore(index[k[2]][q].clock, lis[k].remote[q].clock)
  <2>1. \A j \in Items(w) :
          j.path = q /\ HappensBefore(index[k[2]][q].clock, lis[k].remote[q].clock)
    BY <1>1, <1>2, <1>3, DeletionJobs
  <2>2. QED BY <2>1 DEF JobPaths
<1>8. StandsBy(k)'
  <2> SUFFICES ASSUME NEW r \in Index, Answers(k, r), NEW p \in Path, Live(r[p])
               PROVE  /\ \/ index[k[2]][p] = r[p]
                         \/ HappensBefore(r[p].clock, lis[k].remote[p].clock)
                      /\ p \in JobPaths(w) =>
                            HappensBefore(r[p].clock, lis[k].remote[p].clock)
    BY <1>5, <1>6 DEF StandsBy, Answers
  <2>1. \/ index[k[2]][p] = r[p]
        \/ HappensBefore(r[p].clock, lis[k].remote[p].clock)
    BY <1>1 DEF StandsBy
  <2>2. QED BY <1>7, <2>1
<1>9. \A g \in Index : Says(k, g)' => Says(k, g)
  BY <1>2, <1>5, <1>6 DEF Says
<1>10. \A p \in Path : Wants(k, p)' => Wants(k, p)
  BY <1>5 DEF Wants
<1>11. Follows(k)' /\ PassInv(k)'
  BY <1>1, <1>5, <1>9, <1>10, FollowsStays
<1>12. QED BY <1>1, <1>2, <1>5, <1>6, <1>8, <1>11 DEF LinkWaits, TurnInv

\* The listener has made its deletions.
LEMMA BeginServingWaits ==
  ASSUME WaitInv, NEW k \in Link, BeginServing(k), ~Idle(k)
  PROVE  LinkWaits(k)'
<1>1. /\ TypeOK /\ lis[k] \in Listener /\ TurnInv(k) /\ StandsBy(k) /\ Follows(k) /\ PassInv(k)
  BY OpenLink DEF WaitInv, LinkWaits
<1>2. lis[k].pc = "delete" /\ lis[k].jobs = <<>>
  BY DEF BeginServing, At
<1>3. PICK s : s = [lis[k] EXCEPT !.pc = "serve"]
  OBVIOUS
<1>4. /\ ini'[k] = ini[k] /\ lis'[k] = s /\ up'[k] = up[k] /\ down'[k] = down[k]
      /\ index' = index
  BY <1>1, <1>3 DEF BeginServing, TypeOK, files, wires
<1>5. s.pc = "serve" /\ s.remote = lis[k].remote /\ s.jobs = <<>>
  BY <1>1, <1>2, <1>3 DEF Listener
<1>6. JobPaths(<<>>) = {}
  BY EmptyHonest
<1>7. StandsBy(k)'
  <2>1. \A x \in Index : Answers(k, x)' => Answers(k, x)
    BY <1>4 DEF Answers
  <2>2. QED BY <1>1, <1>2, <1>4, <1>5, <1>6, <2>1 DEF StandsBy
<1>8. \A g \in Index : Says(k, g)' => Says(k, g)
  BY <1>2, <1>4, <1>5 DEF Says
<1>9. \A p \in Path : Wants(k, p)' => Wants(k, p)
  BY <1>4 DEF Wants
<1>10. Follows(k)' /\ PassInv(k)'
  BY <1>1, <1>4, <1>8, <1>9, FollowsStays
<1>11. Turn(ini[k].pc, "serve", up[k], down[k])
  BY <1>1, <1>2, TurnServing DEF TurnInv
<1>12. QED BY <1>4, <1>5, <1>7, <1>10, <1>11 DEF LinkWaits, TurnInv

\* A file that is asked for is there: the initiator does not ask for what the
\* listener has deleted for it (_serve_file).
LEMMA ServeReplies ==
  ASSUME WaitInv, NEW k \in Link, NEW q \in Path, Asks(up[k], q), lis[k].pc = "serve"
  PROVE  Live(index[k[2]][q]) /\ Exists(disk[k[2]][q])
<1>1. ~Idle(k)
  BY DEF Idle
<1>2. /\ TypeOK /\ ini[k] \in Initiator /\ lis[k] \in Listener
      /\ up[k] \in Seq(Message) /\ down[k] \in Seq(Message)
      /\ TidyListener(k, lis[k])
      /\ TurnInv(k) /\ StandsBy(k) /\ Follows(k) /\ PassInv(k)
  BY <1>1, OpenLink DEF WaitInv, LinkWaits
<1>3. PICK r \in Index : r = ini[k].remote
  BY <1>2 DEF Initiator
<1>4. PICK g \in Index : g = lis[k].remote
  BY <1>2 DEF Listener
<1>5. ini[k].pc = "wait"
  BY <1>2, WantsOnly
<1>6. Wants(k, q)
  BY DEF Wants
<1>7. Live(r[q])
  BY <1>2, <1>3, <1>6 DEF PassInv
<1>8. ~HappensBefore(r[q].clock, g[q].clock)
  <2>1. Says(k, g)
    BY <1>4 DEF Says
  <2>2. QED BY <1>2, <1>3, <1>6, <2>1 DEF Follows
<1>9. index[k[2]][q] = r[q]
  <2>1. Answers(k, r)
    BY <1>3, <1>5 DEF Answers
  <2>2. QED BY <1>2, <1>4, <1>7, <1>8, <2>1 DEF StandsBy
<1>10. Honest(index[k[2]][q], disk[k[2]][q])
  BY <1>2 DEF TidyListener
<1>11. QED BY <1>7, <1>9, <1>10 DEF Honest

\* The listener serves a file.
LEMMA ServeWaits ==
  ASSUME WaitInv, NEW k \in Link, Serve(k), ~Idle(k)
  PROVE  LinkWaits(k)'
<1>1. /\ TypeOK /\ up[k] \in Seq(Message) /\ down[k] \in Seq(Message) /\ k[2] \in Node
      /\ TurnInv(k) /\ StandsBy(k) /\ Follows(k) /\ PassInv(k)
  BY OpenLink DEF WaitInv, LinkWaits
<1>2. lis[k].pc = "serve" /\ up[k] # <<>> /\ Head(up[k]).type = "GET_FILE"
  BY DEF Serve, Got
<1>3. PICK u : u = Tail(up[k])
  OBVIOUS
<1>4. PICK g \in Message : g = Head(up[k]) /\ g \in Items(up[k]) /\ Items(u) \subseteq Items(up[k])
  BY <1>1, <1>2, <1>3, TailWire
<1>5. PICK q \in Path : q = g.path
  BY <1>2, <1>4, MessageFields
<1>6. Live(index[k[2]][q]) /\ Exists(disk[k[2]][q])
  <2>1. Asks(up[k], q)
    BY <1>2, <1>4, <1>5 DEF Asks
  <2>2. QED BY <1>2, <2>1, ServeReplies
<1>7. PICK e \in Entry : e = index[k[2]][q]
  BY <1>1 DEF TypeOK, Index
<1>8. PICK m \in Message : m = [type |-> "FILE_DATA", path |-> q, entry |-> e,
                                content |-> disk[k[2]][q].sum]
  <2>1. disk[k[2]][q].sum \in Nat
    BY <1>1 DEF TypeOK, File
  <2>2. QED BY <2>1 DEF Message
<1>9. m.type = "FILE_DATA"
  BY <1>8
<1>10. PICK d : d = Append(down[k], m)
  OBVIOUS
<1>11. /\ ini'[k] = ini[k] /\ lis'[k] = lis[k] /\ up'[k] = u /\ down'[k] = d
       /\ index' = index
  BY <1>1, <1>3, <1>4, <1>5, <1>6, <1>7, <1>8, <1>10 DEF Serve, Send, TypeOK, files
<1>12. Turn(ini[k].pc, "serve", u, d) /\ Items(d) = {m}
  <2>1. Turn(ini[k].pc, "serve", up[k], down[k])
    BY <1>1, <1>2 DEF TurnInv
  <2>2. QED BY <1>1, <1>2, <1>3, <1>9, <1>10, <2>1, TurnServe
<1>13. StandsBy(k)'
  <2>1. \A x \in Index : Answers(k, x)' => Answers(k, x)
    BY <1>9, <1>11, <1>12 DEF Answers
  <2>2. QED BY <1>1, <1>11, <2>1, StandsByStays
<1>14. \A x \in Index : Says(k, x)' => Says(k, x)
  BY <1>4, <1>11 DEF Says
<1>15. \A p \in Path : Wants(k, p)' => Wants(k, p)
  BY <1>4, <1>11 DEF Wants, Asks
<1>16. Follows(k)' /\ PassInv(k)'
  BY <1>1, <1>11, <1>14, <1>15, FollowsStays
<1>17. QED BY <1>2, <1>11, <1>12, <1>13, <1>16 DEF LinkWaits, TurnInv

\* The listener takes what is pushed, and is done.
LEMMA AcceptWaits ==
  ASSUME WaitInv, NEW k \in Link,
         ServeDone(k) \/ AcceptFile(k) \/ AcceptRename(k) \/ AcceptAck(k), ~Idle(k)
  PROVE  LinkWaits(k)'
<1>1. /\ TypeOK /\ lis[k] \in Listener /\ up[k] \in Seq(Message) /\ down[k] \in Seq(Message)
      /\ TurnInv(k) /\ StandsBy(k) /\ Follows(k) /\ PassInv(k)
  BY OpenLink DEF WaitInv, LinkWaits
<1>2. PICK u : u = Tail(up[k])
  OBVIOUS
<1>3. PICK c : c = lis'[k].pc
  OBVIOUS
<1>4. /\ ini'[k] = ini[k] /\ up'[k] = u /\ down'[k] = down[k] /\ index' = index
      /\ up[k] # <<>>
      /\ \/ lis[k].pc = "serve" /\ Head(up[k]).type = "SYNC_DONE" /\ c = "accept"
         \/ /\ lis[k].pc = "accept" /\ Head(up[k]).type \in {"FILE_DATA", "RENAME_FILE"}
            /\ c = "accept"
         \/ lis[k].pc = "accept" /\ Head(up[k]).type = "ACK" /\ c = "idle"
  <2>1. CASE ServeDone(k)
    BY <1>1, <1>2, <1>3, <2>1 DEF ServeDone, Got, TypeOK, files, Listener
  <2>2. CASE AcceptFile(k)
    BY <1>1, <1>2, <1>3, <2>2 DEF AcceptFile, At, Got, TypeOK, Listener
  <2>3. CASE AcceptRename(k)
    BY <1>1, <1>2, <1>3, <2>3 DEF AcceptRename, At, Got, TypeOK, Listener
  <2>4. CASE AcceptAck(k)
    BY <1>1, <1>2, <1>3, <2>4 DEF AcceptAck, At, Got, TypeOK, files, IdleListener
  <2>5. QED BY <2>1, <2>2, <2>3, <2>4
<1>5. Items(u) \subseteq Items(up[k])
  BY <1>1, <1>2, <1>4, TailWire
<1>6. Turn(ini[k].pc, c, u, down[k]) /\ ini[k].pc \in {"push", "idle"}
  <2>1. PICK i, l : i = ini[k].pc /\ l = lis[k].pc
    OBVIOUS
  <2>2. PICK v \in Seq(Message) : v = up[k]
    BY <1>1
  <2>3. PICK e \in Seq(Message) : e = down[k]
    BY <1>1
  <2>4. /\ Turn(i, l, v, e) /\ v # <<>>
        /\ \/ l = "serve" /\ Head(v).type = "SYNC_DONE" /\ c = "accept"
           \/ l = "accept" /\ Head(v).type \in {"FILE_DATA", "RENAME_FILE"} /\ c = "accept"
           \/ l = "accept" /\ Head(v).type = "ACK" /\ c = "idle"
    BY <1>1, <1>4, <2>1, <2>2, <2>3 DEF TurnInv
  <2>5. Turn(i, c, Tail(v), e) /\ i \in {"push", "idle"}
    BY <2>4, TurnTail
  <2>6. QED BY <1>2, <2>1, <2>2, <2>3, <2>5
<1>7. \A x \in Index : ~Answers(k, x)'
  <2>1. \A x \in Index : ~Answers(k, x)
    BY <1>1, <1>6, NoAnswers
  <2>2. QED BY <1>4, <2>1 DEF Answers
<1>8. StandsBy(k)'
  BY <1>7 DEF StandsBy
<1>9. \A x \in Index : Says(k, x)' => Says(k, x)
  BY <1>3, <1>4, <1>5 DEF Says
<1>10. \A p \in Path : Wants(k, p)' => Wants(k, p)
  BY <1>4, <1>5 DEF Wants, Asks
<1>11. Follows(k)' /\ PassInv(k)'
  BY <1>1, <1>4, <1>9, <1>10, FollowsStays
<1>12. QED BY <1>3, <1>4, <1>6, <1>8, <1>11 DEF LinkWaits, TurnInv

\* The listener's worker thread: of what it has offered, it installs only what
\* the initiator has newer.
LEMMA ListenerJobWaits ==
  ASSUME WaitInv, NEW k \in Link, ListenerJob(k), ~Idle(k)
  PROVE  LinkWaits(k)'
<1>1. /\ TypeOK /\ lis[k] \in Listener /\ up[k] \in Seq(Message)
      /\ k[1] \in Node /\ k[2] \in Node /\ k[1] # k[2] /\ HonestListener(k, lis[k])
      /\ TurnInv(k) /\ StandsBy(k) /\ Follows(k) /\ PassInv(k)
  BY OpenLink DEF WaitInv, LinkWaits
<1>2. PICK w \in Seq(Job) : w = lis[k].jobs /\ w # <<>> /\ HonestJobs(k[2], w)
  BY <1>1 DEF ListenerJob, Listener, HonestListener
<1>3. PICK j \in Job : j = Head(w) /\ j \in Items(w)
  BY <1>2, TailWire
<1>4. PICK s : s = [lis[k] EXCEPT !.jobs = Tail(w)]
  OBVIOUS
<1>5. /\ Applied(k[2], j) /\ lis'[k] = s /\ ini'[k] = ini[k]
      /\ up'[k] = up[k] /\ down'[k] = down[k]
  BY <1>1, <1>2, <1>3, <1>4 DEF ListenerJob, Applied, TypeOK, wires
<1>6. s.pc = lis[k].pc /\ s.remote = lis[k].remote /\ s.jobs = Tail(w)
  BY <1>1, <1>4 DEF Listener
<1>7. lis[k].pc \in {"delete", "accept"}
  BY <1>1, <1>2 DEF HonestListener
<1>8. JobPaths(Tail(w)) \subseteq JobPaths(w) /\ j.path \in JobPaths(w)
  <2>1. Items(Tail(w)) \subseteq Items(w)
    BY <1>1, <1>2, JobsTail
  <2>2. QED BY <1>3, <2>1 DEF JobPaths
<1>9. \A p \in Path : p # j.path => index'[k[2]][p] = index[k[2]][p]
  BY <1>1, <1>3, <1>5, AppliedWhat
<1>10. index'[k[1]] = index[k[1]]
  BY <1>1, <1>5 DEF Applied, TypeOK
<1>11. \A x \in Index : Answers(k, x)' => Answers(k, x)
  BY <1>5 DEF Answers
<1>12. StandsBy(k)'
  <2> SUFFICES ASSUME NEW x \in Index, Answers(k, x), NEW p \in Path, Live(x[p])
               PROVE  /\ \/ index'[k[2]][p] = x[p]
                         \/ /\ s.pc \in {"delete", "serve"}
                            /\ HappensBefore(x[p].clock, s.remote[p].clock)
                      /\ p \in JobPaths(Tail(w)) =>
                            /\ s.pc = "delete"
                            /\ HappensBefore(x[p].clock, s.remote[p].clock)
    BY <1>5, <1>6, <1>11 DEF StandsBy
  <2>1. /\ \/ index[k[2]][p] = x[p]
           \/ /\ s.pc \in {"delete", "serve"}
              /\ HappensBefore(x[p].clock, s.remote[p].clock)
        /\ p \in JobPaths(w) =>
              /\ s.pc = "delete"
              /\ HappensBefore(x[p].clock, s.remote[p].clock)
    BY <1>1, <1>2, <1>6 DEF StandsBy
  <2>2. QED BY <1>8, <1>9, <2>1
<1>13. \A g \in Index : Says(k, g)' => Says(k, g)
  BY <1>5, <1>6 DEF Says
<1>14. \A p \in Path : Wants(k, p)' => Wants(k, p)
  BY <1>5 DEF Wants
<1>15. Follows(k)' /\ PassInv(k)'
  BY <1>1, <1>5, <1>10, <1>13, <1>14, FollowsStays
<1>16. QED BY <1>1, <1>5, <1>6, <1>12, <1>15 DEF LinkWaits, TurnInv

-----------------------------------------------------------------------------
(* Nobody waits for nobody                                                 *)

\* A link with no session open.
LEMMA IdleWaits ==
  ASSUME NEW k \in Link, ini'[k].pc = "idle", lis'[k].pc = "idle",
         up'[k] = <<>>, down'[k] = <<>>
  PROVE  LinkWaits(k)'
<1>1. Items(<<>>) = {}
  BY ItemsOf
<1>2. TurnInv(k)'
  BY TurnIdle DEF TurnInv
<1>3. \A r \in Index : ~Answers(k, r)'
  BY <1>1 DEF Answers
<1>4. \A p \in Path : ~Wants(k, p)'
  BY <1>1 DEF Wants, Asks
<1>5. StandsBy(k)'
  BY <1>3 DEF StandsBy
<1>6. Follows(k)'
  BY <1>4 DEF Follows
<1>7. PassInv(k)'
  BY <1>4 DEF PassInv
<1>8. QED BY <1>2, <1>5, <1>6, <1>7 DEF LinkWaits

\* Nothing is left on its connection.
LEMMA IdleWire ==
  ASSUME WaitInv, NEW k \in Link, Idle(k)
  PROVE  /\ ini[k].pc = "idle" /\ lis[k].pc = "idle" /\ up[k] = <<>> /\ down[k] = <<>>
<1>1. ini[k].pc = "idle" /\ lis[k].pc = "idle" /\ up[k] = <<>>
  BY DEF Idle
<1>2. TurnInv(k) /\ TypeOK
  BY DEF WaitInv, LinkWaits, HonestInv
<1>3. QED BY <1>1, <1>2, NoAnswers

\* A step of a link, and what it leaves of it.
LEMMA LinkWaitsStep ==
  ASSUME WaitInv, TypeOK', NEW k \in Link, Initiate(k) \/ Listen(k) \/ Drop(k)
  PROVE  LinkWaits(k)'
<1>1. CASE Connect(k)
  BY <1>1, ConnectWaits
<1>2. CASE ~Connect(k)
  <2>1. ~Idle(k)
    BY <1>2, Busy DEF WaitInv, HonestInv
  <2>2. InitiatorHello(k) => LinkWaits(k)'
    BY <2>1, InitiatorHelloWaits
  <2>3. \A p \in Path : InitiatorDeletion(k, p) => LinkWaits(k)'
    BY <2>1, InitiatorDeletionWaits
  <2>4. \A p \in Path : RequestFile(k, p) => LinkWaits(k)'
    BY <2>1, RequestFileWaits
  <2>5. \A q \in [Path -> Path] : FindRenames(k, q) => LinkWaits(k)'
    BY <2>1, FindRenamesWaits
  <2>6. \A m \in Path \X Path : InitiatorRename(k, m) => LinkWaits(k)'
    BY <2>1, InitiatorRenameWaits
  <2>7. ComputeNeeded(k) => LinkWaits(k)'
    BY <2>1, ComputeNeededWaits
  <2>8. ReceiveFile(k) => LinkWaits(k)'
    BY <2>1, ReceiveFileWaits
  <2>9. (\E old \in [Path -> Path] : FinishPull(k, old)) \/ (\E p \in Path : Push(k, p))
          \/ FinishPush(k) => LinkWaits(k)'
    BY <2>1, PushWaits
  <2>10. InitiatorJob(k) => LinkWaits(k)'
    BY <2>1, InitiatorJobWaits
  <2>11. Greet(k) => LinkWaits(k)'
    BY <2>1, GreetWaits
  <2>12. ListenerHello(k) => LinkWaits(k)'
    BY <2>1, ListenerHelloWaits
  <2>13. \A p \in Path : ListenerDeletion(k, p) => LinkWaits(k)'
    BY <2>1, ListenerDeletionWaits
  <2>14. BeginServing(k) => LinkWaits(k)'
    BY <2>1, BeginServingWaits
  <2>15. Serve(k) => LinkWaits(k)'
    BY <2>1, ServeWaits
  <2>16. ServeDone(k) \/ AcceptFile(k) \/ AcceptRename(k) \/ AcceptAck(k) => LinkWaits(k)'
    BY <2>1, AcceptWaits
  <2>17. ListenerJob(k) => LinkWaits(k)'
    BY <2>1, ListenerJobWaits
  <2>18. Drop(k) => LinkWaits(k)'
    <3>1. Drop(k) => /\ ini'[k] = IdleInitiator /\ lis'[k] = IdleListener
                     /\ up'[k] = <<>> /\ down'[k] = <<>>
      BY DEF Drop, WaitInv, HonestInv, TypeOK
    <3>2. IdleInitiator.pc = "idle" /\ IdleListener.pc = "idle"
      BY DEF IdleInitiator, IdleListener
    <3>3. QED BY <3>1, <3>2, IdleWaits
  <2>19. QED BY <1>2, <2>2, <2>3, <2>4, <2>5, <2>6, <2>7, <2>8, <2>9, <2>10, <2>11, <2>12,
                <2>13, <2>14, <2>15, <2>16, <2>17, <2>18 DEF Initiate, Listen
<1>3. QED BY <1>1, <1>2

\* The watcher changes no entry that is offered, nor one the initiator goes
\* by, but for the names of a rename under way.
LEMMA ObserveWaits ==
  ASSUME WaitInv, NEW n \in Node, NEW q \in Path, Observe(n, q), NEW k \in Link, ~Idle(k)
  PROVE  LinkWaits(k)'
<1>1. /\ TypeOK /\ ini[k] \in Initiator /\ k[1] \in Node /\ k[2] \in Node
      /\ TidyInitiator(k, ini[k]) /\ TidyListener(k, lis[k]) /\ FilesHonest
      /\ TurnInv(k) /\ StandsBy(k) /\ Follows(k) /\ PassInv(k)
  BY OpenLink DEF WaitInv, LinkWaits
<1>2. /\ ini' = ini /\ lis' = lis /\ up' = up /\ down' = down
      /\ index' = [index EXCEPT ![n][q] = Watched(n, q)]
  BY DEF Observe, wires
<1>3. \A i \in Node, p \in Path : i # n \/ p # q => index'[i][p] = index[i][p]
  BY <1>1, <1>2 DEF TypeOK, Index
<1>4. ~Honest(index[n][q], disk[n][q])
  BY <1>1, ObservedHonest DEF Observe, FilesHonest
<1>5. /\ \A r \in Index : Answers(k, r)' <=> Answers(k, r)
      /\ \A g \in Index : Says(k, g)' <=> Says(k, g)
      /\ \A p \in Path : Wants(k, p)' <=> Wants(k, p)
  BY <1>2 DEF Answers, Says, Wants
<1>6. StandsBy(k)'
  <2>1. CASE lis[k].pc = "accept"
    <3>1. ini[k].pc \in {"push", "idle"}
      BY <1>1, <2>1 DEF TurnInv, Turn
    <3>2. \A r \in Index : ~Answers(k, r)
      BY <1>1, <3>1, NoAnswers
    <3>3. QED BY <1>5, <3>2 DEF StandsBy
  <2>2. CASE lis[k].pc # "accept"
    <3>1. \A p \in Path : index'[k[2]][p] = index[k[2]][p]
      BY <1>1, <1>3, <1>4, <2>2 DEF TidyListener
    <3>2. QED BY <1>1, <1>2, <1>5, <3>1 DEF StandsBy
  <2>3. QED BY <2>1, <2>2
<1>7. Follows(k)'
  <2>1. \A p \in Path : \/ index'[k[1]][p] = index[k[1]][p]
                        \/ ini[k].pc = "rename" /\ p \in JobPaths(ini[k].jobs)
    BY <1>1, <1>3, <1>4 DEF TidyInitiator
  <2>2. QED BY <1>1, <1>2, <1>5, <2>1 DEF Follows
<1>8. PassInv(k)'
  BY <1>1, <1>2, <1>5 DEF PassInv
<1>9. TurnInv(k)'
  BY <1>1, <1>2 DEF TurnInv
<1>10. QED BY <1>6, <1>7, <1>8, <1>9 DEF LinkWaits

\* There are no sessions.
LEMMA WaitsInit == Init => WaitInv
<1> SUFFICES ASSUME Init, NEW k \in Link PROVE LinkWaits(k)
  BY HonestInit DEF WaitInv
<1>1. ini[k].pc = "idle" /\ lis[k].pc = "idle" /\ up[k] = <<>> /\ down[k] = <<>>
  BY DEF Init, IdleInitiator, IdleListener
<1>2. Items(<<>>) = {}
  BY ItemsOf
<1>3. TurnInv(k)
  BY <1>1, TurnIdle DEF TurnInv
<1>4. \A r \in Index : ~Answers(k, r)
  BY <1>1, <1>2 DEF Answers
<1>5. \A p \in Path : ~Wants(k, p)
  BY <1>1, <1>2 DEF Wants, Asks
<1>6. StandsBy(k) /\ Follows(k) /\ PassInv(k)
  BY <1>1, <1>4, <1>5 DEF StandsBy, Follows, PassInv
<1>7. QED BY <1>3, <1>6 DEF LinkWaits

\* Every step.
LEMMA WaitsNext ==
  ASSUME Calm, WaitInv, [Next]_vars
  PROVE  WaitInv'
<1>1. HonestInv /\ HonestInv' /\ TypeOK'
  <2>1. HonestInv
    BY DEF WaitInv
  <2>2. HonestInv'
    BY <2>1, HonestNext
  <2>3. QED BY <2>1, <2>2 DEF HonestInv
<1>2. SUFFICES ASSUME NEW l \in Link PROVE LinkWaits(l)'
  BY <1>1 DEF WaitInv
<1>3. LinkWaits(l)
  BY DEF WaitInv
<1>4. CASE UNCHANGED vars
  <2>1. index' = index /\ ini' = ini /\ lis' = lis /\ up' = up /\ down' = down
    BY <1>4 DEF vars
  <2>2. /\ \A r \in Index : Answers(l, r)' <=> Answers(l, r)
        /\ \A g \in Index : Says(l, g)' <=> Says(l, g)
        /\ \A p \in Path : Wants(l, p)' <=> Wants(l, p)
    BY <2>1 DEF Answers, Says, Wants
  <2>3. TurnInv(l)' /\ PassInv(l)'
    BY <1>3, <2>1, <2>2 DEF LinkWaits, TurnInv, PassInv
  <2>4. StandsBy(l)' /\ Follows(l)'
    BY <1>3, <2>1, <2>2 DEF LinkWaits, StandsBy, Follows
  <2>5. QED BY <2>3, <2>4 DEF LinkWaits
<1>5. ASSUME ini'[l] = ini[l], lis'[l] = lis[l], up'[l] = up[l], down'[l] = down[l], Idle(l)
      PROVE  LinkWaits(l)'
  BY <1>5, IdleWire, IdleWaits
<1>6. CASE Users
  <2>1. ini' = ini /\ lis' = lis /\ up' = up /\ down' = down /\ \A k \in Link : Idle(k)
    BY <1>6 DEF Users, UserWrite, UserDelete, UserMove, UserCopy, Edit, Calm, wires
  <2>2. QED BY <1>5, <2>1
<1>7. ASSUME NEW n \in Node, NEW q \in Path, Observe(n, q) PROVE LinkWaits(l)'
  <2>1. ini' = ini /\ lis' = lis /\ up' = up /\ down' = down
    BY <1>7 DEF Observe, wires
  <2>2. CASE Idle(l)
    BY <1>5, <2>1, <2>2
  <2>3. CASE ~Idle(l)
    BY <1>7, <2>3, ObserveWaits
  <2>4. QED BY <2>2, <2>3
<1>8. ASSUME NEW k \in Link, Initiate(k) \/ Listen(k) \/ Drop(k) PROVE LinkWaits(l)'
  <2>1. CASE l = k
    BY <1>1, <1>8, <2>1, LinkWaitsStep
  <2>2. CASE l # k
    <3>1. /\ Idle(l) /\ ini'[l] = ini[l] /\ lis'[l] = lis[l]
          /\ up'[l] = up[l] /\ down'[l] = down[l]
      BY <1>1, <1>8, <2>2, OthersHonest
    <3>2. QED BY <1>5, <3>1
  <2>3. QED BY <2>1, <2>2
<1>9. QED BY <1>4, <1>6, <1>7, <1>8 DEF Next

\* The two ends of a connection never wait for each other, though neither
\* read_message has a timeout and _serve_file sends no reply for a file that is
\* gone: what the initiator asks for, the listener still has. Its deletion pass
\* deletes only what the initiator has a newer tombstone of, and that the
\* initiator does not ask for. For any number of nodes and links, with renames,
\* either provider and strategy, and connections lost at any time.
THEOREM NoMutualWaitHolds ==
  ASSUME Calm
  PROVE  Spec => []NoMutualWait
<1>1. WaitInv => NoMutualWait
  <2> SUFFICES ASSUME WaitInv, NEW k \in Link, ini[k].pc = "wait", down[k] = <<>>
               PROVE  up[k] # <<>>
    BY DEF NoMutualWait
  <2>1. TurnInv(k)
    BY DEF WaitInv, LinkWaits
  <2>2. \E m \in Items(up[k]) : m.type = "GET_FILE"
    BY <2>1 DEF TurnInv, Turn
  <2>3. QED BY <2>2, ItemsOf
<1>2. WaitInv /\ [Next]_vars => WaitInv'
  BY WaitsNext
<1>3. QED BY <1>1, <1>2, WaitsInit, PTL DEF Spec

\* A request that is read is answered.
EveryRequestAnswered ==
    [][\A k \in Link : Serve(k) => down'[k] # <<>>]_vars

\* The listener never leaves a request unanswered, though _serve_file may:
\* the file it has offered is there when it is asked for.
THEOREM EveryRequestAnsweredHolds ==
  ASSUME Calm
  PROVE  Spec => EveryRequestAnswered
<1>1. ASSUME WaitInv, [Next]_vars, NEW k \in Link, Serve(k) PROVE down'[k] # <<>>
  <2>1. /\ TypeOK /\ up[k] \in Seq(Message) /\ down[k] \in Seq(Message) /\ k[2] \in Node
    BY <1>1, Ends DEF WaitInv, HonestInv, TypeOK
  <2>2. lis[k].pc = "serve" /\ up[k] # <<>> /\ Head(up[k]).type = "GET_FILE"
    BY <1>1 DEF Serve, Got
  <2>3. PICK g \in Message : g = Head(up[k]) /\ g \in Items(up[k])
    BY <2>1, <2>2, TailWire
  <2>4. PICK q \in Path : q = g.path
    BY <2>2, <2>3, MessageFields
  <2>5. Live(index[k[2]][q]) /\ Exists(disk[k[2]][q])
    <3>1. Asks(up[k], q)
      BY <2>2, <2>3, <2>4 DEF Asks
    <3>2. QED BY <1>1, <2>2, <3>1, ServeReplies
  <2>6. PICK e \in Entry : e = index[k[2]][q]
    BY <2>1 DEF TypeOK, Index
  <2>7. PICK m \in Message : m = [type |-> "FILE_DATA", path |-> q, entry |-> e,
                                  content |-> disk[k[2]][q].sum]
    <3>1. disk[k[2]][q].sum \in Nat
      BY <2>1 DEF TypeOK, File
    <3>2. QED BY <3>1 DEF Message
  <2>8. down'[k] = Append(down[k], m)
    BY <1>1, <2>1, <2>3, <2>4, <2>5, <2>6, <2>7 DEF Serve, Send, TypeOK
  <2>9. QED BY <2>1, <2>8, AppendWire
<1>2. WaitInv /\ [Next]_vars => \A k \in Link : Serve(k) => down'[k] # <<>>
  BY <1>1
<1>3. WaitInv /\ [Next]_vars => WaitInv'
  BY WaitsNext
<1>4. QED BY <1>2, <1>3, WaitsInit, PTL DEF Spec, EveryRequestAnswered
=============================================================================
