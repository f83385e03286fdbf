--------------------------- MODULE StreamTransfer ---------------------------
(***************************************************************************)
(* The transfer of files over a connection, byte by byte (protocol.py:     *)
(* send_file_data, recv_stream_to_disk, read_message) as the pull and the  *)
(* push phase of a session and _apply_incoming_stream use it.              *)
(*                                                                         *)
(* Each link carries files from a node of its own to the one receiver.  A  *)
(* connection is a sequence of units: a message is two, so that it can be  *)
(* cut in half, a chunk of a file is one.  The receiver has none of the    *)
(* files at first; that a pushed file may be rejected is an oracle here    *)
(* (SyncEngine has the decision).                                          *)
(***************************************************************************)
EXTENDS Integers, Sequences, FiniteSetsExt

CONSTANTS
    Link,
    Pull,               \* the links whose receiver asks for each file
    Path,
    Files,              \* what is to be sent over each link, in order
    Size,               \* the size of each path
    MaxSize,            \* of an edited file
    Threshold,          \* STREAM_THRESHOLD
    Buffer,             \* what a connection holds before drain() waits
    MaxFaults,          \* how often the environment interferes
    Env                 \* what may happen, see EnvKinds

EnvKinds ==
    {"edit",            \* a file is rewritten in place while it is sent
     "gone",            \* or removed
     "cut",             \* a connection is lost
     "busy",            \* the temporary file cannot be renamed
     "full",            \* a write at the receiver raises
     "crash",           \* the receiver ends
     "reject"}          \* the receiver does not want a pushed file

ASSUME LinkAssumption ==
    /\ Pull \subseteq Link
    /\ Files \in [Link -> Seq(Path) \ {<<>>}]
    /\ \A l \in Link : \A j, k \in DOMAIN Files[l] : Files[l][j] = Files[l][k] => j = k
ASSUME SizeAssumption ==
    /\ MaxSize \in Nat \ {0} /\ Size \in [Path -> 1..MaxSize]
    /\ Threshold \in Nat \ {0} /\ Buffer \in Nat \ {0} /\ MaxFaults \in Nat
    /\ Env \subseteq EnvKinds

VARIABLES
    source,             \* the files at the sender of each link
    tx,                 \* the sender
    wire,               \* what is on its way
    up,                 \* the sender has not closed, the connection is not lost
    asked,              \* how many GET_FILE have been sent
    rx,                 \* the receiver's end of each link
    inode,              \* contents of the receiver's files
    file,               \* path -> inode
    tmp,                \* path.synak.tmp -> inode
    held,               \* the message that is being written to disk
    entry,              \* path -> the link whose entry is recorded
    faults,
    changed,            \* files that changed or went before they were sent whole
    slipped,            \* links on which another size came than announced
    met,                \* paths of which two receptions have met
    broken              \* files whose writing in place was broken off

sending == <<source, tx, asked>>
disk == <<inode, file, tmp, held, broken>>
vars == <<sending, wire, up, rx, disk, entry, faults, changed, slipped, met>>

Id == Link \X Path      \* a file's inode is named by the reception that made it
None == <<>>

Unit == [t : {"data", "stream", "ack", "rest", "byte"}, by : Link,
         n : Nat, edit : 0..MaxFaults, size : 0..MaxSize, k : Nat]

Last(l) == Len(Files[l])

TypeOK ==
    /\ source \in [Link -> [Path -> [edit : 0..MaxFaults, size : 0..MaxSize,
                                     there : BOOLEAN]]]
    /\ \A l \in Link :
        /\ tx[l].pc \in {"next", "open", "send", "closed"}
        /\ tx[l].n \in 1..(Last(l) + 1) /\ tx[l].size \in 0..MaxSize
        /\ tx[l].k \in 0..MaxSize
        /\ wire[l] \in Seq(Unit)
        /\ asked[l] \in 0..Last(l)
        /\ rx[l].pc \in {"ask", "msg", "body", "drain", "write", "record", "end"}
        /\ rx[l].path \in Path /\ rx[l].at \in Id \cup {None}
        /\ rx[l].left \in 0..MaxSize /\ rx[l].k \in 0..MaxSize
        /\ rx[l].pc \in {"body", "write"} => rx[l].at # None
        /\ rx[l].pc = "write" => held[l] # None
    /\ up \in [Link -> BOOLEAN]
    /\ inode \in [Id -> Seq(Unit)]
    /\ file \in [Path -> Id \cup {None}] /\ tmp \in [Path -> Id \cup {None}]
    /\ \A l \in Link : held[l] \in Unit \cup {None}
    /\ \A p \in Path : entry[p] \in Link \cup {None}
    /\ faults \in 0..MaxFaults
    /\ changed \subseteq Link \X Path /\ slipped \subseteq Link
    /\ met \subseteq Path /\ broken \subseteq Path

\* A variant: the answer is awaited before the request.
ReadyAtOnce(l) == "msg"

\* Before the next message a pull asks.
Ready(l) == IF l \in Pull THEN "ask" ELSE "msg"

Waiting(l, pc) ==
    [pc |-> pc, path |-> Files[l][1], at |-> None, left |-> 0, k |-> 0]

Init ==
    /\ source = [l \in Link |-> [p \in Path |->
                    [edit |-> 0, size |-> Size[p], there |-> TRUE]]]
    /\ tx = [l \in Link |-> [pc |-> "next", n |-> 1, size |-> 0, k |-> 0]]
    /\ wire = [l \in Link |-> <<>>]
    /\ up = [l \in Link |-> TRUE]
    /\ asked = [l \in Link |-> 0]
    /\ rx = [l \in Link |-> Waiting(l, Ready(l))]
    /\ inode = [i \in Id |-> <<>>]
    /\ file = [p \in Path |-> None] /\ tmp = [p \in Path |-> None]
    /\ held = [l \in Link |-> None]
    /\ entry = [p \in Path |-> None]
    /\ faults = 0 /\ changed = {} /\ slipped = {} /\ met = {} /\ broken = {}

-----------------------------------------------------------------------------
(* The sender: _serve_file, and the loop of the push phase                 *)

Rest(l) == [t |-> "rest", by |-> l, n |-> 0, edit |-> 0, size |-> 0, k |-> 0]
Message(l, t, n, f) ==
    <<[t |-> t, by |-> l, n |-> n, edit |-> f.edit, size |-> f.size, k |-> 0], Rest(l)>>
Byte(l, n, f, k) ==
    [t |-> "byte", by |-> l, n |-> n, edit |-> f.edit, size |-> f.size, k |-> k]

Now(l) == source[l][Files[l][tx[l].n]]

Sent(l) == tx' = [tx EXCEPT ![l] = [pc |-> "next", n |-> @.n + 1, size |-> 0, k |-> 0]]

\* os.path.getsize, then the whole file in one message or the header of a
\* stream.  Of a file that has gone nothing is sent: nobody who asked for it
\* gets an answer.
Announce(l) ==
    /\ up[l] /\ tx[l].pc = "next" /\ tx[l].n <= Last(l) /\ Len(wire[l]) < Buffer
    /\ l \in Pull => asked[l] >= tx[l].n
    /\ LET f == Now(l) IN
       \/ /\ ~f.there
          /\ Sent(l)
          /\ slipped' = IF l \in Pull THEN slipped \cup {l} ELSE slipped
          /\ UNCHANGED wire
       \/ /\ f.there /\ f.size < Threshold
          /\ Sent(l)
          /\ wire' = [wire EXCEPT ![l] = @ \o Message(l, "data", tx[l].n, f)]
          /\ UNCHANGED slipped
       \/ /\ f.there /\ f.size >= Threshold
          /\ tx' = [tx EXCEPT ![l].pc = "open", ![l].size = f.size, ![l].k = 0]
          /\ wire' = [wire EXCEPT ![l] = @ \o Message(l, "stream", tx[l].n, f)]
          /\ UNCHANGED slipped
    /\ UNCHANGED <<source, asked, up, rx, disk, entry, faults, changed, met>>

\* The header is out.  If the file has gone _serve_file returns, and a push
\* ends the session.
Open(l) ==
    /\ up[l] /\ tx[l].pc = "open"
    /\ IF Now(l).there
       THEN tx' = [tx EXCEPT ![l].pc = "send"] /\ UNCHANGED <<slipped, changed, up>>
       ELSE /\ slipped' = slipped \cup {l}
            /\ changed' = changed \cup {<<l, Files[l][tx[l].n]>>}
            /\ IF l \in Pull THEN Sent(l) /\ UNCHANGED up
               ELSE tx' = [tx EXCEPT ![l].pc = "closed"] /\ up' = [up EXCEPT ![l] = FALSE]
    /\ UNCHANGED <<source, asked, wire, rx, disk, entry, faults, met>>

\* Chunk by chunk to the end of the file, wherever that is by now.
Chunk(l) ==
    /\ up[l] /\ tx[l].pc = "send" /\ Len(wire[l]) < Buffer
    /\ IF tx[l].k < Now(l).size
       THEN /\ tx' = [tx EXCEPT ![l].k = @ + 1]
            /\ wire' = [wire EXCEPT ![l] = Append(@, Byte(l, tx[l].n, Now(l), tx[l].k + 1))]
            /\ slipped' = IF tx[l].k >= tx[l].size THEN slipped \cup {l} ELSE slipped
       ELSE /\ Sent(l)
            /\ slipped' = IF tx[l].k # tx[l].size THEN slipped \cup {l} ELSE slipped
            /\ UNCHANGED wire
    /\ UNCHANGED <<source, asked, up, rx, disk, entry, faults, changed, met>>

\* The end of the session: ACK after a push, the receiver's end after a pull.
Close(l) ==
    /\ up[l] /\ tx[l].pc = "next"
    /\ IF l \in Pull THEN rx[l].pc = "end" /\ UNCHANGED wire
       ELSE /\ tx[l].n > Last(l)
            /\ wire' = [wire EXCEPT ![l] = @ \o Message(l, "ack", 0, [edit |-> 0, size |-> 0])]
    /\ up' = [up EXCEPT ![l] = FALSE]
    /\ tx' = [tx EXCEPT ![l].pc = "closed"]
    /\ UNCHANGED <<source, asked, rx, disk, entry, faults, changed, slipped, met>>

-----------------------------------------------------------------------------
(* The receiver                                                            *)

Go(l, pc) == rx' = [rx EXCEPT ![l] = Waiting(l, pc)]
Finish(l) == Go(l, "end")
Consume(l, n) == wire' = [wire EXCEPT ![l] = SubSeq(@, n + 1, Len(@))]

\* A variant: the end of the list is overrun.
AskOn(l) ==
    /\ rx[l].pc = "ask"
    /\ Go(l, "msg")
    /\ asked' = [asked EXCEPT ![l] = @ + 1]
    /\ UNCHANGED <<source, tx, wire, up, disk, entry, faults, changed, slipped, met>>

\* The next GET_FILE, or SYNC_DONE.
Ask(l) ==
    /\ rx[l].pc = "ask"
    /\ IF asked[l] = Last(l) THEN Finish(l) /\ UNCHANGED asked
       ELSE Go(l, "msg") /\ asked' = [asked EXCEPT ![l] = @ + 1]
    /\ UNCHANGED <<source, tx, wire, up, disk, entry, faults, changed, slipped, met>>

Active(p) == {l \in Link : rx[l].path = p /\ rx[l].pc \in {"body", "write", "record"}}
Writing(p) == \E l \in Link : rx[l].path = p /\ rx[l].pc = "write"
Meets(p) == met' = IF Active(p) = {} THEN met ELSE met \cup {p}

IsMessage(l) == Len(wire[l]) >= 2 /\ wire[l][1].t \in {"data", "stream", "ack"}
Named(l) == Files[l][wire[l][1].n]

\* A variant: the stream is written under the file's own name.
OpenInPlace(l, p, left) ==
    LET i == IF file[p] = None THEN <<l, p>> ELSE file[p] IN
    /\ file' = [file EXCEPT ![p] = i]
    /\ inode' = [inode EXCEPT ![i] = <<>>]
    /\ rx' = [rx EXCEPT ![l] = [@ EXCEPT !.pc = "body", !.path = p, !.at = i,
                                          !.left = left, !.k = 0]]
    /\ UNCHANGED <<tmp, held, broken>>

\* Where a stream is written: a temporary file there is already is truncated.
OpenTmp(l, p, left) ==
    LET i == IF tmp[p] = None THEN <<l, p>> ELSE tmp[p] IN
    /\ tmp' = [tmp EXCEPT ![p] = i]
    /\ inode' = [inode EXCEPT ![i] = <<>>]
    /\ rx' = [rx EXCEPT ![l] = [@ EXCEPT !.pc = "body", !.path = p, !.at = i,
                                          !.left = left, !.k = 0]]
    /\ UNCHANGED <<file, held, broken>>

ReadStream(l) ==
    /\ rx[l].pc = "msg" /\ IsMessage(l) /\ wire[l][1].t = "stream"
    /\ Consume(l, 2)
    /\ OpenTmp(l, Named(l), wire[l][1].size)
    /\ Meets(Named(l))
    /\ UNCHANGED <<sending, up, entry, faults, changed, slipped>>

\* A variant: its bytes are left in the connection.
RejectStreamFlat(l) ==
    /\ "reject" \in Env /\ l \notin Pull
    /\ rx[l].pc = "msg" /\ IsMessage(l) /\ wire[l][1].t = "stream"
    /\ Consume(l, 2)
    /\ Go(l, Ready(l))
    /\ UNCHANGED <<sending, up, disk, entry, faults, changed, slipped, met>>

\* A rejected stream is drained.
RejectStream(l) ==
    /\ "reject" \in Env /\ l \notin Pull
    /\ rx[l].pc = "msg" /\ IsMessage(l) /\ wire[l][1].t = "stream"
    /\ Consume(l, 2)
    /\ rx' = [rx EXCEPT ![l].pc = "drain", ![l].left = wire[l][1].size]
    /\ UNCHANGED <<sending, up, disk, entry, faults, changed, slipped, met>>

\* apply_remote with the content, which is in the message: the file is
\* truncated under its own name.
ReadData(l) ==
    /\ rx[l].pc = "msg" /\ IsMessage(l) /\ wire[l][1].t = "data"
    /\ LET p == Named(l)  i == IF file[p] = None THEN <<l, p>> ELSE file[p] IN
       /\ file' = [file EXCEPT ![p] = i]
       /\ inode' = [inode EXCEPT ![i] = <<>>]
       /\ rx' = [rx EXCEPT ![l] = [@ EXCEPT !.pc = "write", !.path = p, !.at = i, !.k = 0]]
       /\ Meets(p)
    /\ held' = [held EXCEPT ![l] = wire[l][1]]
    /\ Consume(l, 2)
    /\ UNCHANGED <<sending, up, tmp, broken, entry, faults, changed, slipped>>

RejectData(l) ==
    /\ "reject" \in Env /\ l \notin Pull
    /\ rx[l].pc = "msg" /\ IsMessage(l) /\ wire[l][1].t = "data"
    /\ Consume(l, 2)
    /\ Go(l, Ready(l))
    /\ UNCHANGED <<sending, up, disk, entry, faults, changed, slipped, met>>

ReadAck(l) ==
    /\ rx[l].pc = "msg" /\ IsMessage(l) /\ wire[l][1].t = "ack"
    /\ Consume(l, 2)
    /\ Finish(l)
    /\ UNCHANGED <<sending, up, disk, entry, faults, changed, slipped, met>>

\* A line that is no message: the listener takes it for the end of the session,
\* the initiator goes on with its next file.  A line goes to the end of a message
\* at most, but any chunk may end one.
ReadJunk(l) ==
    /\ rx[l].pc = "msg" /\ wire[l] # <<>> /\ wire[l][1].t \in {"rest", "byte"}
    /\ \E n \in 1..Len(wire[l]) :
        /\ \A k \in 1..(n - 1) : wire[l][k].t # "rest"
        /\ Consume(l, n)
    /\ IF l \in Pull THEN Go(l, Ready(l)) ELSE Finish(l)
    /\ UNCHANGED <<sending, up, disk, entry, faults, changed, slipped, met>>

\* The end of the connection, also in the middle of a message.
ReadEnd(l) ==
    /\ rx[l].pc = "msg" /\ ~up[l] /\ Len(wire[l]) < 2
    /\ wire[l] # <<>> => wire[l][1].t \in {"data", "stream", "ack"}
    /\ Finish(l)
    /\ UNCHANGED <<sending, wire, up, disk, entry, faults, changed, slipped, met>>

\* u is written next, at the writer's place in its file.
Put(l, u) ==
    inode' = [inode EXCEPT ![rx[l].at] =
                 [k \in 1..Max({Len(@), rx[l].k + 1}) |->
                     IF k = rx[l].k + 1 THEN u
                     ELSE IF k <= Len(@) THEN @[k] ELSE Rest(l)]]

Body(l) ==
    /\ rx[l].pc = "body" /\ rx[l].left > 0 /\ wire[l] # <<>>
    /\ Consume(l, 1)
    /\ Put(l, Head(wire[l]))
    /\ rx' = [rx EXCEPT ![l].left = @ - 1, ![l].k = @ + 1]
    /\ UNCHANGED <<sending, up, file, tmp, held, broken, entry, faults, changed, slipped, met>>

\* The worker thread writes the content of the message, part by part.
Write(l) ==
    /\ rx[l].pc = "write" /\ rx[l].k < held[l].size
    /\ Put(l, [held[l] EXCEPT !.t = "byte", !.k = rx[l].k + 1])
    /\ rx' = [rx EXCEPT ![l].k = @ + 1]
    /\ UNCHANGED <<sending, wire, up, file, tmp, held, broken>>
    /\ UNCHANGED <<entry, faults, changed, slipped, met>>

Written(l) ==
    /\ rx[l].pc = "write" /\ rx[l].k = held[l].size
    /\ rx' = [rx EXCEPT ![l].pc = "record"]
    /\ broken' = broken \ {rx[l].path}
    /\ UNCHANGED <<sending, wire, up, inode, file, tmp, held>>
    /\ UNCHANGED <<entry, faults, changed, slipped, met>>

\* A write raises: the session ends, a temporary file stays, and so does what
\* has been written of a file in place.
DiskFull(l) ==
    /\ "full" \in Env /\ faults < MaxFaults
    /\ \/ rx[l].pc = "body" /\ rx[l].left > 0 /\ UNCHANGED broken
       \/ /\ rx[l].pc = "write" /\ rx[l].k < held[l].size
          /\ broken' = broken \cup {rx[l].path}
    /\ Finish(l)
    /\ faults' = faults + 1
    /\ UNCHANGED <<sending, wire, up, inode, file, tmp, held, entry, changed, slipped, met>>

Drain(l) ==
    /\ rx[l].pc = "drain" /\ wire[l] # <<>>
    /\ Consume(l, 1)
    /\ IF rx[l].left = 1 THEN Go(l, Ready(l)) ELSE rx' = [rx EXCEPT ![l].left = @ - 1]
    /\ UNCHANGED <<sending, up, disk, entry, faults, changed, slipped, met>>

\* IncompleteReadError: the temporary file stays.
BodyEnds(l) ==
    /\ rx[l].pc \in {"body", "drain"} /\ rx[l].left > 0 /\ wire[l] = <<>> /\ ~up[l]
    /\ Finish(l)
    /\ UNCHANGED <<sending, wire, up, disk, entry, faults, changed, slipped, met>>

\* os.replace, of whatever is under the temporary name.
Replace(l) ==
    /\ rx[l].pc = "body" /\ rx[l].left = 0
    /\ LET p == rx[l].path IN
       IF tmp[p] = None THEN Finish(l) /\ UNCHANGED <<file, tmp, broken>>
       ELSE /\ file' = [file EXCEPT ![p] = tmp[p]]
            /\ tmp' = [tmp EXCEPT ![p] = None]
            /\ rx' = [rx EXCEPT ![l].pc = "record"]
            /\ broken' = broken \ {p}
    /\ UNCHANGED <<sending, wire, up, inode, held, entry, faults, changed, slipped, met>>

\* A variant: the error is swallowed.
ReplaceGivesUp(l) ==
    /\ "busy" \in Env /\ faults < MaxFaults
    /\ rx[l].pc = "body" /\ rx[l].left = 0
    /\ rx' = [rx EXCEPT ![l].pc = "record"]
    /\ faults' = faults + 1
    /\ UNCHANGED <<sending, wire, up, disk, entry, changed, slipped, met>>

\* PermissionError until the deadline.
ReplaceFails(l) ==
    /\ "busy" \in Env /\ faults < MaxFaults
    /\ rx[l].pc = "body" /\ rx[l].left = 0
    /\ Finish(l)
    /\ faults' = faults + 1
    /\ UNCHANGED <<sending, wire, up, disk, entry, changed, slipped, met>>

\* apply_remote records the entry that came with the file.
Record(l) ==
    /\ rx[l].pc = "record"
    /\ entry' = [entry EXCEPT ![rx[l].path] = l]
    /\ Go(l, Ready(l))
    /\ UNCHANGED <<sending, wire, up, disk, faults, changed, slipped, met>>

-----------------------------------------------------------------------------
(* The environment                                                         *)

\* Only the file the sender is at: an earlier change has the same effect.
AtWork(l, p) == up[l] /\ tx[l].n <= Last(l) /\ Files[l][tx[l].n] = p

Edit(l, p) ==
    /\ "edit" \in Env /\ faults < MaxFaults /\ AtWork(l, p) /\ source[l][p].there
    /\ \E s \in 0..MaxSize :
          source' = [source EXCEPT ![l][p] = [@ EXCEPT !.edit = faults + 1, !.size = s]]
    /\ faults' = faults + 1
    /\ changed' = changed \cup {<<l, p>>}
    /\ UNCHANGED <<tx, asked, wire, up, rx, disk, entry, slipped, met>>

Remove(l, p) ==
    /\ "gone" \in Env /\ faults < MaxFaults /\ AtWork(l, p) /\ source[l][p].there
    /\ source' = [source EXCEPT ![l][p].there = FALSE]
    /\ faults' = faults + 1
    /\ UNCHANGED <<tx, asked, wire, up, rx, disk, entry, changed, slipped, met>>

Cut(l) ==
    /\ "cut" \in Env /\ up[l] /\ faults < MaxFaults
    /\ faults' = faults + 1
    /\ up' = [up EXCEPT ![l] = FALSE]
    /\ tx' = [tx EXCEPT ![l].pc = "closed"]
    /\ \E n \in 0..Len(wire[l]) : wire' = [wire EXCEPT ![l] = SubSeq(@, 1, n)]
    /\ UNCHANGED <<source, asked, rx, disk, entry, changed, slipped, met>>

\* The receiver's process ends.  Its files stay as they are at this moment,
\* its index in memory is gone.
Crash ==
    /\ "crash" \in Env /\ faults < MaxFaults
    /\ \E l \in Link : rx[l].pc # "end"
    /\ faults' = faults + 1
    /\ rx' = [l \in Link |-> Waiting(l, "end")]
    /\ up' = [l \in Link |-> FALSE]
    /\ tx' = [l \in Link |-> [tx[l] EXCEPT !.pc = "closed"]]
    /\ entry' = [p \in Path |-> None]
    /\ broken' = broken \cup {p \in Path : Writing(p)}
    /\ UNCHANGED <<source, asked, wire, inode, file, tmp, held, changed, slipped, met>>

-----------------------------------------------------------------------------
Sender(l) == Announce(l) \/ Open(l) \/ Chunk(l) \/ Close(l)

Reply(l) == ReadStream(l) \/ RejectStream(l) \/ ReadData(l) \/ RejectData(l) \/ ReadAck(l)

Receiver(l) ==
    \/ Ask(l) \/ Reply(l) \/ ReadJunk(l) \/ ReadEnd(l)
    \/ Body(l) \/ Write(l) \/ Written(l) \/ DiskFull(l) \/ Drain(l) \/ BodyEnds(l)
    \/ Replace(l) \/ ReplaceFails(l) \/ Record(l)

Next ==
    \/ \E l \in Link : Sender(l) \/ Receiver(l) \/ Cut(l)
    \/ \E l \in Link, p \in Path : Edit(l, p) \/ Remove(l, p)
    \/ Crash

Spec == Init /\ [][Next]_vars

\* Both ends of a connection go on when they can.
FairSpec == Spec /\ \A l \in Link : WF_vars(Sender(l)) /\ WF_vars(Receiver(l))

-----------------------------------------------------------------------------
(* Properties                                                              *)

Whole(s) ==
    s # <<>> /\ s = [k \in 1..s[1].size |-> [s[1] EXCEPT !.t = "byte", !.k = k]]

\* p may be torn: it came in one message, is written in place, and is being
\* written, or the disk was full or the process ended while it was.
Exposed(p) == Size[p] < Threshold /\ (p \in broken \/ Writing(p))

\* A streamed file is at any moment a whole version of itself, and a smaller one
\* whenever it is not being written and its writing was not broken off, whatever
\* happens to the other files of the session, to the connection, to the disk,
\* to the renaming and to the process: only a change of this very file while
\* it was sent, or two receptions of it at once, can damage it
\* (recv_stream_to_disk, "renames atomically", protocol.py; apply_remote writes
\* what came in one message under the file's own name, file_index.py).
DamageStaysLocal ==
    \A p \in Path :
        /\ file[p] # None /\ ~Exposed(p)
        /\ p \notin met /\ \A l \in Link : <<l, p>> \notin changed
        => Whole(inode[file[p]])

\* With the same exceptions the entry recorded last is that of the file on disk
\* (apply_remote after recv_stream_to_disk, and with the content).
EntryOfFile ==
    \A p \in Path :
        /\ entry[p] # None /\ Active(p) = {} /\ ~Exposed(p)
        /\ p \notin met /\ \A l \in Link : <<l, p>> \notin changed
        => file[p] # None /\ inode[file[p]][1].by = entry[p]

\* A reader that awaits a message finds one, accepted and rejected streams
\* alike, unless a file was sent at another size than announced
\* ("drained from the socket to keep protocol state valid", _common.py).
InFrame ==
    \A l \in Link :
        rx[l].pc = "msg" /\ wire[l] # <<>> /\ l \notin slipped
            => wire[l][1].t \in {"data", "stream", "ack"}

\* The receiver comes to the end of every session, in a push even if sizes do
\* not agree; a pull that is promised more than is sent, or asks for a file that
\* has gone, waits for ever (read_message and readexactly have no timeout).
SessionEnds ==
    \A l \in Link : <>(rx[l].pc = "end" \/ (l \in Pull /\ l \in slipped))
=============================================================================
