----------------------------- MODULE SyncSession -----------------------------
(***************************************************************************)
(* Sync sessions between nodes: the HELLO exchange, the deletion and       *)
(* rename passes, the pull and the push of the p2p provider                *)
(* (syncd/sync/providers/p2p.py) and of the client-server provider         *)
(* (client_server.py), over the helpers of _common.py, with the users who  *)
(* edit the files and the watchers that index the edits meanwhile.         *)
(*                                                                         *)
(* A link is a pair <<initiator, listener>>.  The p2p provider has one in  *)
(* each direction, the client-server provider one from client to server.   *)
(* An action is what a coroutine does between two awaits; a file applied   *)
(* by asyncio.to_thread is a job of its own, run at any later time.        *)
(*                                                                         *)
(* `now` advances with every edit, and an edit at time t writes the        *)
(* content t.  Files applied by the daemon get a modification time within  *)
(* the tick of the last edit, see Stamp.                                   *)
(***************************************************************************)
EXTENDS SyncEngine, Sequences

CONSTANTS
    Link,               \* the pairs <<initiator, listener>>
    GreetFirst,         \* the listener sends its HELLO before it reads one
    Strategy,           \* conflict_strategy
    SyncDeletes,        \* sync_deletes
    Env,                \* what users and the network do, see EnvKinds
    MaxTime             \* bound on the number of edits and lost connections

EnvKinds ==
    {"write", "delete", \* users write and delete files
     "move", "copy",    \* users rename and copy files
     "mid",             \* edits may fall into a session
     "lag",             \* a session may start before an edit is indexed
     "cross",           \* sessions of different links may overlap
     "drop"}            \* connections get lost

ASSUME LinkAssumption ==
    /\ Link \subseteq Node \X Node
    /\ \A k \in Link : k[1] # k[2]
ASSUME ModeAssumption ==
    /\ GreetFirst \in BOOLEAN /\ SyncDeletes \in BOOLEAN
    /\ Strategy \in {"keep-both", "last-write-wins"}
    /\ Env \subseteq EnvKinds /\ MaxTime \in Nat

VARIABLES
    now,                \* the time of the last edit
    disk,               \* node -> path -> file
    index,              \* node -> FileIndex._entries
    copies,             \* node -> path -> content of its conflict copy
    pending,            \* node -> _pending_deletes
    retired,            \* contents a user has overwritten or deleted (history)
    ini,                \* link -> the initiator's coroutine
    lis,                \* link -> the listener's coroutine
    up, down            \* link -> the two directions of the connection

vars == <<now, disk, index, copies, pending, retired, ini, lis, up, down>>
files == <<now, disk, index, copies, pending, retired>>
wires == <<up, down>>

Job == [path : Path, entry : Entry, content : Nat]

Initiator ==
    [pc : {"idle", "hello", "delete", "rename", "pull", "wait", "push"},
     remote : Index, snap : Index, todo : SUBSET Path,
     moves : SUBSET (Path \X Path), jobs : Seq(Job)]

Listener ==
    [pc : {"idle", "hello", "delete", "serve", "accept"},
     remote : Index, todo : SUBSET Path, jobs : Seq(Job)]

Message ==
         [type : {"HELLO"}, index : Index]
    \cup [type : {"GET_FILE"}, path : Path]
    \cup [type : {"FILE_DATA"}, path : Path, entry : Entry, content : Nat]
    \cup [type : {"RENAME_FILE"}, from : Path, path : Path, entry : Entry]
    \cup [type : {"SYNC_DONE", "ACK"}]

TypeOK ==
    /\ now \in Nat
    /\ disk \in [Node -> [Path -> File]]
    /\ index \in [Node -> Index]
    /\ copies \in [Node -> [Path -> Nat]]
    /\ pending \in [Node -> SUBSET Path]
    /\ retired \subseteq Nat
    /\ ini \in [Link -> Initiator]
    /\ lis \in [Link -> Listener]
    /\ up \in [Link -> Seq(Message)] /\ down \in [Link -> Seq(Message)]

IdleInitiator ==
    [pc |-> "idle", remote |-> EmptyIndex, snap |-> EmptyIndex, todo |-> {},
     moves |-> {}, jobs |-> <<>>]
IdleListener ==
    [pc |-> "idle", remote |-> EmptyIndex, todo |-> {}, jobs |-> <<>>]

Init ==
    /\ now = 0
    /\ disk = [n \in Node |-> [p \in Path |-> Absent]]
    /\ index = [n \in Node |-> EmptyIndex]
    /\ copies = [n \in Node |-> [p \in Path |-> NoSum]]
    /\ pending = [n \in Node |-> {}]
    /\ retired = {}
    /\ ini = [k \in Link |-> IdleInitiator]
    /\ lis = [k \in Link |-> IdleListener]
    /\ up = [k \in Link |-> <<>>] /\ down = [k \in Link |-> <<>>]

Idle(k) == ini[k].pc = "idle" /\ lis[k].pc = "idle" /\ up[k] = <<>>

-----------------------------------------------------------------------------
(* Users and watchers                                                      *)

\* The modification time of content c written at time t: ordered by t, and
\* different for different contents.
Stamp(t, c) == t * (MaxTime + 1) + c

Put(n, p, f) == disk' = [disk EXCEPT ![n][p] = f]

Edit(n) ==
    /\ now < MaxTime
    /\ "mid" \in Env \/ \A k \in Link : Idle(k)
    /\ now' = now + 1

Retire(n, p) ==
    retired' = IF Exists(disk[n][p]) THEN retired \cup {disk[n][p].sum} ELSE retired

UserWrite(n, p) ==
    /\ "write" \in Env /\ Edit(n)
    /\ Put(n, p, [sum |-> now + 1, mtime |-> Stamp(now + 1, now + 1)])
    /\ Retire(n, p)
    /\ UNCHANGED <<index, copies, pending, ini, lis, wires>>

UserDelete(n, p) ==
    /\ "delete" \in Env /\ Edit(n)
    /\ Exists(disk[n][p])
    /\ Put(n, p, Absent)
    /\ Retire(n, p)
    /\ UNCHANGED <<index, copies, pending, ini, lis, wires>>

\* The content and its modification time go to another name.
UserMove(n, p, q) ==
    /\ "move" \in Env /\ Edit(n)
    /\ p # q /\ Exists(disk[n][p])
    /\ disk' = [disk EXCEPT ![n][p] = Absent, ![n][q] = disk[n][p]]
    /\ Retire(n, q)
    /\ UNCHANGED <<index, copies, pending, ini, lis, wires>>

UserCopy(n, p, q) ==
    /\ "copy" \in Env /\ Edit(n)
    /\ p # q /\ Exists(disk[n][p])
    /\ Put(n, q, [sum |-> disk[n][p].sum,
                    mtime |-> Stamp(now + 1, disk[n][p].sum)])
    /\ Retire(n, q)
    /\ UNCHANGED <<index, copies, pending, ini, lis, wires>>

\* What the watcher of n makes of p (LocalIndex has the details).
Watched(n, p) ==
    MarkDeleted(ScanOne(index[n][p], disk[n][p], n), disk[n][p], n)

Observe(n, p) ==
    /\ Watched(n, p) # index[n][p]
    /\ index' = [index EXCEPT ![n][p] = Watched(n, p)]
    /\ UNCHANGED <<now, disk, copies, pending, retired, ini, lis, wires>>

Observed(n) == \A p \in Path : Watched(n, p) = index[n][p]

-----------------------------------------------------------------------------
(* Jobs of the worker threads                                              *)

Apply(p, e, c) == [path |-> p, entry |-> e, content |-> c]

\* apply_remote(entry, content); NoSum stands for no content.
Applied(n, j) ==
    /\ disk' = [disk EXCEPT ![n][j.path] =
                   IF ~Live(j.entry) THEN Absent
                   ELSE IF j.content = NoSum THEN @
                   ELSE [sum |-> j.content, mtime |-> Stamp(now, j.content)]]
    /\ index' = [index EXCEPT ![n][j.path] = RecordRemote(j.entry, disk'[n][j.path])]
    /\ UNCHANGED <<now, copies, pending, retired, wires>>

InitiatorJob(k) ==
    /\ ini[k].jobs # <<>>
    /\ Applied(k[1], Head(ini[k].jobs))
    /\ ini' = [ini EXCEPT ![k].jobs = Tail(@)]
    /\ UNCHANGED lis

ListenerJob(k) ==
    /\ lis[k].jobs # <<>>
    /\ Applied(k[2], Head(lis[k].jobs))
    /\ lis' = [lis EXCEPT ![k].jobs = Tail(@)]
    /\ UNCHANGED ini

At(c, label) == c.pc = label /\ c.jobs = <<>>

-----------------------------------------------------------------------------
(* Helpers both sides share (_common.py)                                   *)

Tombstones(remote) == IF SyncDeletes THEN {p \in Path : Dead(remote[p])} ELSE {}

\* (DeferredAgain is a variant that forgets to note a deletion.)
\* _apply_remote_deletions at one path: a confirmed deletion becomes a job, a
\* new one waits for the next session, anything else forgets the path.
Confirmed(n, remote, p) ==
    Superseded(index[n], remote, p) /\ p \in pending[n]

DeferredAgain(n, remote, p) ==
    IF Live(index[n][p]) THEN pending[n] ELSE pending[n] \ {p}

Deferred(n, remote, p) ==
    LET local == index[n][p] IN
    CASE ~Live(local)                          -> pending[n] \ {p}
      [] PathsOf(remote, local.sum) # {}       -> pending[n] \ {p}
      [] ~Superseded(index[n], remote, p)      -> pending[n]
      [] p \in pending[n]                      -> pending[n] \ {p}
      [] OTHER                                 -> pending[n] \cup {p}

Deletion(n, remote, p) ==
    IF Confirmed(n, remote, p) THEN <<Apply(p, remote[p], NoSum)>> ELSE <<>>

\* _apply_rename: the file is moved at once, over whatever is there, and the
\* two entries are recorded by the worker thread.
Renameable(n, from, e) == Exists(disk[n][from]) /\ index[n][from].sum = e.sum

RenameFile(n, from, to) ==
    disk' = [disk EXCEPT ![n][from] = Absent, ![n][to] = disk[n][from]]

RenameJobs(n, from, to, e) ==
    <<Apply(from, MakeTombstone(index[n][from], n), NoSum), Apply(to, e, NoSum)>>

\* resolve_keep_both makes its copy unless there is one.
CopyAside(n, P) ==
    copies' = [copies EXCEPT ![n] = [p \in Path |->
        IF p \in P /\ Exists(disk[n][p]) /\ @[p] = NoSum THEN disk[n][p].sum ELSE @[p]]]

KeptBoth(local, remote) ==
    /\ Strategy = "keep-both"
    /\ Reconcile(local, remote) = "conflict" /\ local.sum # remote.sum

Send(ch, k, m) == [ch EXCEPT ![k] = Append(@, m)]
Got(ch, k, type) == ch[k] # <<>> /\ Head(ch[k]).type = type

-----------------------------------------------------------------------------
(* The initiator                                                           *)

Hello(n) == [type |-> "HELLO", index |-> index[n]]

Connect(k) ==
    /\ Idle(k)
    /\ "lag" \in Env \/ (Observed(k[1]) /\ Observed(k[2]))
    /\ "cross" \in Env \/ \A l \in Link : Idle(l)
    /\ up' = Send(up, k, Hello(k[1]))
    /\ ini' = [ini EXCEPT ![k].pc = "hello"]
    /\ UNCHANGED <<files, lis, down>>

InitiatorHello(k) ==
    /\ ini[k].pc = "hello"
    /\ Got(down, k, "HELLO")
    /\ LET remote == Head(down[k]).index IN
       ini' = [ini EXCEPT ![k] = [@ EXCEPT !.pc = "delete", !.remote = remote,
                                           !.todo = Tombstones(remote)]]
    /\ down' = [down EXCEPT ![k] = Tail(@)]
    /\ UNCHANGED <<files, lis, up>>

InitiatorDeletion(k, p) ==
    /\ At(ini[k], "delete") /\ p \in ini[k].todo
    /\ pending' = [pending EXCEPT ![k[1]] = Deferred(k[1], ini[k].remote, p)]
    /\ ini' = [ini EXCEPT ![k].todo = @ \ {p},
                          ![k].jobs = Deletion(k[1], ini[k].remote, p)]
    /\ UNCHANGED <<now, disk, index, copies, retired, lis, wires>>

\* remote_live_by_checksum, as the remote path it gives for each local one:
\* of several paths with the same content the dict keeps one; a path whose
\* content the remote does not hold stays where it is.
Target(local, remote, to) ==
    \A p \in Path :
        LET same == PathsOf(remote, local[p].sum) IN
        /\ IF same = {} THEN to[p] = p ELSE to[p] \in same
        /\ \A q \in Path : same # {} /\ local[q].sum = local[p].sum => to[q] = to[p]

\* _apply_local_renames picks its moves: a live path that is a tombstone at
\* the remote, to the remote's path with the same content.

RemoteMoves(local, remote, to) ==
    {<<p, to[p]>> : p \in {q \in Path : /\ Live(local[q]) /\ Dead(remote[q])
                                        /\ PathsOf(remote, local[q].sum) # {}}}

FindRenames(k, to) ==
    /\ At(ini[k], "delete") /\ ini[k].todo = {}
    /\ Target(index[k[1]], ini[k].remote, to)
    /\ ini' = [ini EXCEPT ![k].pc = "rename",
                          ![k].moves = RemoteMoves(index[k[1]], ini[k].remote, to)]
    /\ UNCHANGED <<files, lis, wires>>

InitiatorRename(k, m) ==
    /\ At(ini[k], "rename") /\ m \in ini[k].moves
    /\ LET n == k[1]
           e == ini[k].remote[m[2]]
       IN  IF Renameable(n, m[1], e)
           THEN /\ RenameFile(n, m[1], m[2])
                /\ ini' = [ini EXCEPT ![k].moves = @ \ {m},
                                      ![k].jobs = RenameJobs(n, m[1], m[2], e)]
           ELSE /\ ini' = [ini EXCEPT ![k].moves = @ \ {m}]
                /\ UNCHANGED disk
    /\ UNCHANGED <<now, index, copies, pending, retired, lis, wires>>

\* _compute_needed, with the conflict copies it makes on the way.
ComputeNeeded(k) ==
    /\ At(ini[k], "rename") /\ ini[k].moves = {}
    /\ LET local  == index[k[1]]
           remote == ini[k].remote
       IN  /\ ini' = [ini EXCEPT ![k].pc = "pull", ![k].todo =
                        {p \in Path : Needed(Strategy, local, remote, {}, p)}]
           /\ CopyAside(k[1], {p \in Path : /\ Live(local[p]) /\ Live(remote[p])
                                            /\ KeptBoth(local[p], remote[p])})
    /\ UNCHANGED <<now, disk, index, pending, retired, lis, wires>>

RequestFile(k, p) ==
    /\ At(ini[k], "pull") /\ p \in ini[k].todo
    /\ up' = Send(up, k, [type |-> "GET_FILE", path |-> p])
    /\ ini' = [ini EXCEPT ![k].pc = "wait", ![k].todo = @ \ {p}]
    /\ UNCHANGED <<files, lis, down>>

\* The file is applied without looking at the local entry again.
ReceiveFile(k) ==
    /\ ini[k].pc = "wait"
    /\ Got(down, k, "FILE_DATA")
    /\ LET m == Head(down[k]) IN
       ini' = [ini EXCEPT ![k].pc = "pull",
                          ![k].jobs = <<Apply(m.path, m.entry, m.content)>>]
    /\ down' = [down EXCEPT ![k] = Tail(@)]
    /\ UNCHANGED <<files, lis, up>>

\* A path is pushed when the remote's HELLO had no live version of it or an
\* older one.
Behind(local, remote, p) ==
    /\ Live(local[p])
    /\ ~Live(remote[p]) \/ Reconcile(remote[p], local[p]) = "accept_remote"

\* The old names, tombstones here and alive at the remote, of what we hold.
LocalMoves(local, remote, old) ==
    {<<old[p], p>> : p \in {q \in Path : /\ Live(local[q])
                                         /\ PathsOf(remote, local[q].sum) # {}
                                         /\ old[q] # q /\ Dead(local[old[q]])}}

\* SYNC_DONE, and the push phase decides from the index of this moment.
FinishPull(k, old) ==
    /\ At(ini[k], "pull") /\ ini[k].todo = {}
    /\ Target(index[k[1]], ini[k].remote, old)
    /\ up' = Send(up, k, [type |-> "SYNC_DONE"])
    /\ LET local  == index[k[1]]
           remote == ini[k].remote
       IN  ini' = [ini EXCEPT ![k] =
                     [@ EXCEPT !.pc = "push", !.snap = local,
                               !.todo = {p \in Path : Behind(local, remote, p)},
                               !.moves = LocalMoves(local, remote, old)]]
    /\ UNCHANGED <<files, lis, down>>

Push(k, p) ==
    /\ ini[k].pc = "push" /\ p \in ini[k].todo
    /\ ini' = [ini EXCEPT ![k].todo = @ \ {p}]
    /\ LET e == ini[k].snap[p]
           f == disk[k[1]][p]
           from == {m \in ini[k].moves : m[2] = p}
       IN  \/ \E m \in from :
                up' = Send(up, k, [type |-> "RENAME_FILE", from |-> m[1],
                                   path |-> p, entry |-> e])
           \/ /\ from = {} /\ Exists(f)
              /\ up' = Send(up, k, [type |-> "FILE_DATA", path |-> p,
                                    entry |-> e, content |-> f.sum])
           \/ from = {} /\ ~Exists(f) /\ UNCHANGED up
    /\ UNCHANGED <<files, lis, down>>

FinishPush(k) ==
    /\ ini[k].pc = "push" /\ ini[k].todo = {}
    /\ up' = Send(up, k, [type |-> "ACK"])
    /\ ini' = [ini EXCEPT ![k] = IdleInitiator]
    /\ UNCHANGED <<files, lis, down>>

-----------------------------------------------------------------------------
(* The listener                                                            *)

\* The server of client_server.py greets as soon as it has accepted.
Greet(k) ==
    /\ GreetFirst
    /\ lis[k].pc = "idle" /\ Got(up, k, "HELLO")
    /\ lis' = [lis EXCEPT ![k].pc = "hello"]
    /\ down' = Send(down, k, Hello(k[2]))
    /\ UNCHANGED <<files, ini, up>>

ListenerHello(k) ==
    /\ lis[k].pc = IF GreetFirst THEN "hello" ELSE "idle"
    /\ Got(up, k, "HELLO")
    /\ LET remote == Head(up[k]).index IN
       lis' = [lis EXCEPT ![k] = [@ EXCEPT !.pc = "delete", !.remote = remote,
                                           !.todo = Tombstones(remote)]]
    /\ up' = [up EXCEPT ![k] = Tail(@)]
    /\ IF GreetFirst THEN UNCHANGED down ELSE down' = Send(down, k, Hello(k[2]))
    /\ UNCHANGED <<files, ini>>

ListenerDeletion(k, p) ==
    /\ At(lis[k], "delete") /\ p \in lis[k].todo
    /\ pending' = [pending EXCEPT ![k[2]] = Deferred(k[2], lis[k].remote, p)]
    /\ lis' = [lis EXCEPT ![k].todo = @ \ {p},
                          ![k].jobs = Deletion(k[2], lis[k].remote, p)]
    /\ UNCHANGED <<now, disk, index, copies, retired, ini, wires>>

BeginServing(k) ==
    /\ At(lis[k], "delete") /\ lis[k].todo = {}
    /\ lis' = [lis EXCEPT ![k].pc = "serve"]
    /\ UNCHANGED <<files, ini, wires>>

\* _serve_file: no reply when the entry or the file is gone.
Serve(k) ==
    /\ lis[k].pc = "serve" /\ Got(up, k, "GET_FILE")
    /\ up' = [up EXCEPT ![k] = Tail(@)]
    /\ LET p == Head(up[k]).path
           e == index[k[2]][p]
           f == disk[k[2]][p]
       IN  IF Live(e) /\ Exists(f)
           THEN down' = Send(down, k, [type |-> "FILE_DATA", path |-> p,
                                       entry |-> e, content |-> f.sum])
           ELSE UNCHANGED down
    /\ UNCHANGED <<files, ini, lis>>

ServeDone(k) ==
    /\ lis[k].pc = "serve" /\ Got(up, k, "SYNC_DONE")
    /\ up' = [up EXCEPT ![k] = Tail(@)]
    /\ lis' = [lis EXCEPT ![k].pc = "accept"]
    /\ UNCHANGED <<files, ini, down>>

\* _apply_incoming_file: reconciled with the entry of this moment.
AcceptFile(k) ==
    /\ At(lis[k], "accept") /\ Got(up, k, "FILE_DATA")
    /\ up' = [up EXCEPT ![k] = Tail(@)]
    /\ LET m     == Head(up[k])
           local == index[k[2]][m.path]
       IN  IF Accept(Strategy, local, m.entry)
           THEN /\ lis' = [lis EXCEPT ![k].jobs = <<Apply(m.path, m.entry, m.content)>>]
                /\ CopyAside(k[2], IF KeptBoth(local, m.entry) THEN {m.path} ELSE {})
           ELSE UNCHANGED <<lis, copies>>
    /\ UNCHANGED <<now, disk, index, pending, retired, ini, down>>

AcceptRename(k) ==
    /\ At(lis[k], "accept") /\ Got(up, k, "RENAME_FILE")
    /\ up' = [up EXCEPT ![k] = Tail(@)]
    /\ LET m == Head(up[k])
           n == k[2]
       IN  IF Renameable(n, m.from, m.entry)
           THEN /\ RenameFile(n, m.from, m.path)
                /\ lis' = [lis EXCEPT ![k].jobs = RenameJobs(n, m.from, m.path, m.entry)]
           ELSE UNCHANGED <<disk, lis>>
    /\ UNCHANGED <<now, index, copies, pending, retired, ini, down>>

AcceptAck(k) ==
    /\ At(lis[k], "accept") /\ Got(up, k, "ACK")
    /\ up' = [up EXCEPT ![k] = Tail(@)]
    /\ lis' = [lis EXCEPT ![k] = IdleListener]
    /\ UNCHANGED <<files, ini, down>>

\* The connection breaks: both coroutines end with an exception.
Drop(k) ==
    /\ "drop" \in Env /\ now < MaxTime /\ ~Idle(k)
    /\ ini[k].jobs = <<>> /\ lis[k].jobs = <<>>
    /\ now' = now + 1
    /\ ini' = [ini EXCEPT ![k] = IdleInitiator]
    /\ lis' = [lis EXCEPT ![k] = IdleListener]
    /\ up' = [up EXCEPT ![k] = <<>>] /\ down' = [down EXCEPT ![k] = <<>>]
    /\ UNCHANGED <<disk, index, copies, pending, retired>>

-----------------------------------------------------------------------------
Users ==
    \E n \in Node, p \in Path :
        \/ UserWrite(n, p)
        \/ UserDelete(n, p)
        \/ \E q \in Path : UserMove(n, p, q) \/ UserCopy(n, p, q)

Initiate(k) ==
    \/ Connect(k)
    \/ InitiatorHello(k)
    \/ \E p \in Path : InitiatorDeletion(k, p) \/ RequestFile(k, p) \/ Push(k, p)
    \/ \E q \in [Path -> Path] : FindRenames(k, q) \/ FinishPull(k, q)
    \/ \E m \in Path \X Path : InitiatorRename(k, m)
    \/ ComputeNeeded(k)
    \/ ReceiveFile(k)
    \/ FinishPush(k)
    \/ InitiatorJob(k)

Listen(k) ==
    \/ Greet(k)
    \/ ListenerHello(k)
    \/ \E p \in Path : ListenerDeletion(k, p)
    \/ BeginServing(k)
    \/ Serve(k)
    \/ ServeDone(k)
    \/ AcceptFile(k)
    \/ AcceptRename(k)
    \/ AcceptAck(k)
    \/ ListenerJob(k)

Next ==
    \/ Users
    \/ \E n \in Node, p \in Path : Observe(n, p)
    \/ \E k \in Link : Initiate(k) \/ Listen(k) \/ Drop(k)

Spec == Init /\ [][Next]_vars

\* The watcher sees every edit, a coroutine that can go on does, and the sync
\* loop of every link opens a session again and again: each has a timer of
\* its own, so one link's sessions do not keep another's from starting.
Fairness ==
    /\ \A n \in Node, p \in Path : WF_vars(Observe(n, p))
    /\ \A k \in Link : /\ WF_vars(Initiate(k)) /\ WF_vars(Listen(k))
                        /\ SF_vars(Connect(k))

FairSpec == Spec /\ Fairness

-----------------------------------------------------------------------------
(* Properties                                                              *)

\* The two ends of a connection never wait for each other: an initiator that
\* waits for a file has a request, a reply or a serving listener on its way
\* (read_message has no timeout).
NoMutualWait ==
    \A k \in Link :
        ini[k].pc = "wait" =>
            down[k] # <<>> \/ up[k] # <<>> \/ lis[k].jobs # <<>>

\* Between sessions, with every edit indexed, an index entry names the
\* content on disk (_serve_file, _apply_rename and apply_remote keep the two
\* together).
IndexHonest ==
    (\A k \in Link : Idle(k)) /\ (\A n \in Node : Observed(n)) =>
        \A n \in Node, p \in Path :
            /\ Live(index[n][p]) = Exists(disk[n][p])
            /\ index[n][p].sum = disk[n][p].sum

\* Equal clocks are the same version on both sides (reconcile).
SameClockSameVersion ==
    \A a, b \in Node, p \in Path :
        Equals(index[a][p].clock, index[b][p].clock) =>
            index[a][p].sum = index[b][p].sum

\* What is still on some disk, under its name or in a conflict copy.
Held(c) ==
    \E n \in Node, p \in Path : disk[n][p].sum = c \/ copies[n][p] = c

\* No content is destroyed but by the hand of a user (keep-both: "No data is
\* lost", docs/provider-interface.md).
NoDataLost ==
    [][\A c \in 1..now : Held(c) => c \in retired' \/ Held(c)']_vars

\* A node never replaces an entry by an older version of it: what it has
\* seen of a path only grows, or is set aside by a conflict.
NeverBackwards ==
    [][\A n \in Node, p \in Path :
          ~HappensBefore(index'[n][p].clock, index[n][p].clock)]_vars

\* When the edits have stopped all nodes come to hold the same files.
Agreed ==
    \A a, b \in Node, p \in Path : disk[a][p].sum = disk[b][p].sum

EventuallyAgree == <>[]Agreed
=============================================================================
