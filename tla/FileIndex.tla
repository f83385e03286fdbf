----------------------------- MODULE FileIndex -----------------------------
(***************************************************************************)
(* What the index of one node (syncd/sync/file_index.py) does with one     *)
(* path: the value of a file on disk, the value of an index entry, and the *)
(* new entry each operation of the class puts in place of the old one.     *)
(*                                                                         *)
(* A checksum stands for the content it was computed from (SHA-256 is      *)
(* taken to be injective).  A modification time is a reading of a clock    *)
(* that advances at every write, so two writes never share one.            *)
(***************************************************************************)
EXTENDS VectorClock

NoSum == 0              \* the checksum "" of a tombstone; contents are > 0

File   == [sum : Nat, mtime : Nat]
Absent == [sum |-> NoSum, mtime |-> 0]
Exists(f) == f.sum # NoSum

Entry == [deleted : BOOLEAN, sum : Nat, mtime : Nat, clock : Clock]

\* No entry at all.  Every operation treats a missing path the way it treats
\* a tombstone with an empty clock, except where Known is tested.
NoEntry == [deleted |-> TRUE, sum |-> NoSum, mtime |-> 0, clock |-> ZeroClock]

Known(e) == e # NoEntry
Live(e)  == ~e.deleted
Dead(e)  == Known(e) /\ e.deleted

Record(f, c) == [deleted |-> FALSE, sum |-> f.sum, mtime |-> f.mtime, clock |-> c]

\* A tombstone that keeps the clock of the file (variant).
MakeTombstoneSameClock(e, n) ==
    [deleted |-> TRUE, sum |-> NoSum, mtime |-> 0, clock |-> e.clock]

\* _make_tombstone of node n for the live entry e.
MakeTombstone(e, n) ==
    [deleted |-> TRUE, sum |-> NoSum, mtime |-> 0, clock |-> Increment(e.clock, n)]

\* Only a later modification time counts as a change (variant).
ChangedLater(e, f) == Live(e) => (f.mtime > e.mtime /\ f.sum # e.sum)

\* The two shortcuts of scan and scan_one: a live entry is left alone when
\* the modification time is the recorded one, or else the content is.
Changed(e, f) == Live(e) => (f.mtime # e.mtime /\ f.sum # e.sum)

\* A file over a tombstone starts a new history, as in scan (variant).
ScanOneFresh(e, f, n) ==
    IF Exists(f) /\ Changed(e, f)
    THEN Record(f, Increment(IF Live(e) THEN e.clock ELSE ZeroClock, n)) ELSE e

\* A changed file keeps its clock (variant).
ScanOneSameClock(e, f, n) ==
    CASE Exists(f) /\ ~Live(e)                 -> Record(f, Increment(e.clock, n))
      [] Exists(f) /\ Live(e) /\ Changed(e, f) -> Record(f, e.clock)
      [] OTHER                                -> e

\* scan_one: one path, called for an added or modified file.
ScanOne(e, f, n) ==
    IF Exists(f) /\ Changed(e, f) THEN Record(f, Increment(e.clock, n)) ELSE e

\* scan: one path of the walk at start-up.  Unlike scan_one it gives a file
\* found over a tombstone the clock of a file never seen before; the second
\* pass tombstones what the walk did not see.
ScanEntry(e, f, n) ==
    CASE Exists(f) /\ ~Live(e)               -> Record(f, Increment(ZeroClock, n))
      [] Exists(f) /\ Live(e) /\ Changed(e, f) -> Record(f, Increment(e.clock, n))
      [] ~Exists(f) /\ Live(e)               -> MakeTombstone(e, n)
      [] OTHER                               -> e

\* The disk is not asked (variant).
MarkDeletedBlind(e, f, n) == IF Live(e) THEN MakeTombstone(e, n) ELSE e

\* mark_deleted: nothing if the file is back on disk.
MarkDeleted(e, f, n) == IF Live(e) /\ ~Exists(f) THEN MakeTombstone(e, n) ELSE e

\* mark_dir_deleted, for one path under the directory: the disk is not asked.
MarkDirDeleted(e, n) == IF Live(e) THEN MakeTombstone(e, n) ELSE e

\* verify_one: a live entry whose file no longer has the recorded content.
VerifyOne(e, f) == Live(e) /\ Exists(f) /\ f.sum # e.sum

\* apply_remote, first half: what is on disk afterwards, `now` being the time
\* of the write.
WriteRemote(e, now) == IF Live(e) THEN [sum |-> e.sum, mtime |-> now] ELSE Absent

\* apply_remote, second half: the entry put in the index.  A live one records
\* the time found on disk, the clock is the remote's own.
RecordRemote(e, f) ==
    IF Live(e) /\ Exists(f) THEN [e EXCEPT !.mtime = f.mtime] ELSE e
=============================================================================
