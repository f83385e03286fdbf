-------------------------- MODULE SyncEngineProofs --------------------------
(***************************************************************************)
(* What holds of the values and the pure functions: vector clocks, the     *)
(* index operations on one path, and what two nodes that compare the same  *)
(* two versions of a path decide, each taking its own for the local one.   *)
(***************************************************************************)
EXTENDS SyncEngine, TLAPS

-----------------------------------------------------------------------------
(* Vector clocks, for every set of nodes                                   *)

\* The empty clock is a clock.
LEMMA ZeroClockType == ZeroClock \in Clock
  BY DEF ZeroClock, Clock

\* increment() gives a clock.
LEMMA IncrementType ==
  ASSUME NEW c \in Clock, NEW n \in Node
  PROVE  Increment(c, n) \in Clock
  BY DEF Increment, Clock

\* A version made on a node is newer than the one it was made from.
LEMMA IncrementNewer ==
  ASSUME NEW c \in Clock, NEW n \in Node
  PROVE  HappensBefore(c, Increment(c, n))
  BY DEF HappensBefore, Increment, Clock

\* happens_before is a strict partial order.
THEOREM HappensBeforeStrict ==
  ASSUME NEW c \in Clock
  PROVE  ~HappensBefore(c, c)
  BY DEF HappensBefore, Clock

\* A version newer than a newer one is newer (happens_before).
THEOREM HappensBeforeTransitive ==
  ASSUME NEW c \in Clock, NEW d \in Clock, NEW e \in Clock,
         HappensBefore(c, d), HappensBefore(d, e)
  PROVE  HappensBefore(c, e)
<1>1. \A n \in Node : c[n] \in Nat /\ d[n] \in Nat /\ e[n] \in Nat
  BY DEF Clock
<1>2. ASSUME NEW n \in Node PROVE c[n] <= e[n]
  <2>1. c[n] <= d[n] /\ d[n] <= e[n]
    BY DEF HappensBefore
  <2>2. QED BY <1>1, <2>1
<1>3. \E n \in Node : c[n] < e[n]
  <2>1. PICK n \in Node : c[n] < d[n]
    BY DEF HappensBefore
  <2>2. d[n] <= e[n]
    BY DEF HappensBefore
  <2>3. QED BY <1>1, <2>1, <2>2
<1>4. QED BY <1>2, <1>3 DEF HappensBefore

\* Of two versions at most one is newer, and then they differ (happens_before).
LEMMA HappensBeforeAsymmetric ==
  ASSUME NEW c \in Clock, NEW d \in Clock, HappensBefore(c, d)
  PROVE  ~HappensBefore(d, c) /\ ~Equals(c, d)
<1>1. PICK n \in Node : c[n] < d[n]
  BY DEF HappensBefore
<1>2. c[n] \in Nat /\ d[n] \in Nat
  BY DEF Clock
<1>3. QED BY <1>1, <1>2 DEF HappensBefore, Equals

\* Exactly one of the four cases reconcile distinguishes.
THEOREM Tetrachotomy ==
  ASSUME NEW c \in Clock, NEW d \in Clock
  PROVE  /\ Equals(c, d) \/ HappensBefore(c, d) \/ HappensBefore(d, c)
              \/ ConcurrentWith(c, d)
         /\ HappensBefore(c, d) => ~HappensBefore(d, c) /\ ~Equals(c, d)
         /\ HappensBefore(d, c) => ~HappensBefore(c, d) /\ ~Equals(c, d)
<1>1. HappensBefore(d, c) => ~HappensBefore(c, d) /\ ~Equals(d, c)
  BY HappensBeforeAsymmetric
<1>2. Equals(c, d) => Equals(d, c)
  BY DEF Equals
<1>3. QED BY <1>1, <1>2, HappensBeforeAsymmetric DEF ConcurrentWith

\* The merge the documentation asks for would dominate both clocks, and
\* nothing smaller does.
THEOREM UpdateIsLeastUpperBound ==
  ASSUME NEW c \in Clock, NEW d \in Clock
  PROVE  /\ AtMost(c, Update(c, d)) /\ AtMost(d, Update(c, d))
         /\ \A e \in Clock : AtMost(c, e) /\ AtMost(d, e) => AtMost(Update(c, d), e)
  BY DEF AtMost, Update, Clock

-----------------------------------------------------------------------------
(* The operators of FileIndex                                              *)

\* The entry of a path never indexed is an entry.
LEMMA NoEntryType == NoEntry \in Entry
  BY ZeroClockType DEF NoEntry, Entry, NoSum

\* A missing file is a file value.
LEMMA AbsentType == Absent \in File
  BY DEF Absent, File, NoSum

\* The entry made for a file found on disk is an entry.
LEMMA RecordType ==
  ASSUME NEW f \in File, NEW c \in Clock
  PROVE  Record(f, c) \in Entry
  BY DEF Record, Entry, File

\* _make_tombstone returns an entry.
LEMMA MakeTombstoneType ==
  ASSUME NEW e \in Entry, NEW n \in Node
  PROVE  MakeTombstone(e, n) \in Entry
<1>1. Increment(e.clock, n) \in Clock
  BY IncrementType DEF Entry
<1>2. QED BY <1>1 DEF MakeTombstone, Entry, NoSum

\* scan_one leaves an entry.
LEMMA ScanOneType ==
  ASSUME NEW e \in Entry, NEW f \in File, NEW n \in Node
  PROVE  ScanOne(e, f, n) \in Entry
<1>1. Record(f, Increment(e.clock, n)) \in Entry
  BY IncrementType, RecordType DEF Entry
<1>2. QED BY <1>1 DEF ScanOne

\* scan leaves an entry at every path of its walk.
LEMMA ScanEntryType ==
  ASSUME NEW e \in Entry, NEW f \in File, NEW n \in Node
  PROVE  ScanEntry(e, f, n) \in Entry
<1>1. Record(f, Increment(e.clock, n)) \in Entry
  BY IncrementType, RecordType DEF Entry
<1>2. Record(f, Increment(ZeroClock, n)) \in Entry
  BY IncrementType, RecordType, ZeroClockType
<1>3. QED BY <1>1, <1>2, MakeTombstoneType DEF ScanEntry

\* mark_deleted and mark_dir_deleted leave an entry.
LEMMA MarkType ==
  ASSUME NEW e \in Entry, NEW f \in File, NEW n \in Node
  PROVE  MarkDeleted(e, f, n) \in Entry /\ MarkDirDeleted(e, n) \in Entry
  BY MakeTombstoneType DEF MarkDeleted, MarkDirDeleted

\* apply_remote leaves a file value and an entry.
LEMMA ApplyType ==
  ASSUME NEW e \in Entry, NEW f \in File, NEW t \in Nat
  PROVE  WriteRemote(e, t) \in File /\ RecordRemote(e, f) \in Entry
  BY AbsentType DEF WriteRemote, RecordRemote, Entry, File

\* The own component never falls, whatever the watcher does with a path.
LEMMA OwnComponentGrows ==
  ASSUME NEW e \in Entry, NEW f \in File, NEW n \in Node
  PROVE  /\ e.clock[n] <= ScanOne(e, f, n).clock[n]
         /\ e.clock[n] <= MarkDeleted(e, f, n).clock[n]
         /\ e.clock[n] <= MarkDirDeleted(e, n).clock[n]
<1>1. e.clock \in Clock
  BY DEF Entry
<1>2. e.clock[n] \in Nat /\ e.clock[n] <= Increment(e.clock, n)[n]
  BY <1>1 DEF Increment, Clock
<1>3. Record(f, Increment(e.clock, n)).clock = Increment(e.clock, n)
  BY DEF Record
<1>4. MakeTombstone(e, n).clock = Increment(e.clock, n)
  BY DEF MakeTombstone
<1>5. QED BY <1>2, <1>3, <1>4 DEF ScanOne, MarkDeleted, MarkDirDeleted

-----------------------------------------------------------------------------
(* Decisions                                                               *)

\* Both sides see a conflict, or neither does (reconcile).
THEOREM ConflictIsMutual ==
  ASSUME NEW e \in Entry, NEW f \in Entry, Reconcile(e, f) = "conflict"
  PROVE  Reconcile(f, e) = "conflict"
<1>1. /\ ~Equals(e.clock, f.clock)
      /\ ~HappensBefore(f.clock, e.clock)
      /\ ~HappensBefore(e.clock, f.clock)
  BY DEF Reconcile
<1>2. ~Equals(f.clock, e.clock)
  BY <1>1 DEF Equals
<1>3. QED BY <1>1, <1>2 DEF Reconcile

\* Of two versions at most one replaces the other without a conflict, so a
\* pull and a push of the same path cannot both be chosen (reconcile).
THEOREM AcceptIsOneWay ==
  ASSUME NEW e \in Entry, NEW f \in Entry, Reconcile(e, f) = "accept_remote"
  PROVE  Reconcile(f, e) = "keep_local"
<1>1. HappensBefore(e.clock, f.clock)
  BY DEF Reconcile
<1>2. e.clock \in Clock /\ f.clock \in Clock
  BY DEF Entry
<1>3. ~HappensBefore(f.clock, e.clock)
  BY <1>1, <1>2, HappensBeforeAsymmetric
<1>4. QED BY <1>1, <1>3 DEF Reconcile

\* The version reconcile takes over covers all that the local one had seen:
\* without a conflict no update is ever overwritten unseen (reconcile).
THEOREM AcceptCoversLocal ==
  ASSUME NEW e \in Entry, NEW f \in Entry, Reconcile(e, f) = "accept_remote"
  PROVE  AtMost(e.clock, f.clock) /\ ~AtMost(f.clock, e.clock)
<1>1. HappensBefore(e.clock, f.clock)
  BY DEF Reconcile
<1>2. e.clock \in Clock /\ f.clock \in Clock
  BY DEF Entry
<1>3. PICK n \in Node : e.clock[n] < f.clock[n]
  BY <1>1 DEF HappensBefore
<1>4. e.clock[n] \in Nat /\ f.clock[n] \in Nat
  BY <1>2 DEF Clock
<1>5. ~(f.clock[n] <= e.clock[n])
  BY <1>3, <1>4
<1>6. QED BY <1>1, <1>5 DEF HappensBefore, AtMost

\* Under last-write-wins two nodes never take each other's version: whatever
\* two crossing sessions exchange, the versions cannot change places.
THEOREM LastWriteWinsOneWay ==
  ASSUME NEW e \in Entry, NEW f \in Entry,
         Accept("last-write-wins", e, f)
  PROVE  ~Accept("last-write-wins", f, e)
<1>1. CASE Reconcile(e, f) = "accept_remote"
  <2>1. Reconcile(f, e) = "keep_local"
    BY <1>1, AcceptIsOneWay
  <2>2. QED BY <2>1 DEF Accept
<1>2. CASE Reconcile(e, f) = "conflict"
  <2>1. Reconcile(f, e) = "conflict"
    BY <1>2, ConflictIsMutual
  <2>2. e.sum # f.sum /\ f.mtime > e.mtime
    BY <1>2 DEF Accept, ResolveConflict, ResolveLastWriteWins
  <2>3. e.mtime \in Nat /\ f.mtime \in Nat
    BY DEF Entry
  <2>4. ~(e.mtime > f.mtime)
    BY <2>2, <2>3
  <2>5. ResolveConflict("last-write-wins", f, e) = "keep_local"
    BY <2>2, <2>4 DEF ResolveConflict, ResolveLastWriteWins
  <2>6. QED BY <2>1, <2>5 DEF Accept
<1>3. QED BY <1>1, <1>2 DEF Accept

\* Under keep-both a conflict of different contents makes each node take the
\* other's version: two sessions that cross exchange them (_resolve_conflict).
THEOREM KeepBothExchanges ==
  ASSUME NEW e \in Entry, NEW f \in Entry,
         Reconcile(e, f) = "conflict", e.sum # f.sum
  PROVE  Accept("keep-both", e, f) /\ Accept("keep-both", f, e)
<1>1. Reconcile(f, e) = "conflict"
  BY ConflictIsMutual
<1>2. QED BY <1>1 DEF Accept, ResolveConflict
=============================================================================
