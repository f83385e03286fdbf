------------------------ MODULE StreamTransferProofs ------------------------
(***************************************************************************)
(* Proofs about StreamTransfer, for all links, files, sizes, buffers and   *)
(* numbers of faults: the types, that the reader stays in frame, that      *)
(* damage stays with the file that changed, and that entries are those of  *)
(* the files on disk.                                                      *)
(*                                                                         *)
(* A connection is described unit by unit.  What must follow what depends  *)
(* on whether the file a unit belongs to has changed, so the description   *)
(* (Chain) is of a sequence and the set of the numbers of the files that   *)
(* have not; the sender is described by how it continues its end (Onward)  *)
(* and a reception by what it expects of its beginning (Reading).          *)
(***************************************************************************)
EXTENDS StreamTransfer, SequenceTheorems, TLAPS

-----------------------------------------------------------------------------
(* The invariants                                                          *)

Tx == [pc : {"next", "open", "send", "closed"}, n : Nat, size : 0..MaxSize,
       k : 0..MaxSize]
Rx == [pc : {"ask", "msg", "body", "drain", "write", "record", "end"}, path : Path,
       at : Id \cup {None}, left : 0..MaxSize, k : 0..MaxSize]
Src == [edit : 0..MaxFaults, size : 0..MaxSize, there : BOOLEAN]

TypeInv ==
    /\ source \in [Link -> [Path -> Src]]
    /\ tx \in [Link -> Tx]
    /\ wire \in [Link -> Seq(Unit)]
    /\ up \in [Link -> BOOLEAN]
    /\ asked \in [Link -> Nat]
    /\ rx \in [Link -> Rx]
    /\ inode \in [Id -> Seq(Unit)]
    /\ file \in [Path -> Id \cup {None}] /\ tmp \in [Path -> Id \cup {None}]
    /\ held \in [Link -> Unit \cup {None}]
    /\ entry \in [Path -> Link \cup {None}]
    /\ faults \in 0..MaxFaults
    /\ changed \in SUBSET (Link \X Path)
    /\ slipped \in SUBSET Link /\ met \in SUBSET Path
    /\ broken \in SUBSET Path

\* What announces a file, and names one of the link's.
IsFile(u) == u.t \in {"data", "stream"}

Fits(l, u) ==
    IsFile(u) =>
        /\ u.n \in 1..Last(l)
        /\ u.t = "stream" => u.size > 0
        /\ u.t = "data" => u.size < Threshold

\* Where the two ends of a link are.
PlaceInv(l) ==
    /\ tx[l].n \in 1..(Last(l) + 1)
    /\ tx[l].pc \in {"open", "send"} => tx[l].n <= Last(l)
    /\ ~up[l] <=> tx[l].pc = "closed"
    /\ asked[l] <= Last(l)
    /\ rx[l].pc \in {"ask", "msg", "write", "record"} => rx[l].left = 0
    /\ rx[l].pc = "body" => rx[l].at # None /\ rx[l].k + rx[l].left <= MaxSize
    /\ rx[l].pc = "drain" => rx[l].left > 0
    /\ rx[l].pc = "write" => rx[l].at # None /\ held[l] # None /\ rx[l].k <= held[l].size
    /\ \A j \in 1..Len(wire[l]) : Fits(l, wire[l][j])

Types == TypeInv /\ \A l \in Link : PlaceInv(l)

-----------------------------------------------------------------------------
\* A labelling of the connection with the bytes of a stream that are still to
\* come before each unit.
Heads == {"data", "stream", "ack"}

Framed(w, lab) ==
    /\ w # <<>> => w[1].t # "rest"
    /\ \A j \in 1..Len(w) :
        /\ w[j].t \in Heads => lab[j] = 0
        /\ w[j].t \in {"data", "ack"} => lab[j + 1] = 0
        /\ w[j].t = "stream" => lab[j + 1] = w[j].size
        /\ w[j].t = "rest" => lab[j + 1] = lab[j]
        /\ w[j].t = "byte" => lab[j] = lab[j + 1] + 1
        /\ j < Len(w) => (w[j].t \in Heads <=> w[j + 1].t = "rest")

\* What the sender still owes of the stream it announced.
Owed(t) == IF t.pc \in {"open", "send"} THEN t.size - t.k ELSE 0

FrameInv(l) ==
    l \notin slipped /\ rx[l].pc # "end" =>
        \E lab \in [1..(Len(wire[l]) + 1) -> 0..MaxSize] :
            /\ Framed(wire[l], lab)
            /\ lab[1] = rx[l].left
            /\ up[l] => /\ lab[Len(wire[l]) + 1] = Owed(tx[l])
                        /\ wire[l] # <<>> => wire[l][Len(wire[l])].t \notin Heads

-----------------------------------------------------------------------------
\* The numbers of the files of a link that have not changed.
Good(l) == {n \in 1..Last(l) : <<l, Files[l][n]>> \notin changed}

SizeOf(l, n) == Size[Files[l][n]]

\* What a sender has of them.
SourceInv(l) ==
    \A n \in Good(l) :
        /\ source[l][Files[l][n]].size = SizeOf(l, n) /\ source[l][Files[l][n]].edit = 0
        /\ tx[l].pc \in {"open", "send"} /\ tx[l].n = n =>
               tx[l].size = SizeOf(l, n) /\ tx[l].k <= SizeOf(l, n)

ByteOf(l, n, k) ==
    [t |-> "byte", by |-> l, n |-> n, edit |-> 0, size |-> SizeOf(l, n), k |-> k]

\* The units of unchanged files follow each other without gaps.
Chain(G, l, w) ==
    /\ \A j \in 1..Len(w) :
        /\ IsFile(w[j]) /\ w[j].n \in G =>
               w[j].by = l /\ w[j].size = SizeOf(l, w[j].n) /\ w[j].edit = 0
        /\ j < Len(w) /\ w[j].t \in Heads => w[j + 1].t = "rest"
        /\ w[j].t = "byte" /\ w[j].n \in G => w[j] = ByteOf(l, w[j].n, w[j].k)
        /\ j < Len(w) /\ w[j].t = "byte" /\ w[j].n \in G /\ w[j].k < SizeOf(l, w[j].n) =>
               w[j + 1] = ByteOf(l, w[j].n, w[j].k + 1)
        /\ j + 1 < Len(w) /\ w[j].t = "stream" /\ w[j].n \in G =>
               w[j + 2] = ByteOf(l, w[j].n, 1)
    /\ \A i, j \in 1..Len(w) :
          i < j /\ IsFile(w[i]) /\ IsFile(w[j]) => w[i].n < w[j].n

\* The first file of which nothing has been sent.
Todo(t) == IF t.pc \in {"open", "send"} THEN t.n + 1 ELSE t.n

\* The sender goes on where the connection ends.
Onward(G, l, w, t) ==
    /\ w # <<>> =>
        /\ w[Len(w)].t \notin Heads
        /\ w[Len(w)].t = "byte" /\ w[Len(w)].n \in G /\ w[Len(w)].k < SizeOf(l, w[Len(w)].n) =>
               t.pc = "send" /\ t.n = w[Len(w)].n /\ t.k = w[Len(w)].k
    /\ Len(w) >= 2 /\ w[Len(w) - 1].t = "stream" /\ w[Len(w) - 1].n \in G =>
           t.pc \in {"open", "send"} /\ t.n = w[Len(w) - 1].n /\ t.k = 0
    /\ \A j \in 1..Len(w) : IsFile(w[j]) => w[j].n < Todo(t)

\* The bytes of file n from the k-th on come next.
Expects(w, t, live, l, n, k) ==
    IF w # <<>> THEN w[1] = ByteOf(l, n, k + 1)
    ELSE live => t.pc \in {"open", "send"} /\ t.n = n /\ t.k = k

Reading(l) ==
    rx[l].pc = "body" =>
        \E n \in 1..Last(l) :
            /\ Files[l][n] = rx[l].path
            /\ n \in Good(l) =>
                 /\ rx[l].k + rx[l].left = SizeOf(l, n)
                 /\ rx[l].left > 0 => Expects(wire[l], tx[l], up[l], l, n, rx[l].k)

LinkInv(l) ==
    /\ Chain(Good(l), l, wire[l])
    /\ up[l] => Onward(Good(l), l, wire[l], tx[l])
    /\ Reading(l)

-----------------------------------------------------------------------------
\* The name <<l, p>> is free while p is still to come over l.
Free(l, p) == file[p] # <<l, p>> /\ tmp[p] # <<l, p>>

FreshInv(l) ==
    /\ \A j \in 1..Len(wire[l]) :
          IsFile(wire[l][j]) => Free(l, Files[l][wire[l][j].n])
    /\ up[l] => \A n \in 1..Last(l) : n >= Todo(tx[l]) => Free(l, Files[l][n])

Receiving(l, p) == rx[l].path = p /\ rx[l].pc = "body"
Putting(l, p) == rx[l].path = p /\ rx[l].pc = "write"
Recording(l, p) == rx[l].path = p /\ rx[l].pc = "record"

\* No change and no second reception has touched p.
Quiet(p) == p \notin met /\ \A l \in Link : <<l, p>> \notin changed

FilesInv(p) ==
    /\ file[p] # None => file[p][2] = p
    /\ tmp[p] # None => tmp[p][2] = p /\ tmp[p] # file[p]
    /\ \A l \in Link : Receiving(l, p) \/ Putting(l, p) => rx[l].at[2] = p

\* One reception at a time, of a stream through the temporary file, of a message
\* in the file itself.
AloneInv(p) ==
    p \notin met =>
        /\ \A l, m \in Active(p) : l = m
        /\ \A l \in Link : Receiving(l, p) => rx[l].at = tmp[p] /\ tmp[p] # None
        /\ \A l \in Link : Putting(l, p) => rx[l].at = file[p] /\ file[p] # None

BytesOf(s, l, n, k) ==
    Len(s) = k /\ \A j \in 1..k : s[j] = ByteOf(l, n, j)

\* The first k bytes of p as l sends it.
Part(l, p, s, k) == \E n \in 1..Last(l) : Files[l][n] = p /\ BytesOf(s, l, n, k)

\* The file's contents come from l: the link that is about to record its entry,
\* or the one that has.
Owner(l, p) ==
    /\ \A m \in Link : Recording(m, p) => l = m
    /\ entry[p] # None /\ (\A m \in Link : ~Recording(m, p)) => entry[p] = l

\* The message in u has p as l sends it.
Carries(l, p, u) ==
    \E n \in 1..Last(l) :
        /\ Files[l][n] = p
        /\ u.by = l /\ u.n = n /\ u.edit = 0 /\ u.size = Size[p]

\* The contents of an undamaged path.
ContentInv(p) ==
    Quiet(p) =>
        /\ \A l \in Link : Receiving(l, p) => Part(l, p, inode[tmp[p]], rx[l].k)
        /\ \A l \in Link : Putting(l, p) =>
              /\ Carries(l, p, held[l]) /\ Size[p] < Threshold
              /\ Part(l, p, inode[file[p]], rx[l].k)
        /\ p \in broken => Size[p] < Threshold
        /\ file[p] # None /\ ~Exposed(p) =>
              \E l \in Link : Part(l, p, inode[file[p]], Size[p]) /\ Owner(l, p)
        /\ entry[p] # None \/ (\E m \in Link : Recording(m, p)) => file[p] # None

PathInv(p) == FilesInv(p) /\ AloneInv(p) /\ ContentInv(p)

IInv ==
    /\ Types
    /\ \A l \in Link : FrameInv(l) /\ SourceInv(l) /\ LinkInv(l) /\ FreshInv(l)
    /\ \A p \in Path : PathInv(p)

-----------------------------------------------------------------------------
(* Sequences and units                                                     *)

\* What is left when the first n units have been read (Consume).
LEMMA Consumed ==
  ASSUME NEW S, NEW w \in Seq(S), NEW n \in 0..Len(w)
  PROVE  /\ SubSeq(w, n + 1, Len(w)) \in Seq(S)
         /\ Len(SubSeq(w, n + 1, Len(w))) = Len(w) - n
         /\ \A j \in 1..(Len(w) - n) : SubSeq(w, n + 1, Len(w))[j] = w[n + j]
<1>1. Len(w) \in Nat
  BY LenProperties
<1>2. CASE n < Len(w)
  <2>1. (n + 1) \in 1..(Len(w) + 1) /\ Len(w) \in n..Len(w)
    BY <1>1, <1>2
  <2>2. SubSeq(w, n + 1, Len(w)) \in Seq(S)
        /\ Len(SubSeq(w, n + 1, Len(w))) = Len(w) - (n + 1) + 1
        /\ \A j \in 1..(Len(w) - (n + 1) + 1) :
              SubSeq(w, n + 1, Len(w))[j] = w[(n + 1) + j - 1]
    BY <1>1, <2>1, SubSeqProperties
  <2>3. QED BY <1>1, <2>2
<1>3. CASE n = Len(w)
  BY <1>1, <1>3, SubSeqProperties, EmptySeq
<1>4. QED BY <1>1, <1>2, <1>3

\* What a lost connection keeps (Cut).
LEMMA Kept ==
  ASSUME NEW S, NEW w \in Seq(S), NEW n \in 0..Len(w)
  PROVE  /\ SubSeq(w, 1, n) \in Seq(S)
         /\ Len(SubSeq(w, 1, n)) = n
         /\ \A j \in 1..n : SubSeq(w, 1, n)[j] = w[j]
<1>1. Len(w) \in Nat
  BY LenProperties
<1>2. QED BY <1>1, SubSeqProperties

\* A message at the end of a connection (Announce, Close).
LEMMA TwoMore ==
  ASSUME NEW S, NEW w \in Seq(S), NEW a \in S, NEW b \in S
  PROVE  /\ w \o <<a, b>> \in Seq(S)
         /\ Len(w \o <<a, b>>) = Len(w) + 2
         /\ \A j \in 1..Len(w) : (w \o <<a, b>>)[j] = w[j]
         /\ (w \o <<a, b>>)[Len(w) + 1] = a /\ (w \o <<a, b>>)[Len(w) + 2] = b
<1>1. Len(w) \in Nat
  BY LenProperties
<1>2. <<a, b>> \in Seq(S) /\ Len(<<a, b>>) = 2 /\ <<a, b>>[1] = a /\ <<a, b>>[2] = b
  OBVIOUS
<1>3. QED BY <1>1, <1>2, ConcatProperties

\* The length a write beyond the end gives a file (Body).
LEMMA MaxPair ==
  ASSUME NEW a \in Nat, NEW b \in Nat
  PROVE  Max({a, b}) = IF a >= b THEN a ELSE b
BY DEF Max

\* What travels is a unit.
LEMMA Units ==
  ASSUME NEW l \in Link, NEW n \in Nat, NEW e \in 0..MaxFaults,
         NEW s \in 0..MaxSize, NEW k \in Nat,
         NEW t \in {"data", "stream", "ack", "byte"}
  PROVE  /\ [t |-> t, by |-> l, n |-> n, edit |-> e, size |-> s, k |-> k] \in Unit
         /\ Rest(l) \in Unit
BY SizeAssumption DEF Unit, Rest

-----------------------------------------------------------------------------
(* Types                                                                   *)

\* The initial state has its types.
LEMMA TypesInit == Init => Types
<1> SUFFICES ASSUME Init PROVE Types
  OBVIOUS
<1>1. Files \in [Link -> Seq(Path) \ {<<>>}]
  BY LinkAssumption
<1>2. \A l \in Link : Last(l) \in Nat \ {0} /\ Files[l][1] \in Path
  <2> TAKE l \in Link
  <2>1. Files[l] \in Seq(Path) /\ Files[l] # <<>>
    BY <1>1
  <2>2. Len(Files[l]) \in Nat /\ Len(Files[l]) # 0
    BY <2>1, LenProperties, EmptySeq
  <2>3. QED BY <2>1, <2>2, ElementOfSeq DEF Last
<1>3. rx \in [Link -> Rx]
  BY <1>2, SizeAssumption DEF Init, Rx, Waiting, Ready
<1>4. tx \in [Link -> Tx] /\ source \in [Link -> [Path -> Src]]
  BY SizeAssumption DEF Init, Tx, Src
<1>5. /\ wire \in [Link -> Seq(Unit)] /\ inode \in [Id -> Seq(Unit)]
      /\ \A l \in Link : wire[l] = <<>> /\ Len(wire[l]) = 0
  BY DEF Init
<1>6. TypeInv
  <2>1. /\ file \in [Path -> Id \cup {None}] /\ tmp \in [Path -> Id \cup {None}]
        /\ entry \in [Path -> Link \cup {None}] /\ up \in [Link -> BOOLEAN]
        /\ asked \in [Link -> Nat]
    BY DEF Init
  <2>2. faults \in 0..MaxFaults /\ changed \in SUBSET (Link \X Path)
        /\ slipped \in SUBSET Link /\ met \in SUBSET Path /\ broken \in SUBSET Path
        /\ held \in [Link -> Unit \cup {None}]
    BY SizeAssumption DEF Init
  <2>3. QED BY <1>3, <1>4, <1>5, <2>1, <2>2 DEF TypeInv
<1>7. ASSUME NEW l \in Link PROVE PlaceInv(l)
  BY <1>2, <1>5 DEF Init, PlaceInv, Waiting, Ready
<1>8. QED BY <1>6, <1>7 DEF Types

\* The lists of files, and what is typed about one link.
LEMMA LinkTypes ==
  ASSUME Types, NEW l \in Link
  PROVE  /\ Files[l] \in Seq(Path) /\ Last(l) \in Nat \ {0}
         /\ \A n \in 1..Last(l) : Files[l][n] \in Path
         /\ \A n \in 1..Last(l) : SizeOf(l, n) \in 1..MaxSize
         /\ \A m, n \in 1..Last(l) : Files[l][m] = Files[l][n] => m = n
         /\ held[l] \in Unit \cup {None}
         /\ tx[l] \in Tx /\ rx[l] \in Rx /\ wire[l] \in Seq(Unit)
         /\ Len(wire[l]) \in Nat /\ (wire[l] # <<>> <=> Len(wire[l]) > 0)
         /\ \A j \in 1..Len(wire[l]) : wire[l][j] \in Unit
<1>1. Files \in [Link -> Seq(Path) \ {<<>>}]
      /\ \A j, k \in DOMAIN Files[l] : Files[l][j] = Files[l][k] => j = k
  BY LinkAssumption
<1>2. Files[l] \in Seq(Path) /\ Files[l] # <<>>
  BY <1>1
<1>3. Len(Files[l]) \in Nat /\ Len(Files[l]) # 0 /\ DOMAIN Files[l] = 1..Len(Files[l])
  BY <1>2, LenProperties, EmptySeq
<1>4. \A n \in 1..Len(Files[l]) : Files[l][n] \in Path
  BY <1>2, ElementOfSeq
<1>5. tx[l] \in Tx /\ rx[l] \in Rx /\ wire[l] \in Seq(Unit)
  BY DEF Types, TypeInv
<1>6. Len(wire[l]) \in Nat /\ (wire[l] # <<>> <=> Len(wire[l]) > 0)
  BY <1>5, LenProperties, EmptySeq
<1>7. \A j \in 1..Len(wire[l]) : wire[l][j] \in Unit
  BY <1>5, ElementOfSeq
<1>9. \A n \in 1..Len(Files[l]) : SizeOf(l, n) \in 1..MaxSize
  BY <1>4, SizeAssumption DEF SizeOf
<1>10. held[l] \in Unit \cup {None}
  BY DEF Types, TypeInv
<1>8. QED BY <1>1, <1>2, <1>3, <1>4, <1>5, <1>6, <1>7, <1>9, <1>10 DEF Last

\* A link whose ends do not move stays in its place.
LEMMA PlaceKept ==
  ASSUME NEW m \in Link, PlaceInv(m), tx'[m] = tx[m],
         rx'[m] = rx[m], wire'[m] = wire[m], up'[m] = up[m], asked'[m] = asked[m],
         held'[m] = held[m]
  PROVE  PlaceInv(m)'
BY DEF PlaceInv, Fits, IsFile, Last

\* What the sender's file is like now.
LEMMA NowTypes ==
  ASSUME Types, NEW l \in Link, tx[l].n <= Last(l)
  PROVE  /\ Now(l) \in Src /\ tx[l].n \in 1..Last(l) /\ Files[l][tx[l].n] \in Path
         /\ \A t \in {"data", "stream"} :
               /\ Message(l, t, tx[l].n, Now(l)) = <<Message(l, t, tx[l].n, Now(l))[1], Rest(l)>>
               /\ Message(l, t, tx[l].n, Now(l))[1] \in Unit
         /\ Rest(l) \in Unit
         /\ \A k \in Nat : Byte(l, tx[l].n, Now(l), k) \in Unit
<1>1. tx[l].n \in 1..Last(l)
  BY LinkTypes DEF Types, PlaceInv
<1>2. Files[l][tx[l].n] \in Path
  BY <1>1, LinkTypes
<1>3. Now(l) \in Src
  BY <1>2 DEF Now, Types, TypeInv
<1>4. Now(l).edit \in 0..MaxFaults /\ Now(l).size \in 0..MaxSize /\ tx[l].n \in Nat
  BY <1>1, <1>3, LinkTypes DEF Src
<1>5. QED BY <1>1, <1>2, <1>3, <1>4, Units DEF Message, Byte

\* The sender goes to its next file.
LEMMA SentTypes ==
  ASSUME Types, NEW l \in Link, Sent(l)
  PROVE  /\ tx' \in [Link -> Tx]
         /\ tx'[l].pc = "next" /\ tx'[l].n = tx[l].n + 1
         /\ \A m \in Link : m # l => tx'[m] = tx[m]
<1>1. tx \in [Link -> Tx] /\ tx[l].n \in Nat
  BY LinkTypes DEF Types, TypeInv, Tx
<1>2. [pc |-> "next", n |-> tx[l].n + 1, size |-> 0, k |-> 0] \in Tx
  BY <1>1, SizeAssumption DEF Tx
<1>3. tx' = [tx EXCEPT ![l] = [pc |-> "next", n |-> tx[l].n + 1, size |-> 0, k |-> 0]]
  BY DEF Sent
<1>4. QED BY <1>1, <1>2, <1>3

\* It announces a stream.
LEMMA OpenTypes ==
  ASSUME Types, NEW l \in Link, NEW s \in 0..MaxSize,
         tx' = [tx EXCEPT ![l].pc = "open", ![l].size = s, ![l].k = 0]
  PROVE  /\ tx' \in [Link -> Tx]
         /\ tx'[l].pc = "open" /\ tx'[l].n = tx[l].n /\ tx'[l].size = s /\ tx'[l].k = 0
         /\ \A m \in Link : m # l => tx'[m] = tx[m]
<1>1. tx \in [Link -> Tx] /\ tx[l] \in Tx /\ 0 \in 0..MaxSize
  BY SizeAssumption DEF Types, TypeInv
<1>2. PICK r : r = [tx[l] EXCEPT !.pc = "open", !.size = s, !.k = 0]
  OBVIOUS
<1>3. r \in Tx /\ r.pc = "open" /\ r.n = tx[l].n /\ r.size = s /\ r.k = 0
  BY <1>1, <1>2 DEF Tx
<1>4. tx' = [tx EXCEPT ![l] = r]
  BY <1>1, <1>2
<1>5. QED BY <1>1, <1>3, <1>4

\* The types through each step of a sender, first the announcement.
LEMMA TypesAnnounce ==
  ASSUME Types, NEW l \in Link, Announce(l)
  PROVE  Types'
<1>1. /\ tx[l] \in Tx /\ tx[l].pc = "next" /\ tx[l].n \in 1..Last(l) /\ up[l]
      /\ Now(l) \in Src /\ wire[l] \in Seq(Unit) /\ Len(wire[l]) \in Nat
      /\ Rest(l) \in Unit
  BY LinkTypes, NowTypes DEF Announce
<1>2. /\ tx' \in [Link -> Tx] /\ \A m \in Link : m # l => tx'[m] = tx[m]
      /\ \/ tx'[l].pc = "next" /\ tx'[l].n = tx[l].n + 1
         \/ tx'[l].pc = "open" /\ tx'[l].n = tx[l].n
  <2>1. CASE Sent(l)
    BY <2>1, SentTypes
  <2>2. CASE tx' = [tx EXCEPT ![l].pc = "open", ![l].size = Now(l).size, ![l].k = 0]
    <3>1. Now(l).size \in 0..MaxSize
      BY <1>1 DEF Src
    <3>2. QED BY <2>2, <3>1, OpenTypes
  <2>3. QED BY <2>1, <2>2 DEF Announce
<1>3. PICK a \in Unit : /\ a.n = tx[l].n /\ (a.t = "stream" => a.size > 0)
                        /\ (a.t = "data" => a.size < Threshold)
                        /\ \/ wire' = wire
                           \/ wire' = [wire EXCEPT ![l] = @ \o <<a, Rest(l)>>]
  <2>1. \A t \in {"data", "stream"} :
           /\ Message(l, t, tx[l].n, Now(l)) = <<Message(l, t, tx[l].n, Now(l))[1], Rest(l)>>
           /\ Message(l, t, tx[l].n, Now(l))[1] \in Unit
           /\ Message(l, t, tx[l].n, Now(l))[1].n = tx[l].n
           /\ Message(l, t, tx[l].n, Now(l))[1].t = t
           /\ Message(l, t, tx[l].n, Now(l))[1].size = Now(l).size
    <3>1. tx[l].n <= Last(l)
      BY <1>1 DEF Announce
    <3>2. QED BY <3>1, NowTypes DEF Message
  <2>2. Now(l).size \in Nat /\ (Now(l).size >= Threshold => Now(l).size > 0)
    BY <1>1, SizeAssumption DEF Src
  <2>5. Now(l).size < Threshold \/ Now(l).size >= Threshold
    BY <2>2, SizeAssumption
  <2>3. PICK t \in {"data", "stream"} :
           /\ t = "data" => Now(l).size < Threshold
           /\ t = "stream" => Now(l).size >= Threshold
           /\ \/ wire' = wire
              \/ wire' = [wire EXCEPT ![l] = @ \o Message(l, t, tx[l].n, Now(l))]
    BY <2>5 DEF Announce
  <2>4. QED BY <2>1, <2>2, <2>3
<1>4. /\ wire' \in [Link -> Seq(Unit)]
      /\ \A j \in 1..Len(wire'[l]) :
            Fits(l, wire'[l][j])
  <2>1. \A j \in 1..Len(wire[l]) : Fits(l, wire[l][j])
    BY DEF Types, PlaceInv
  <2>2. CASE wire' = wire
    BY <2>1, <2>2 DEF Types, TypeInv
  <2>3. CASE wire' = [wire EXCEPT ![l] = @ \o <<a, Rest(l)>>]
    <3>1. wire'[l] = wire[l] \o <<a, Rest(l)>>
      BY <2>3 DEF Types, TypeInv
    <3>2. /\ wire'[l] \in Seq(Unit) /\ Len(wire'[l]) = Len(wire[l]) + 2
          /\ \A j \in 1..Len(wire[l]) : wire'[l][j] = wire[l][j]
          /\ wire'[l][Len(wire[l]) + 1] = a /\ wire'[l][Len(wire[l]) + 2] = Rest(l)
      BY <1>1, <3>1, TwoMore
    <3>3. wire' \in [Link -> Seq(Unit)]
      BY <2>3, <3>1, <3>2 DEF Types, TypeInv
    <3>4. ~IsFile(Rest(l))
      BY DEF IsFile, Rest
    <3>5. \A j \in 1..(Len(wire[l]) + 2) :
             j \in 1..Len(wire[l]) \/ j = Len(wire[l]) + 1 \/ j = Len(wire[l]) + 2
      BY <1>1
    <3>6. QED BY <1>1, <1>3, <2>1, <3>2, <3>3, <3>4, <3>5 DEF Fits
  <2>4. QED BY <1>3, <2>2, <2>3
<1>5. slipped' \in SUBSET Link
  BY DEF Announce, Types, TypeInv
<1>6. TypeInv'
  BY <1>2, <1>4, <1>5 DEF Announce, disk, Types, TypeInv
<1>7. ASSUME NEW m \in Link PROVE PlaceInv(m)'
  <2>1. CASE m = l
    <3>1. tx'[l].pc \in {"next", "open"} /\ tx'[l].n \in 1..(Last(l) + 1)
          /\ (tx'[l].pc = "open" => tx'[l].n <= Last(l))
      BY <1>1, <1>2, LinkTypes
    <3>2. QED BY <1>1, <1>4, <2>1, <3>1 DEF disk, Announce, Types, PlaceInv, Fits, Last, IsFile
  <2>2. CASE m # l
    <3>1. tx'[m] = tx[m] /\ wire'[m] = wire[m]
      BY <1>2, <1>3, <2>2 DEF Types, TypeInv
    <3>2. QED BY <3>1, PlaceKept DEF disk, Announce, Types
  <2>3. QED BY <2>1, <2>2
<1>8. QED BY <1>6, <1>7 DEF Types

\* The file is opened or found gone.
LEMMA TypesOpen ==
  ASSUME Types, NEW l \in Link, Open(l)
  PROVE  Types'
<1>1. /\ tx[l] \in Tx /\ tx[l].pc = "open" /\ tx[l].n \in 1..Last(l) /\ up[l]
      /\ Last(l) \in Nat /\ Files[l][tx[l].n] \in Path
  BY LinkTypes DEF Open, Types, PlaceInv
<1>2. /\ tx' \in [Link -> Tx]
      /\ \A m \in Link : m # l => tx'[m] = tx[m] /\ up'[m] = up[m]
      /\ up' \in [Link -> BOOLEAN]
      /\ tx'[l].n \in 1..(Last(l) + 1)
      /\ tx'[l].pc \in {"open", "send"} => tx'[l].n <= Last(l)
      /\ ~up'[l] <=> tx'[l].pc = "closed"
  <2>1. CASE tx' = [tx EXCEPT ![l].pc = "send"] /\ up' = up
    <3>1. tx' \in [Link -> Tx] /\ tx'[l].pc = "send" /\ tx'[l].n = tx[l].n
          /\ \A m \in Link : m # l => tx'[m] = tx[m]
      BY <1>1, <2>1 DEF Types, TypeInv, Tx
    <3>2. up' \in [Link -> BOOLEAN] /\ up'[l] /\ \A m \in Link : up'[m] = up[m]
      BY <1>1, <2>1 DEF Types, TypeInv
    <3>3. tx'[l].n \in 1..(Last(l) + 1) /\ tx'[l].n <= Last(l)
      BY <1>1, <3>1
    <3>4. QED BY <3>1, <3>2, <3>3
  <2>2. CASE Sent(l) /\ up' = up
    <3>1. tx' \in [Link -> Tx] /\ tx'[l].pc = "next" /\ tx'[l].n = tx[l].n + 1
          /\ \A m \in Link : m # l => tx'[m] = tx[m]
      BY <2>2, SentTypes
    <3>2. up' \in [Link -> BOOLEAN] /\ up'[l] /\ \A m \in Link : up'[m] = up[m]
      BY <1>1, <2>2 DEF Types, TypeInv
    <3>3. tx'[l].n \in 1..(Last(l) + 1)
      BY <1>1, <3>1
    <3>4. QED BY <3>1, <3>2, <3>3
  <2>3. CASE tx' = [tx EXCEPT ![l].pc = "closed"] /\ up' = [up EXCEPT ![l] = FALSE]
    <3>1. tx' \in [Link -> Tx] /\ tx'[l].pc = "closed" /\ tx'[l].n = tx[l].n
          /\ \A m \in Link : m # l => tx'[m] = tx[m]
      BY <1>1, <2>3 DEF Types, TypeInv, Tx
    <3>2. up' \in [Link -> BOOLEAN] /\ ~up'[l] /\ \A m \in Link : m # l => up'[m] = up[m]
      BY <1>1, <2>3 DEF Types, TypeInv
    <3>3. tx'[l].n \in 1..(Last(l) + 1)
      BY <1>1, <3>1
    <3>4. QED BY <3>1, <3>2, <3>3
  <2>4. QED BY <2>1, <2>2, <2>3 DEF Open
<1>3. changed' \in SUBSET (Link \X Path) /\ slipped' \in SUBSET Link
  BY <1>1 DEF Open, Types, TypeInv
<1>4. TypeInv'
  BY <1>2, <1>3 DEF Open, disk, Types, TypeInv
<1>5. ASSUME NEW m \in Link PROVE PlaceInv(m)'
  <2>1. CASE m = l
    BY <1>2, <2>1 DEF disk, Open, Types, PlaceInv, Fits, Last, IsFile
  <2>2. CASE m # l
    BY <1>2, <2>2, PlaceKept DEF disk, Open, Types
  <2>3. QED BY <2>1, <2>2
<1>6. QED BY <1>4, <1>5 DEF Types

\* A byte is sent, or the end of the file is found.
LEMMA TypesChunk ==
  ASSUME Types, NEW l \in Link, Chunk(l)
  PROVE  Types'
<1>1. /\ tx[l] \in Tx /\ tx[l].pc = "send" /\ tx[l].n \in 1..Last(l) /\ up[l]
      /\ Last(l) \in Nat /\ Now(l) \in Src /\ wire[l] \in Seq(Unit) /\ Len(wire[l]) \in Nat
      /\ Byte(l, tx[l].n, Now(l), tx[l].k + 1) \in Unit
  <2>1. tx[l] \in Tx /\ tx[l].pc = "send" /\ tx[l].n \in 1..Last(l) /\ up[l]
        /\ Last(l) \in Nat /\ wire[l] \in Seq(Unit) /\ Len(wire[l]) \in Nat
    BY LinkTypes DEF Chunk, Types, PlaceInv
  <2>2. tx[l].n <= Last(l) /\ tx[l].k + 1 \in Nat
    BY <2>1 DEF Tx
  <2>3. QED BY <2>1, <2>2, NowTypes
<1>2. /\ tx' \in [Link -> Tx]
      /\ \A m \in Link : m # l => tx'[m] = tx[m]
      /\ \/ tx'[l].pc = "send" /\ tx'[l].n = tx[l].n
         \/ tx'[l].pc = "next" /\ tx'[l].n = tx[l].n + 1
  <2>1. CASE Sent(l)
    BY <2>1, SentTypes
  <2>2. CASE tx[l].k < Now(l).size /\ tx' = [tx EXCEPT ![l].k = @ + 1]
    <3>1. tx[l].k + 1 \in 0..MaxSize
      BY <1>1, <2>2, SizeAssumption DEF Tx, Src
    <3>2. QED BY <1>1, <2>2, <3>1 DEF Types, TypeInv, Tx
  <2>3. QED BY <2>1, <2>2 DEF Chunk
<1>3. /\ wire' \in [Link -> Seq(Unit)]
      /\ \A m \in Link : m # l => wire'[m] = wire[m]
      /\ \A j \in 1..Len(wire'[l]) :
            Fits(l, wire'[l][j])
  <2>1. \A j \in 1..Len(wire[l]) : Fits(l, wire[l][j])
    BY DEF Types, PlaceInv, IsFile
  <2>2. CASE wire' = wire
    BY <2>1, <2>2 DEF Types, TypeInv
  <2>3. CASE wire' = [wire EXCEPT ![l] = Append(@, Byte(l, tx[l].n, Now(l), tx[l].k + 1))]
    <3> DEFINE b == Byte(l, tx[l].n, Now(l), tx[l].k + 1)
    <3>1. wire'[l] = Append(wire[l], b)
      BY <2>3 DEF Types, TypeInv
    <3>2. b \in Unit /\ ~IsFile(b)
      BY <1>1 DEF IsFile, Byte
    <3> HIDE DEF b
    <3>3. /\ wire'[l] \in Seq(Unit) /\ Len(wire'[l]) = Len(wire[l]) + 1
          /\ \A j \in 1..Len(wire[l]) : wire'[l][j] = wire[l][j]
          /\ wire'[l][Len(wire[l]) + 1] = b
      BY <1>1, <3>1, <3>2, AppendProperties
    <3>4. wire' \in [Link -> Seq(Unit)] /\ \A m \in Link : m # l => wire'[m] = wire[m]
      BY <2>3, <3>1, <3>3 DEF Types, TypeInv
    <3>5. \A j \in 1..(Len(wire[l]) + 1) : j \in 1..Len(wire[l]) \/ j = Len(wire[l]) + 1
      BY <1>1
    <3>6. QED BY <2>1, <3>2, <3>3, <3>4, <3>5 DEF Fits
  <2>4. QED BY <2>2, <2>3 DEF Chunk
<1>4. slipped' \in SUBSET Link
  BY DEF Chunk, Types, TypeInv
<1>5. TypeInv'
  BY <1>2, <1>3, <1>4 DEF Chunk, disk, Types, TypeInv
<1>6. ASSUME NEW m \in Link PROVE PlaceInv(m)'
  <2>1. CASE m = l
    <3>1. tx'[l].n \in 1..(Last(l) + 1) /\ tx'[l].pc # "closed"
          /\ (tx'[l].pc \in {"open", "send"} => tx'[l].n <= Last(l))
      BY <1>1, <1>2
    <3>2. QED BY <1>1, <1>3, <2>1, <3>1 DEF disk, Chunk, Types, PlaceInv, Fits, Last, IsFile
  <2>2. CASE m # l
    BY <1>2, <1>3, <2>2, PlaceKept DEF disk, Chunk, Types
  <2>3. QED BY <2>1, <2>2
<1>7. QED BY <1>5, <1>6 DEF Types

\* The end of a session, whether it ends by itself or the connection is lost.
LEMMA TypesClosed ==
  ASSUME Types, NEW l \in Link, wire' \in [Link -> Seq(Unit)],
         \A m \in Link : m # l => wire'[m] = wire[m],
         \A j \in 1..Len(wire'[l]) :
            Fits(l, wire'[l][j]),
         up' = [up EXCEPT ![l] = FALSE], tx' = [tx EXCEPT ![l].pc = "closed"],
         faults' \in 0..MaxFaults,
         UNCHANGED <<source, asked, rx, disk, entry, changed, slipped, met>>
  PROVE  Types'
<1>1. tx[l] \in Tx /\ tx[l].n \in 1..(Last(l) + 1)
  BY LinkTypes DEF Types, PlaceInv
<1>2. /\ tx' \in [Link -> Tx] /\ up' \in [Link -> BOOLEAN] /\ ~up'[l]
      /\ tx'[l].pc = "closed" /\ tx'[l].n = tx[l].n
      /\ \A m \in Link : m # l => tx'[m] = tx[m] /\ up'[m] = up[m]
  BY <1>1 DEF Types, TypeInv, Tx
<1>3. TypeInv'
  BY <1>2 DEF disk, Types, TypeInv
<1>4. ASSUME NEW m \in Link PROVE PlaceInv(m)'
  <2>1. CASE m = l
    BY <1>1, <1>2, <2>1 DEF disk, Types, PlaceInv, Fits, Last, IsFile
  <2>2. CASE m # l
    BY <1>2, <2>2, PlaceKept DEF disk, Types
  <2>3. QED BY <2>1, <2>2
<1>5. QED BY <1>3, <1>4 DEF Types

\* The sender ends its session.
LEMMA TypesClose ==
  ASSUME Types, NEW l \in Link, Close(l)
  PROVE  Types'
<1>1. wire[l] \in Seq(Unit) /\ Len(wire[l]) \in Nat
  BY LinkTypes
<1>2. \A j \in 1..Len(wire[l]) : Fits(l, wire[l][j])
  BY DEF Types, PlaceInv, IsFile
<1>3. /\ wire' \in [Link -> Seq(Unit)]
      /\ \A m \in Link : m # l => wire'[m] = wire[m]
      /\ \A j \in 1..Len(wire'[l]) :
            Fits(l, wire'[l][j])
  <2>1. CASE wire' = wire
    BY <1>2, <2>1 DEF Types, TypeInv
  <2>2. CASE wire' = [wire EXCEPT ![l] = @ \o Message(l, "ack", 0, [edit |-> 0, size |-> 0])]
    <3>1. PICK a \in Unit : /\ Message(l, "ack", 0, [edit |-> 0, size |-> 0]) = <<a, Rest(l)>>
                            /\ a.t = "ack"
      <4>1. 0 \in 0..MaxFaults /\ 0 \in 0..MaxSize /\ 0 \in Nat
        BY SizeAssumption
      <4>2. Message(l, "ack", 0, [edit |-> 0, size |-> 0])
              = <<[t |-> "ack", by |-> l, n |-> 0, edit |-> 0, size |-> 0, k |-> 0], Rest(l)>>
        BY DEF Message
      <4>3. [t |-> "ack", by |-> l, n |-> 0, edit |-> 0, size |-> 0, k |-> 0] \in Unit
        BY <4>1, Units
      <4>4. QED BY <4>2, <4>3
    <3>2. wire'[l] = wire[l] \o <<a, Rest(l)>> /\ ~IsFile(a) /\ ~IsFile(Rest(l))
      BY <2>2, <3>1 DEF Types, TypeInv, IsFile, Rest
    <3>6. Rest(l) \in Unit
      BY SizeAssumption DEF Rest, Unit
    <3>3. /\ wire'[l] \in Seq(Unit) /\ Len(wire'[l]) = Len(wire[l]) + 2
          /\ \A j \in 1..Len(wire[l]) : wire'[l][j] = wire[l][j]
          /\ wire'[l][Len(wire[l]) + 1] = a /\ wire'[l][Len(wire[l]) + 2] = Rest(l)
      BY <1>1, <3>2, <3>6, TwoMore
    <3>4. wire' \in [Link -> Seq(Unit)] /\ \A m \in Link : m # l => wire'[m] = wire[m]
      BY <2>2, <3>2, <3>3 DEF Types, TypeInv
    <3>5. \A j \in 1..(Len(wire[l]) + 2) :
             j \in 1..Len(wire[l]) \/ j = Len(wire[l]) + 1 \/ j = Len(wire[l]) + 2
      BY <1>1
    <3>7. QED BY <1>2, <3>2, <3>3, <3>4, <3>5 DEF Fits
  <2>3. QED BY <2>1, <2>2 DEF Close
<1>4. faults' \in 0..MaxFaults
  BY DEF Close, Types, TypeInv
<1>5. QED BY <1>3, <1>4, TypesClosed DEF Close

\* A connection is lost.
LEMMA TypesCut ==
  ASSUME Types, NEW l \in Link, Cut(l)
  PROVE  Types'
<1>1. PICK n \in 0..Len(wire[l]) : wire' = [wire EXCEPT ![l] = SubSeq(@, 1, n)]
  BY DEF Cut
<1>2. wire[l] \in Seq(Unit) /\ Len(wire[l]) \in Nat /\ wire'[l] = SubSeq(wire[l], 1, n)
  BY <1>1, LinkTypes DEF Types, TypeInv
<1>3. /\ wire'[l] \in Seq(Unit) /\ Len(wire'[l]) = n
      /\ \A j \in 1..n : wire'[l][j] = wire[l][j]
  BY <1>2, Kept
<1>4. wire' \in [Link -> Seq(Unit)] /\ \A m \in Link : m # l => wire'[m] = wire[m]
  BY <1>1, <1>2, <1>3 DEF Types, TypeInv
<1>5. \A j \in 1..Len(wire'[l]) : Fits(l, wire'[l][j])
  BY <1>2, <1>3 DEF Types, PlaceInv, IsFile
<1>6. faults' \in 0..MaxFaults
  BY SizeAssumption DEF Cut, Types, TypeInv
<1>7. QED BY <1>4, <1>5, <1>6, TypesClosed DEF Cut

-----------------------------------------------------------------------------
(* ... at the receiver                                                     *)

\* What reading does to a connection.
LEMMA ConsumeTypes ==
  ASSUME Types, NEW l \in Link, NEW n \in 0..Len(wire[l]), Consume(l, n)
  PROVE  /\ wire' \in [Link -> Seq(Unit)]
         /\ \A m \in Link : m # l => wire'[m] = wire[m]
         /\ Len(wire'[l]) = Len(wire[l]) - n
         /\ \A j \in 1..Len(wire'[l]) : wire'[l][j] = wire[l][n + j]
<1>1. wire[l] \in Seq(Unit) /\ Len(wire[l]) \in Nat
  BY LinkTypes
<1>2. wire' = [wire EXCEPT ![l] = SubSeq(wire[l], n + 1, Len(wire[l]))]
  BY DEF Consume
<1>3. wire'[l] = SubSeq(wire[l], n + 1, Len(wire[l])) /\ wire \in [Link -> Seq(Unit)]
  BY <1>2 DEF Types, TypeInv
<1>4. /\ wire'[l] \in Seq(Unit) /\ Len(wire'[l]) = Len(wire[l]) - n
      /\ \A j \in 1..(Len(wire[l]) - n) : wire'[l][j] = wire[l][n + j]
  BY <1>1, <1>3, Consumed
<1>5. QED BY <1>2, <1>3, <1>4

\* The receiver's end alone moves.
RxPlace(l) ==
    /\ rx[l].pc \in {"ask", "msg", "write", "record"} => rx[l].left = 0
    /\ rx[l].pc = "body" => rx[l].at # None /\ rx[l].k + rx[l].left <= MaxSize
    /\ rx[l].pc = "drain" => rx[l].left > 0
    /\ rx[l].pc = "write" => rx[l].at # None /\ held[l] # None /\ rx[l].k <= held[l].size

\* The types through any step that touches one receiver and the disk.
LEMMA TypesReceiver ==
  ASSUME Types, NEW l \in Link,
         wire' = wire \/ \E n \in 1..Len(wire[l]) : Consume(l, n),
         rx' \in [Link -> Rx], \A m \in Link : m # l => rx'[m] = rx[m], RxPlace(l)',
         asked' \in [Link -> Nat],
         \A m \in Link : asked'[m] = asked[m] \/ asked'[m] <= Last(m),
         UNCHANGED <<source, tx, up>>,
         inode' \in [Id -> Seq(Unit)],
         file' \in [Path -> Id \cup {None}], tmp' \in [Path -> Id \cup {None}],
         held' \in [Link -> Unit \cup {None}], \A m \in Link : m # l => held'[m] = held[m],
         broken' \in SUBSET Path,
         entry' \in [Path -> Link \cup {None}], faults' \in 0..MaxFaults,
         met' \in SUBSET Path, UNCHANGED <<changed, slipped>>
  PROVE  Types'
<1>1. \A m \in Link : asked'[m] <= Last(m)
  BY DEF Types, PlaceInv
<1>2. /\ wire' \in [Link -> Seq(Unit)] /\ \A m \in Link : m # l => wire'[m] = wire[m]
      /\ \A j \in 1..Len(wire'[l]) :
            Fits(l, wire'[l][j])
  <2>1. Len(wire[l]) \in Nat
        /\ \A j \in 1..Len(wire[l]) : Fits(l, wire[l][j])
    BY LinkTypes DEF Types, PlaceInv, IsFile
  <2>2. CASE wire' = wire
    BY <2>1, <2>2 DEF Types, TypeInv
  <2>3. CASE \E n \in 1..Len(wire[l]) : Consume(l, n)
    <3>1. PICK n \in 1..Len(wire[l]) : Consume(l, n)
      BY <2>3
    <3>2. n \in 0..Len(wire[l])
      BY <2>1, <3>1
    <3>3. /\ wire' \in [Link -> Seq(Unit)] /\ \A m \in Link : m # l => wire'[m] = wire[m]
          /\ Len(wire'[l]) = Len(wire[l]) - n
          /\ \A j \in 1..Len(wire'[l]) : wire'[l][j] = wire[l][n + j]
      BY <3>1, <3>2, ConsumeTypes
    <3>4. \A j \in 1..(Len(wire[l]) - n) : n + j \in 1..Len(wire[l])
      BY <2>1, <3>2
    <3>5. QED BY <2>1, <3>3, <3>4
  <2>4. QED BY <2>2, <2>3
<1>3. TypeInv'
  BY <1>2 DEF Types, TypeInv
<1>4. ASSUME NEW m \in Link PROVE PlaceInv(m)'
  <2>1. rx'[m].pc \in {"ask", "msg", "write", "record"} => rx'[m].left = 0
    BY DEF RxPlace, Types, PlaceInv
  <2>2. rx'[m].pc = "body" => rx'[m].at # None /\ rx'[m].k + rx'[m].left <= MaxSize
    BY DEF RxPlace, Types, PlaceInv
  <2>5. rx'[m].pc = "drain" => rx'[m].left > 0
    BY DEF RxPlace, Types, PlaceInv
  <2>6. rx'[m].pc = "write" =>
            rx'[m].at # None /\ held'[m] # None /\ rx'[m].k <= held'[m].size
    BY DEF RxPlace, Types, PlaceInv
  <2>3. \A j \in 1..Len(wire'[m]) : Fits(m, wire'[m][j])
    BY <1>2 DEF Types, PlaceInv, IsFile
  <2>4. QED BY <1>1, <2>1, <2>2, <2>3, <2>5, <2>6 DEF Types, PlaceInv, Fits, Last, IsFile
<1>5. QED BY <1>3, <1>4 DEF Types

\* The receiver waits, asks or stops.
LEMMA GoTypes ==
  ASSUME Types, NEW l \in Link, NEW pc \in {"ask", "msg", "end"}, Go(l, pc)
  PROVE  /\ rx' \in [Link -> Rx] /\ RxPlace(l)'
         /\ rx'[l].pc = pc /\ rx'[l].left = 0
         /\ \A m \in Link : m # l => rx'[m] = rx[m]
<1>1. Files[l][1] \in Path /\ rx \in [Link -> Rx]
  BY LinkTypes DEF Types, TypeInv
<1>2. Waiting(l, pc) \in Rx /\ Waiting(l, pc).left = 0 /\ Waiting(l, pc).pc = pc
  BY <1>1, SizeAssumption DEF Waiting, Rx
<1>3. rx' = [rx EXCEPT ![l] = Waiting(l, pc)]
  BY DEF Go
<1>4. rx' \in [Link -> Rx] /\ rx'[l] = Waiting(l, pc)
      /\ \A m \in Link : m # l => rx'[m] = rx[m]
  BY <1>1, <1>2, <1>3
<1>5. QED BY <1>2, <1>4 DEF RxPlace

\* The types of what a step of the receiver leaves alone.
LEMMA DiskTypes ==
  ASSUME Types
  PROVE  /\ inode \in [Id -> Seq(Unit)]
         /\ file \in [Path -> Id \cup {None}] /\ tmp \in [Path -> Id \cup {None}]
         /\ entry \in [Path -> Link \cup {None}] /\ faults \in 0..MaxFaults
         /\ met \in SUBSET Path /\ asked \in [Link -> Nat] /\ rx \in [Link -> Rx]
         /\ held \in [Link -> Unit \cup {None}] /\ broken \in SUBSET Path
BY DEF Types, TypeInv

\* A receiver that reads n units, or none, and waits for what comes then.
LEMMA TypesGo ==
  ASSUME Types, NEW l \in Link, NEW pc \in {"ask", "msg", "end"}, Go(l, pc),
         wire' = wire \/ \E n \in 1..Len(wire[l]) : Consume(l, n),
         asked' = asked, UNCHANGED <<source, tx, up, inode, file, tmp, held>>,
         broken' \in SUBSET Path, entry' \in [Path -> Link \cup {None}], faults' \in 0..MaxFaults,
         UNCHANGED <<changed, slipped, met>>
  PROVE  Types'
<1>1. /\ rx' \in [Link -> Rx] /\ RxPlace(l)' /\ \A m \in Link : m # l => rx'[m] = rx[m]
  BY GoTypes
<1>2. /\ inode' \in [Id -> Seq(Unit)]
      /\ file' \in [Path -> Id \cup {None}] /\ tmp' \in [Path -> Id \cup {None}]
      /\ met' \in SUBSET Path /\ asked' \in [Link -> Nat]
      /\ held' \in [Link -> Unit \cup {None}] /\ \A m \in Link : held'[m] = held[m]
      /\ \A m \in Link : asked'[m] = asked[m] \/ asked'[m] <= Last(m)
  BY DiskTypes
<1>3. QED BY <1>1, <1>2, TypesReceiver

\* A pull asks for its next file.
LEMMA TypesAsk ==
  ASSUME Types, NEW l \in Link, Ask(l)
  PROVE  Types'
<1>1. \E pc \in {"msg", "end"} : Go(l, pc)
  BY DEF Ask, Finish
<1>2. /\ rx' \in [Link -> Rx] /\ RxPlace(l)' /\ \A m \in Link : m # l => rx'[m] = rx[m]
  BY <1>1, GoTypes
<1>3. asked' \in [Link -> Nat] /\ \A m \in Link : asked'[m] = asked[m] \/ asked'[m] <= Last(m)
  <2>1. asked[l] \in Nat /\ Last(l) \in Nat /\ asked[l] <= Last(l) /\ asked \in [Link -> Nat]
    BY LinkTypes, DiskTypes DEF Types, PlaceInv
  <2>2. QED BY <2>1 DEF Ask
<1>4. /\ inode' \in [Id -> Seq(Unit)]
      /\ file' \in [Path -> Id \cup {None}] /\ tmp' \in [Path -> Id \cup {None}]
      /\ entry' \in [Path -> Link \cup {None}] /\ faults' \in 0..MaxFaults
      /\ met' \in SUBSET Path
      /\ held' \in [Link -> Unit \cup {None}] /\ held' = held /\ broken' \in SUBSET Path
  BY DiskTypes DEF Ask, disk
<1>5. QED BY <1>2, <1>3, <1>4, TypesReceiver DEF Ask, disk

\* A message at the front of a connection.
LEMMA FrontTypes ==
  ASSUME Types, NEW l \in Link, IsMessage(l)
  PROVE  /\ 2 \in 1..Len(wire[l]) /\ 1 \in 1..Len(wire[l]) /\ wire[l][1] \in Unit
         /\ wire[l][1].size \in 0..MaxSize
         /\ IsFile(wire[l][1]) => wire[l][1].n \in 1..Last(l) /\ Named(l) \in Path
         /\ wire[l][1].t = "stream" => wire[l][1].size > 0
         /\ wire[l][1].t = "data" => wire[l][1].size < Threshold
<1>1. Len(wire[l]) \in Nat /\ Len(wire[l]) >= 2
  BY LinkTypes DEF IsMessage
<1>2. wire[l][1] \in Unit
  BY <1>1, LinkTypes
<1>3. /\ IsFile(wire[l][1]) => wire[l][1].n \in 1..Last(l)
      /\ wire[l][1].t = "stream" => wire[l][1].size > 0
      /\ wire[l][1].t = "data" => wire[l][1].size < Threshold
  BY <1>1 DEF Types, PlaceInv, Fits, IsFile
<1>4. IsFile(wire[l][1]) => Named(l) \in Path
  BY <1>3, LinkTypes DEF Named
<1>5. QED BY <1>1, <1>2, <1>3, <1>4 DEF Unit

\* A message that changes nothing at the receiver.
LEMMA TypesSkip ==
  ASSUME Types, NEW l \in Link, RejectData(l) \/ ReadAck(l) \/ ReadJunk(l)
  PROVE  Types'
<1>1. \E pc \in {"ask", "msg", "end"} : Go(l, pc)
  BY DEF RejectData, ReadAck, ReadJunk, Finish, Ready
<1>2. \E n \in 1..Len(wire[l]) : Consume(l, n)
  BY FrontTypes DEF RejectData, ReadAck, ReadJunk
<1>3. /\ asked' = asked /\ UNCHANGED <<source, tx, up, inode, file, tmp, held, broken>>
      /\ UNCHANGED <<changed, slipped, met>> /\ entry' = entry /\ faults' = faults
  BY DEF RejectData, ReadAck, ReadJunk, sending, disk
<1>4. entry' \in [Path -> Link \cup {None}] /\ faults' \in 0..MaxFaults
      /\ broken' \in SUBSET Path
  BY <1>3, DiskTypes
<1>5. QED BY <1>1, <1>2, <1>3, <1>4, TypesGo

\* A reception ends, or its entry is recorded.
LEMMA TypesEnd ==
  ASSUME Types, NEW l \in Link,
         ReadEnd(l) \/ BodyEnds(l) \/ ReplaceFails(l) \/ DiskFull(l) \/ Record(l)
  PROVE  Types'
<1>1. \E pc \in {"ask", "msg", "end"} : Go(l, pc)
  BY DEF ReadEnd, BodyEnds, ReplaceFails, DiskFull, Record, Finish, Ready
<1>2. /\ asked' = asked /\ UNCHANGED <<source, tx, up, inode, file, tmp, held>>
      /\ UNCHANGED <<changed, slipped, met>> /\ wire' = wire
  BY DEF ReadEnd, BodyEnds, ReplaceFails, DiskFull, Record, sending, disk
<1>3. faults' \in 0..MaxFaults
  BY DiskTypes, SizeAssumption DEF ReadEnd, BodyEnds, ReplaceFails, DiskFull, Record
<1>4. entry' \in [Path -> Link \cup {None}] /\ broken' \in SUBSET Path
  <2>1. rx[l].path \in Path
    BY LinkTypes DEF Rx
  <2>2. QED BY <2>1, DiskTypes DEF ReadEnd, BodyEnds, ReplaceFails, DiskFull, Record, disk
<1>5. QED BY <1>1, <1>2, <1>3, <1>4, TypesGo

\* A stream is going to be drained.
LEMMA TypesRejectStream ==
  ASSUME Types, NEW l \in Link, RejectStream(l)
  PROVE  Types'
<1>1. /\ wire[l][1].size \in 0..MaxSize /\ wire[l][1].size > 0
      /\ \E n \in 1..Len(wire[l]) : Consume(l, n)
  BY FrontTypes DEF RejectStream
<1>2. PICK s \in 0..MaxSize : s = wire[l][1].size
  BY <1>1
<1>3. rx' = [rx EXCEPT ![l].pc = "drain", ![l].left = s]
  BY <1>2 DEF RejectStream
<1>4. rx \in [Link -> Rx] /\ rx[l] \in Rx
  BY DiskTypes
<1>5. PICK r : r = [rx[l] EXCEPT !.pc = "drain", !.left = s]
  OBVIOUS
<1>6. r \in Rx /\ r.pc = "drain" /\ r.left > 0 /\ rx' = [rx EXCEPT ![l] = r]
  BY <1>1, <1>2, <1>3, <1>4, <1>5 DEF Rx
<1>7. /\ rx' \in [Link -> Rx] /\ RxPlace(l)' /\ \A m \in Link : m # l => rx'[m] = rx[m]
  BY <1>4, <1>6 DEF RxPlace
<1>8. /\ inode' \in [Id -> Seq(Unit)]
      /\ file' \in [Path -> Id \cup {None}] /\ tmp' \in [Path -> Id \cup {None}]
      /\ entry' \in [Path -> Link \cup {None}] /\ faults' \in 0..MaxFaults
      /\ met' \in SUBSET Path /\ asked' \in [Link -> Nat] /\ asked' = asked
      /\ held' \in [Link -> Unit \cup {None}] /\ held' = held /\ broken' \in SUBSET Path
  BY DiskTypes DEF RejectStream, disk, sending
<1>9. QED BY <1>1, <1>7, <1>8, TypesReceiver DEF RejectStream, disk, sending

\* Where a stream is written, and the receiver that writes it.
LEMMA StreamTypes ==
  ASSUME Types, NEW l \in Link, ReadStream(l)
  PROVE  \E p \in Path, i \in Id, s \in 0..MaxSize :
            /\ p = Named(l) /\ p = Files[l][wire[l][1].n] /\ s = wire[l][1].size
            /\ i = IF tmp[p] = None THEN <<l, p>> ELSE tmp[p]
            /\ tmp' = [tmp EXCEPT ![p] = i] /\ inode' = [inode EXCEPT ![i] = <<>>]
            /\ file' = file
            /\ rx' \in [Link -> Rx] /\ \A m \in Link : m # l => rx'[m] = rx[m]
            /\ rx'[l] = [pc |-> "body", path |-> p, at |-> i, left |-> s, k |-> 0]
            /\ i # None
<1>1. /\ wire[l][1].size \in 0..MaxSize /\ Named(l) \in Path
      /\ Named(l) = Files[l][wire[l][1].n]
  BY FrontTypes DEF ReadStream, IsFile, Named
<1>2. PICK p \in Path : p = Named(l)
  BY <1>1
<1>3. PICK s \in 0..MaxSize : s = wire[l][1].size
  BY <1>1
<1>4. PICK i : i = IF tmp[p] = None THEN <<l, p>> ELSE tmp[p]
  OBVIOUS
<1>5. i \in Id /\ i # None
  <2>1. <<l, p>> \in Id /\ tmp[p] \in Id \cup {None}
    BY DiskTypes DEF Id
  <2>2. \A x \in Id : x # None
    BY DEF Id, None
  <2>3. QED BY <1>4, <2>1, <2>2
<1>6. /\ tmp' = [tmp EXCEPT ![p] = i] /\ inode' = [inode EXCEPT ![i] = <<>>]
      /\ file' = file
      /\ rx' = [rx EXCEPT ![l] = [@ EXCEPT !.pc = "body", !.path = p, !.at = i,
                                            !.left = s, !.k = 0]]
  BY <1>2, <1>3, <1>4 DEF ReadStream, OpenTmp
<1>7. rx \in [Link -> Rx] /\ rx[l] \in Rx /\ 0 \in 0..MaxSize
  BY DiskTypes, SizeAssumption
<1>8. PICK r : r = [rx[l] EXCEPT !.pc = "body", !.path = p, !.at = i, !.left = s, !.k = 0]
  OBVIOUS
<1>9. r = [pc |-> "body", path |-> p, at |-> i, left |-> s, k |-> 0] /\ r \in Rx
  BY <1>5, <1>7, <1>8 DEF Rx
<1>10. rx' = [rx EXCEPT ![l] = r]
  BY <1>6, <1>8
<1>11. rx' \in [Link -> Rx] /\ rx'[l] = r /\ \A m \in Link : m # l => rx'[m] = rx[m]
  BY <1>7, <1>9, <1>10
<1>12. QED BY <1>1, <1>2, <1>3, <1>4, <1>5, <1>6, <1>9, <1>11

\* A stream is going to be written.
LEMMA TypesReadStream ==
  ASSUME Types, NEW l \in Link, ReadStream(l)
  PROVE  Types'
<1>1. wire[l][1].size \in 0..MaxSize /\ \E n \in 1..Len(wire[l]) : Consume(l, n)
  BY FrontTypes DEF ReadStream
<1>2. PICK p \in Path, i \in Id, s \in 0..MaxSize :
            /\ p = Named(l) /\ p = Files[l][wire[l][1].n] /\ s = wire[l][1].size
            /\ i = IF tmp[p] = None THEN <<l, p>> ELSE tmp[p]
            /\ tmp' = [tmp EXCEPT ![p] = i] /\ inode' = [inode EXCEPT ![i] = <<>>]
            /\ file' = file
            /\ rx' \in [Link -> Rx] /\ \A m \in Link : m # l => rx'[m] = rx[m]
            /\ rx'[l] = [pc |-> "body", path |-> p, at |-> i, left |-> s, k |-> 0]
            /\ i # None
  BY StreamTypes
<1>7. met' \in {met, met \cup {p}}
  BY <1>2 DEF ReadStream, Meets
<1>3. RxPlace(l)'
  <2> DEFINE r == [pc |-> "body", path |-> p, at |-> i, left |-> s, k |-> 0]
  <2>0. rx'[l] = r
    BY <1>2
  <2>1. rx'[l].pc = "body" /\ rx'[l].at = i /\ rx'[l].left = s /\ rx'[l].k = 0
    BY <2>0
  <2>2. 0 + s <= MaxSize
    BY SizeAssumption
  <2>3. QED BY <1>2, <2>1, <2>2 DEF RxPlace
<1>4. /\ inode' \in [Id -> Seq(Unit)]
      /\ file' \in [Path -> Id \cup {None}] /\ tmp' \in [Path -> Id \cup {None}]
      /\ met' \in SUBSET Path
  <2>1. <<>> \in Seq(Unit)
    BY EmptySeq
  <2>2. QED BY <1>2, <1>7, <2>1, DiskTypes
<1>5. /\ entry' \in [Path -> Link \cup {None}] /\ faults' \in 0..MaxFaults
      /\ asked' \in [Link -> Nat] /\ asked' = asked
      /\ held' \in [Link -> Unit \cup {None}] /\ held' = held /\ broken' \in SUBSET Path
  BY DiskTypes DEF ReadStream, OpenTmp, sending
<1>6. QED BY <1>1, <1>2, <1>3, <1>4, <1>5, TypesReceiver DEF ReadStream, sending

\* The bytes of a message.
ByteFrom(u, k) ==
    [t |-> "byte", by |-> u.by, n |-> u.n, edit |-> u.edit, size |-> u.size, k |-> k]

\* A byte cut out of a message is a record of its own.
LEMMA SentByte ==
  ASSUME NEW u \in Unit, NEW k
  PROVE  [u EXCEPT !.t = "byte", !.k = k] = ByteFrom(u, k)
<1>1. PICK r : r = [u EXCEPT !.t = "byte", !.k = k]
  OBVIOUS
<1>2. r = ByteFrom(u, k)
  BY <1>1 DEF Unit, ByteFrom
<1>3. QED BY <1>1, <1>2

\* The file a message is going to be written to, and the receiver that writes it.
LEMMA DataTypes ==
  ASSUME Types, NEW l \in Link, ReadData(l)
  PROVE  \E p \in Path, i \in Id, u \in Unit :
            /\ p = Named(l) /\ u = wire[l][1] /\ p = Files[l][u.n]
            /\ i = IF file[p] = None THEN <<l, p>> ELSE file[p]
            /\ file' = [file EXCEPT ![p] = i] /\ inode' = [inode EXCEPT ![i] = <<>>]
            /\ tmp' = tmp /\ held' = [held EXCEPT ![l] = u]
            /\ rx' \in [Link -> Rx] /\ \A m \in Link : m # l => rx'[m] = rx[m]
            /\ rx'[l].pc = "write" /\ rx'[l].path = p /\ rx'[l].at = i
            /\ rx'[l].left = 0 /\ rx'[l].k = 0
            /\ i # None
<1>1. Named(l) \in Path /\ wire[l][1] \in Unit /\ Named(l) = Files[l][wire[l][1].n]
  BY FrontTypes DEF ReadData, IsFile, Named
<1>2. PICK p \in Path : p = Named(l)
  BY <1>1
<1>3. PICK u \in Unit : u = wire[l][1]
  BY <1>1
<1>4. PICK i : i = IF file[p] = None THEN <<l, p>> ELSE file[p]
  OBVIOUS
<1>5. i \in Id /\ i # None
  <2>1. <<l, p>> \in Id /\ file[p] \in Id \cup {None}
    BY DiskTypes DEF Id
  <2>2. \A x \in Id : x # None
    BY DEF Id, None
  <2>3. QED BY <1>4, <2>1, <2>2
<1>6. /\ file' = [file EXCEPT ![p] = i] /\ inode' = [inode EXCEPT ![i] = <<>>]
      /\ tmp' = tmp /\ held' = [held EXCEPT ![l] = u]
      /\ rx' = [rx EXCEPT ![l] = [@ EXCEPT !.pc = "write", !.path = p, !.at = i, !.k = 0]]
  BY <1>2, <1>3, <1>4 DEF ReadData
<1>7. rx \in [Link -> Rx] /\ rx[l] \in Rx /\ 0 \in 0..MaxSize /\ rx[l].left = 0
  BY DiskTypes, SizeAssumption DEF ReadData, Types, PlaceInv
<1>8. PICK r : r = [rx[l] EXCEPT !.pc = "write", !.path = p, !.at = i, !.k = 0]
  OBVIOUS
<1>9. /\ r \in Rx /\ r.pc = "write" /\ r.path = p /\ r.at = i /\ r.left = 0 /\ r.k = 0
  BY <1>5, <1>7, <1>8 DEF Rx
<1>10. rx' = [rx EXCEPT ![l] = r]
  BY <1>6, <1>8
<1>11. rx' \in [Link -> Rx] /\ rx'[l] = r /\ \A m \in Link : m # l => rx'[m] = rx[m]
  BY <1>7, <1>9, <1>10
<1>12. QED BY <1>1, <1>2, <1>3, <1>4, <1>5, <1>6, <1>9, <1>11

\* A message with the content arrives.
LEMMA TypesReadData ==
  ASSUME Types, NEW l \in Link, ReadData(l)
  PROVE  Types'
<1>1. \E n \in 1..Len(wire[l]) : Consume(l, n)
  BY FrontTypes DEF ReadData
<1>2. PICK p \in Path, i \in Id, u \in Unit :
            /\ p = Named(l) /\ u = wire[l][1] /\ p = Files[l][u.n]
            /\ i = IF file[p] = None THEN <<l, p>> ELSE file[p]
            /\ file' = [file EXCEPT ![p] = i] /\ inode' = [inode EXCEPT ![i] = <<>>]
            /\ tmp' = tmp /\ held' = [held EXCEPT ![l] = u]
            /\ rx' \in [Link -> Rx] /\ \A m \in Link : m # l => rx'[m] = rx[m]
            /\ rx'[l].pc = "write" /\ rx'[l].path = p /\ rx'[l].at = i
            /\ rx'[l].left = 0 /\ rx'[l].k = 0
            /\ i # None
  BY DataTypes
<1>3. /\ held' \in [Link -> Unit \cup {None}] /\ \A m \in Link : m # l => held'[m] = held[m]
      /\ held'[l] = u
  BY <1>2, DiskTypes
<1>4. u # None /\ 0 <= u.size
  <2>1. u.size \in 0..MaxSize /\ u.t \in {"data", "stream", "ack", "rest", "byte"}
    BY DEF Unit
  <2>2. wire[l][1].t = "data"
    BY DEF ReadData
  <2>3. u \in [t : {"data", "stream", "ack", "rest", "byte"}, by : Link,
                n : Nat, edit : 0..MaxFaults, size : 0..MaxSize, k : Nat]
    BY DEF Unit
  <2>4. DOMAIN u = {"t", "by", "n", "edit", "size", "k"}
    BY <2>3
  <2>5. DOMAIN <<>> = {}
    OBVIOUS
  <2>6. QED BY <2>1, <2>4, <2>5, SizeAssumption DEF None
<1>5. RxPlace(l)'
  BY <1>2, <1>3, <1>4 DEF RxPlace
<1>6. met' \in {met, met \cup {p}} /\ broken' = broken
  BY <1>2 DEF ReadData, Meets
<1>7. /\ inode' \in [Id -> Seq(Unit)]
      /\ file' \in [Path -> Id \cup {None}] /\ tmp' \in [Path -> Id \cup {None}]
      /\ met' \in SUBSET Path /\ broken' \in SUBSET Path
  <2>1. <<>> \in Seq(Unit)
    BY EmptySeq
  <2>2. QED BY <1>2, <1>6, <2>1, DiskTypes
<1>8. /\ entry' \in [Path -> Link \cup {None}] /\ faults' \in 0..MaxFaults
      /\ asked' \in [Link -> Nat] /\ asked' = asked
  BY DiskTypes DEF ReadData, sending
<1>9. QED BY <1>1, <1>2, <1>3, <1>5, <1>7, <1>8, TypesReceiver DEF ReadData, sending

\* A unit is written where the reception is, and the file grows to hold it.
LEMMA PutTypes ==
  ASSUME Types, NEW l \in Link, rx[l].pc \in {"body", "write"}, NEW u \in Unit, Put(l, u)
  PROVE  \E i \in Id, v \in Seq(Unit), n \in Nat :
            /\ i = rx[l].at /\ n = Len(inode[i])
            /\ inode' = [inode EXCEPT ![i] = v]
            /\ Len(v) = IF n >= rx[l].k + 1 THEN n ELSE rx[l].k + 1
            /\ \A k \in 1..Len(v) :
                  v[k] = IF k = rx[l].k + 1 THEN u
                         ELSE IF k <= n THEN inode[i][k] ELSE Rest(l)
<1>1. rx[l] \in Rx /\ rx[l].at \in Id /\ rx[l].k \in Nat
  <2>1. rx[l] \in Rx /\ rx[l].at # None
    BY LinkTypes DEF Types, PlaceInv
  <2>2. QED BY <2>1, SizeAssumption DEF Rx
<1>2. PICK i \in Id : i = rx[l].at
  BY <1>1
<1>3. inode[i] \in Seq(Unit)
  BY DiskTypes
<1>4. PICK n \in Nat : n = Len(inode[i])
  BY <1>3, LenProperties
<1>6. PICK b \in Nat : b = rx[l].k + 1
  BY <1>1
<1>7. PICK z \in Nat : z = Max({n, b}) /\ z = IF n >= b THEN n ELSE b
  BY MaxPair
<1>8. PICK v : v = [k \in 1..z |-> IF k = b THEN u ELSE IF k <= n THEN inode[i][k] ELSE Rest(l)]
  OBVIOUS
<1>9. v \in Seq(Unit) /\ Len(v) = z
  <2>1. Rest(l) \in Unit
    BY SizeAssumption DEF Rest, Unit
  <2>2. \A k \in 1..z : k <= n => inode[i][k] \in Unit
    BY <1>3, <1>4, ElementOfSeq
  <2>3. v \in [1..z -> Unit]
    BY <1>8, <2>1, <2>2
  <2>4. v \in Seq(Unit)
    BY <2>3, SeqDef
  <2>5. Len(v) \in Nat /\ 1..Len(v) = 1..z
    <3>1. DOMAIN v = 1..z
      BY <1>8
    <3>2. QED BY <2>4, <3>1, LenProperties
  <2>6. QED BY <2>4, <2>5
<1>10. inode' = [inode EXCEPT ![i] = v]
  BY <1>2, <1>4, <1>6, <1>7, <1>8 DEF Put
<1>11. /\ i = rx[l].at /\ n = Len(inode[i])
       /\ inode' = [inode EXCEPT ![i] = v]
       /\ Len(v) = IF n >= rx[l].k + 1 THEN n ELSE rx[l].k + 1
       /\ \A k \in 1..Len(v) :
             v[k] = IF k = rx[l].k + 1 THEN u
                    ELSE IF k <= n THEN inode[i][k] ELSE Rest(l)
  BY <1>2, <1>4, <1>6, <1>7, <1>8, <1>9, <1>10
<1> v \in Seq(Unit)
  BY <1>9
<1> WITNESS i \in Id, v \in Seq(Unit), n \in Nat
<1>12. QED BY <1>11

\* What is written of a stream is the next unit of the connection.
LEMMA BodyTypes ==
  ASSUME Types, NEW l \in Link, Body(l)
  PROVE  wire[l][1] \in Unit /\ Put(l, wire[l][1])
<1>1. wire[l] \in Seq(Unit) /\ wire[l] # <<>>
  BY LinkTypes DEF Body
<1>2. Head(wire[l]) \in Unit /\ Head(wire[l]) = wire[l][1]
  BY <1>1, HeadTailProperties
<1>3. QED BY <1>2 DEF Body

\* What is written of a message is its next byte.
LEMMA WriteTypes ==
  ASSUME Types, NEW l \in Link, Write(l)
  PROVE  /\ held[l] \in Unit /\ rx[l].k + 1 \in Nat
         /\ ByteFrom(held[l], rx[l].k + 1) \in Unit
         /\ Put(l, ByteFrom(held[l], rx[l].k + 1))
         /\ rx' \in [Link -> Rx] /\ \A m \in Link : m # l => rx'[m] = rx[m]
         /\ rx'[l].pc = "write" /\ rx'[l].path = rx[l].path /\ rx'[l].at = rx[l].at
         /\ rx'[l].left = rx[l].left /\ rx'[l].k = rx[l].k + 1
         /\ rx[l].k + 1 <= held[l].size
<1>1. rx[l] \in Rx /\ held[l] \in Unit /\ rx \in [Link -> Rx]
  BY LinkTypes, DiskTypes DEF Write, Types, PlaceInv
<1>2. PICK u \in Unit : u = held[l]
  BY <1>1
<1>3. u.size \in 0..MaxSize /\ rx[l].k \in 0..MaxSize /\ rx[l].k < u.size
  BY <1>1, <1>2 DEF Unit, Rx, Write
<1>4. PICK k \in 0..MaxSize : k = rx[l].k + 1 /\ k \in Nat /\ k <= u.size
  BY <1>3, SizeAssumption
<1>5. ByteFrom(u, k) \in Unit
  BY <1>4 DEF Unit, ByteFrom
<1>6. Put(l, ByteFrom(u, k))
  <2>1. [u EXCEPT !.t = "byte", !.k = k] = ByteFrom(u, k)
    BY SentByte
  <2>2. QED BY <1>2, <1>4, <2>1 DEF Write
<1>7. PICK r : r = [rx[l] EXCEPT !.k = k]
  OBVIOUS
<1>8. /\ r \in Rx /\ r.pc = "write" /\ r.path = rx[l].path /\ r.at = rx[l].at
      /\ r.left = rx[l].left /\ r.k = k
  BY <1>1, <1>4, <1>7 DEF Rx, Write
<1>9. rx' = [rx EXCEPT ![l] = r]
  BY <1>4, <1>7 DEF Write
<1>10. rx' \in [Link -> Rx] /\ rx'[l] = r /\ \A m \in Link : m # l => rx'[m] = rx[m]
  BY <1>1, <1>8, <1>9
<1>11. QED BY <1>1, <1>2, <1>4, <1>5, <1>6, <1>8, <1>10

\* The receiver counts the bytes it reads.
LEMMA CountTypes ==
  ASSUME Types, NEW l \in Link, rx[l].left > 0, rx[l].pc = "drain" => rx[l].left # 1,
         \/ rx[l].pc = "body" /\ rx' = [rx EXCEPT ![l].left = @ - 1, ![l].k = @ + 1]
         \/ rx[l].pc = "drain" /\ rx' = [rx EXCEPT ![l].left = @ - 1]
  PROVE  /\ rx' \in [Link -> Rx] /\ RxPlace(l)'
         /\ \A m \in Link : m # l => rx'[m] = rx[m]
         /\ rx'[l].pc = rx[l].pc /\ rx'[l].path = rx[l].path /\ rx'[l].at = rx[l].at
         /\ rx'[l].left = rx[l].left - 1
         /\ rx[l].pc = "body" => rx'[l].k = rx[l].k + 1
<1>1. rx \in [Link -> Rx] /\ rx[l] \in Rx
  BY DiskTypes
<1>2. /\ rx[l].left - 1 \in 0..MaxSize
      /\ rx[l].pc = "body" => rx[l].k + 1 \in 0..MaxSize
      /\ rx[l].pc = "body" => rx[l].at # None /\ rx[l].k + rx[l].left <= MaxSize
  BY <1>1, SizeAssumption DEF Types, PlaceInv, Rx
<1>3. CASE rx[l].pc = "body" /\ rx' = [rx EXCEPT ![l].left = @ - 1, ![l].k = @ + 1]
  <2>1. PICK a \in 0..MaxSize, b \in 0..MaxSize : a = rx[l].left - 1 /\ b = rx[l].k + 1
    BY <1>2, <1>3
  <2>2. PICK r : r = [rx[l] EXCEPT !.left = a, !.k = b]
    OBVIOUS
  <2>3. /\ r \in Rx /\ r.pc = rx[l].pc /\ r.path = rx[l].path /\ r.at = rx[l].at
        /\ r.left = a /\ r.k = b
    BY <1>1, <2>2 DEF Rx
  <2>4. rx' = [rx EXCEPT ![l] = r]
    BY <1>3, <2>1, <2>2
  <2>5. rx' \in [Link -> Rx] /\ rx'[l] = r /\ \A m \in Link : m # l => rx'[m] = rx[m]
    BY <1>1, <2>3, <2>4
  <2>6. r.k + r.left <= MaxSize
    BY <1>1, <1>2, <1>3, <2>1, <2>3, SizeAssumption DEF Rx
  <2>7. RxPlace(l)'
    BY <1>2, <1>3, <2>3, <2>5, <2>6 DEF RxPlace
  <2>8. QED BY <2>1, <2>3, <2>5, <2>7
<1>4. CASE rx[l].pc = "drain" /\ rx' = [rx EXCEPT ![l].left = @ - 1]
  BY <1>1, <1>2, <1>4 DEF RxPlace, Rx
<1>5. QED BY <1>3, <1>4

\* A byte of a stream is written.
LEMMA TypesBody ==
  ASSUME Types, NEW l \in Link, Body(l)
  PROVE  Types'
<1>1. \E n \in 1..Len(wire[l]) : Consume(l, n)
  BY LinkTypes DEF Body
<1>2. rx' \in [Link -> Rx] /\ RxPlace(l)' /\ \A m \in Link : m # l => rx'[m] = rx[m]
  BY CountTypes DEF Body
<1>3. inode' \in [Id -> Seq(Unit)]
  <2>1. rx[l].pc \in {"body", "write"}
    BY DEF Body
  <2>2. PICK u \in Unit : Put(l, u)
    BY BodyTypes
  <2>3. PICK i \in Id, v \in Seq(Unit) : inode' = [inode EXCEPT ![i] = v]
    BY <2>1, <2>2, PutTypes
  <2>4. QED BY <2>3, DiskTypes
<1>4. /\ asked' = asked /\ UNCHANGED <<source, tx, up, file, tmp, held, broken, entry, faults>>
      /\ UNCHANGED <<changed, slipped, met>>
  BY DEF Body, sending
<1>5. /\ file' \in [Path -> Id \cup {None}] /\ tmp' \in [Path -> Id \cup {None}]
      /\ held' \in [Link -> Unit \cup {None}] /\ broken' \in SUBSET Path
      /\ entry' \in [Path -> Link \cup {None}] /\ faults' \in 0..MaxFaults
      /\ met' \in SUBSET Path /\ asked' \in [Link -> Nat]
  BY <1>4, DiskTypes
<1>6. QED BY <1>1, <1>2, <1>3, <1>4, <1>5, TypesReceiver

\* A byte of a message is.
LEMMA TypesWrite ==
  ASSUME Types, NEW l \in Link, Write(l)
  PROVE  Types'
<1>1. /\ asked' = asked /\ UNCHANGED <<source, tx, up, wire, file, tmp, held, broken>>
      /\ UNCHANGED <<entry, faults, changed, slipped, met>>
  BY DEF Write, sending
<1>2. RxPlace(l)'
  <2>1. rx[l].left = 0 /\ rx[l].at # None /\ held[l] # None
    BY DEF Write, Types, PlaceInv
  <2>2. QED BY <1>1, <2>1, WriteTypes DEF RxPlace
<1>3. rx' \in [Link -> Rx] /\ \A m \in Link : m # l => rx'[m] = rx[m]
  BY WriteTypes
<1>4. inode' \in [Id -> Seq(Unit)]
  <2>1. rx[l].pc \in {"body", "write"}
    BY DEF Write
  <2>2. PICK u \in Unit : Put(l, u)
    BY WriteTypes
  <2>3. PICK i \in Id, v \in Seq(Unit) : inode' = [inode EXCEPT ![i] = v]
    BY <2>1, <2>2, PutTypes
  <2>4. QED BY <2>3, DiskTypes
<1>5. /\ file' \in [Path -> Id \cup {None}] /\ tmp' \in [Path -> Id \cup {None}]
      /\ held' \in [Link -> Unit \cup {None}] /\ broken' \in SUBSET Path
      /\ entry' \in [Path -> Link \cup {None}] /\ faults' \in 0..MaxFaults
      /\ met' \in SUBSET Path /\ asked' \in [Link -> Nat]
  BY <1>1, DiskTypes
<1>6. QED BY <1>1, <1>2, <1>3, <1>4, <1>5, TypesReceiver

\* The writer of a message has come to its end.
LEMMA TypesWritten ==
  ASSUME Types, NEW l \in Link, Written(l)
  PROVE  /\ Types'
         /\ rx' \in [Link -> Rx] /\ \A m \in Link : m # l => rx'[m] = rx[m]
         /\ rx'[l].pc = "record" /\ rx'[l].path = rx[l].path
<1>1. /\ asked' = asked /\ UNCHANGED <<source, tx, up, wire, inode, file, tmp, held>>
      /\ UNCHANGED <<entry, faults, changed, slipped, met>>
  BY DEF Written, sending
<1>2. rx \in [Link -> Rx] /\ rx[l] \in Rx /\ rx[l].left = 0
  BY DiskTypes DEF Written, Types, PlaceInv
<1>3. /\ rx' \in [Link -> Rx] /\ \A m \in Link : m # l => rx'[m] = rx[m]
      /\ rx'[l].pc = "record" /\ rx'[l].path = rx[l].path /\ rx'[l].left = 0
  BY <1>2 DEF Rx, Written
<1>4. RxPlace(l)'
  BY <1>3 DEF RxPlace
<1>5. /\ inode' \in [Id -> Seq(Unit)]
      /\ file' \in [Path -> Id \cup {None}] /\ tmp' \in [Path -> Id \cup {None}]
      /\ held' \in [Link -> Unit \cup {None}]
      /\ entry' \in [Path -> Link \cup {None}] /\ faults' \in 0..MaxFaults
      /\ met' \in SUBSET Path /\ asked' \in [Link -> Nat]
  BY <1>1, DiskTypes
<1>6. broken' \in SUBSET Path
  BY DiskTypes DEF Written
<1>7. Types'
  BY <1>1, <1>3, <1>4, <1>5, <1>6, TypesReceiver
<1>8. QED BY <1>3, <1>7

\* A byte is thrown away.
LEMMA TypesDrain ==
  ASSUME Types, NEW l \in Link, Drain(l)
  PROVE  Types'
<1>1. \E n \in 1..Len(wire[l]) : Consume(l, n)
  BY LinkTypes DEF Drain
<1>2. rx' \in [Link -> Rx] /\ RxPlace(l)' /\ \A m \in Link : m # l => rx'[m] = rx[m]
  <2>1. CASE rx[l].left = 1
    BY <2>1, GoTypes DEF Drain, Ready
  <2>2. CASE rx[l].left # 1
    <3>1. rx[l] \in Rx
      BY LinkTypes
    <3>2. CASE rx[l].left > 0
      BY <2>2, <3>2, CountTypes DEF Drain
    <3>3. rx[l].left > 0
      BY DEF Types, PlaceInv, Drain
    <3>4. QED BY <3>2, <3>3
  <2>3. QED BY <2>1, <2>2
<1>3. /\ asked' = asked /\ UNCHANGED <<source, tx, up, inode, file, tmp, entry, faults>>
      /\ UNCHANGED <<held, broken, changed, slipped, met>>
  BY DEF Drain, sending, disk
<1>4. /\ inode' \in [Id -> Seq(Unit)]
      /\ held' \in [Link -> Unit \cup {None}] /\ broken' \in SUBSET Path
      /\ file' \in [Path -> Id \cup {None}] /\ tmp' \in [Path -> Id \cup {None}]
      /\ entry' \in [Path -> Link \cup {None}] /\ faults' \in 0..MaxFaults
      /\ met' \in SUBSET Path /\ asked' \in [Link -> Nat]
  BY <1>3, DiskTypes
<1>5. QED BY <1>1, <1>2, <1>3, <1>4, TypesReceiver

\* The file takes the place of the old one.
LEMMA RenameTypes ==
  ASSUME Types, NEW l \in Link, Replace(l), tmp[rx[l].path] # None
  PROVE  \E p \in Path, i \in Id :
            /\ p = rx[l].path /\ i = tmp[p]
            /\ file' = [file EXCEPT ![p] = i] /\ tmp' = [tmp EXCEPT ![p] = None]
            /\ rx' \in [Link -> Rx] /\ \A m \in Link : m # l => rx'[m] = rx[m]
            /\ rx'[l].pc = "record" /\ rx'[l].path = p /\ rx'[l].left = 0
<1>1. rx \in [Link -> Rx] /\ rx[l] \in Rx
  BY DiskTypes
<1>2. PICK p \in Path : p = rx[l].path
  BY <1>1 DEF Rx
<1>3. PICK i \in Id : i = tmp[p]
  BY <1>2, DiskTypes
<1>4. /\ file' = [file EXCEPT ![p] = i] /\ tmp' = [tmp EXCEPT ![p] = None]
      /\ rx' = [rx EXCEPT ![l].pc = "record"]
  BY <1>2, <1>3 DEF Replace
<1>5. /\ rx' \in [Link -> Rx] /\ \A m \in Link : m # l => rx'[m] = rx[m]
      /\ rx'[l].pc = "record" /\ rx'[l].path = p /\ rx'[l].left = 0
  BY <1>1, <1>2, <1>4 DEF Rx, Replace
<1> WITNESS p \in Path, i \in Id
<1>6. QED BY <1>2, <1>3, <1>4, <1>5

\* The file is renamed.
LEMMA TypesReplace ==
  ASSUME Types, NEW l \in Link, Replace(l)
  PROVE  Types'
<1>1. /\ asked' = asked /\ UNCHANGED <<source, tx, up, wire, inode, held, entry, faults>>
      /\ UNCHANGED <<changed, slipped, met>>
  BY DEF Replace, sending
<1>5. broken' \in SUBSET Path
  BY DiskTypes DEF Replace
<1>2. /\ inode' \in [Id -> Seq(Unit)] /\ held' \in [Link -> Unit \cup {None}]
      /\ entry' \in [Path -> Link \cup {None}] /\ faults' \in 0..MaxFaults
      /\ met' \in SUBSET Path /\ asked' \in [Link -> Nat]
  BY <1>1, DiskTypes
<1>3. /\ rx' \in [Link -> Rx] /\ RxPlace(l)' /\ \A m \in Link : m # l => rx'[m] = rx[m]
      /\ file' \in [Path -> Id \cup {None}] /\ tmp' \in [Path -> Id \cup {None}]
  <2>1. CASE tmp[rx[l].path] = None
    <3>1. Go(l, "end") /\ file' = file /\ tmp' = tmp
      BY <2>1 DEF Replace, Finish
    <3>2. QED BY <3>1, GoTypes, DiskTypes
  <2>2. CASE tmp[rx[l].path] # None
    <3>1. PICK p \in Path, i \in Id :
            /\ p = rx[l].path /\ i = tmp[p]
            /\ file' = [file EXCEPT ![p] = i] /\ tmp' = [tmp EXCEPT ![p] = None]
            /\ rx' \in [Link -> Rx] /\ \A m \in Link : m # l => rx'[m] = rx[m]
            /\ rx'[l].pc = "record" /\ rx'[l].path = p /\ rx'[l].left = 0
      BY <2>2, RenameTypes
    <3>2. RxPlace(l)'
      BY <3>1 DEF RxPlace
    <3>3. QED BY <3>1, <3>2, DiskTypes
  <2>3. QED BY <2>1, <2>2
<1>4. QED BY <1>1, <1>2, <1>3, <1>5, TypesReceiver

-----------------------------------------------------------------------------

\* An edit or a removal touches one file of one sender.
LEMMA SourceTypes ==
  ASSUME Types, NEW l \in Link, NEW p \in Path, NEW f \in Src,
         source' = [source EXCEPT ![l][p] = f], faults' \in 0..MaxFaults,
         changed' \in SUBSET (Link \X Path),
         UNCHANGED <<tx, asked, wire, up, rx, disk, entry, slipped, met>>
  PROVE  Types'
<1>1. source' \in [Link -> [Path -> Src]]
  BY DEF Types, TypeInv
<1>2. TypeInv'
  BY <1>1 DEF disk, Types, TypeInv
<1>3. ASSUME NEW m \in Link PROVE PlaceInv(m)'
  BY PlaceKept DEF disk, Types
<1>4. QED BY <1>2, <1>3 DEF Types

\* A sender's file is rewritten.
LEMMA EditTypes ==
  ASSUME Types, NEW l \in Link, NEW p \in Path, Edit(l, p)
  PROVE  \E f \in Src : source' = [source EXCEPT ![l][p] = f]
<1>1. source \in [Link -> [Path -> Src]] /\ source[l][p] \in Src
      /\ faults + 1 \in 0..MaxFaults
  BY SizeAssumption DEF Types, TypeInv, Edit
<1>2. PICK s \in 0..MaxSize :
         source' = [source EXCEPT ![l][p] = [@ EXCEPT !.edit = faults + 1, !.size = s]]
  BY DEF Edit
<1>3. PICK e \in 0..MaxFaults : e = faults + 1
  BY <1>1
<1>4. PICK f : f = [source[l][p] EXCEPT !.edit = e, !.size = s]
  OBVIOUS
<1>5. f \in Src
  BY <1>1, <1>4 DEF Src
<1>6. source' = [source EXCEPT ![l][p] = f]
  BY <1>2, <1>3, <1>4
<1>7. QED BY <1>5, <1>6

\* A sender's file goes: its size stays what it was.
LEMMA RemoveTypes ==
  ASSUME Types, NEW l \in Link, NEW p \in Path, Remove(l, p)
  PROVE  \E f \in Src : /\ source' = [source EXCEPT ![l][p] = f]
                        /\ f.size = source[l][p].size /\ f.edit = source[l][p].edit
<1>1. source \in [Link -> [Path -> Src]] /\ source[l][p] \in Src
  BY DEF Types, TypeInv
<1>2. PICK f : f = [source[l][p] EXCEPT !.there = FALSE]
  OBVIOUS
<1>3. f \in Src /\ f.size = source[l][p].size /\ f.edit = source[l][p].edit
  BY <1>1, <1>2 DEF Src
<1>4. source' = [source EXCEPT ![l][p] = f]
  BY <1>1, <1>2 DEF Remove
<1>5. QED BY <1>3, <1>4

\* The types through what the environment does to a file.
LEMMA TypesSource ==
  ASSUME Types, NEW l \in Link, NEW p \in Path, Edit(l, p) \/ Remove(l, p)
  PROVE  Types'
<1>1. PICK f \in Src : source' = [source EXCEPT ![l][p] = f]
  <2>1. CASE Edit(l, p)
    BY <2>1, EditTypes
  <2>2. CASE Remove(l, p)
    <3>1. PICK f \in Src : source' = [source EXCEPT ![l][p] = f]
      BY <2>2, RemoveTypes
    <3>2. QED BY <3>1
  <2>3. QED BY <2>1, <2>2
<1>2. faults' \in 0..MaxFaults /\ changed' \in SUBSET (Link \X Path)
  <2>1. faults \in 0..MaxFaults /\ changed \in SUBSET (Link \X Path)
    BY DEF Types, TypeInv
  <2>2. faults < MaxFaults /\ faults' = faults + 1
        /\ (changed' = changed \/ changed' = changed \cup {<<l, p>>})
    BY DEF Edit, Remove
  <2>3. faults' \in 0..MaxFaults
    BY <2>1, <2>2, SizeAssumption
  <2>4. QED BY <2>1, <2>2, <2>3
<1>3. UNCHANGED <<tx, asked, wire, up, rx, disk, entry, slipped, met>>
  BY DEF Edit, Remove
<1>4. QED BY <1>1, <1>2, <1>3, SourceTypes

\* After the end of the process every link is closed, and nothing else moves on it.
LEMMA CrashTypes ==
  ASSUME Types, Crash, NEW l \in Link
  PROVE  /\ rx' \in [Link -> Rx] /\ tx' \in [Link -> Tx]
         /\ rx'[l].pc = "end" /\ ~up'[l] /\ tx'[l].pc = "closed" /\ tx'[l].n = tx[l].n
         /\ wire' = wire /\ asked' = asked /\ held' = held /\ source' = source
         /\ inode' = inode /\ file' = file /\ tmp' = tmp
         /\ changed' = changed /\ slipped' = slipped /\ met' = met
<1>1. ASSUME NEW m \in Link PROVE Waiting(m, "end") \in Rx
  <2>1. Files[m][1] \in Path
    BY LinkTypes
  <2>2. QED BY <2>1, SizeAssumption DEF Waiting, Rx
<1>2. rx' = [m \in Link |-> Waiting(m, "end")] /\ up' = [m \in Link |-> FALSE]
      /\ tx' = [m \in Link |-> [tx[m] EXCEPT !.pc = "closed"]]
  BY DEF Crash
<1>3. rx' \in [Link -> Rx] /\ rx'[l].pc = "end" /\ ~up'[l]
  BY <1>1, <1>2 DEF Waiting
<1>4. ASSUME NEW m \in Link PROVE [tx[m] EXCEPT !.pc = "closed"] \in Tx
  BY LinkTypes DEF Tx
<1>5. tx' \in [Link -> Tx]
  BY <1>2, <1>4
<1>6. tx'[l].pc = "closed" /\ tx'[l].n = tx[l].n
  BY <1>2, LinkTypes DEF Tx
<1>7. QED BY <1>3, <1>5, <1>6 DEF Crash

\* The types through the end of the process.
LEMMA TypesCrash ==
  ASSUME Types, Crash
  PROVE  Types'
<1>1. /\ rx' \in [Link -> Rx] /\ tx' \in [Link -> Tx] /\ up' \in [Link -> BOOLEAN]
      /\ wire' = wire /\ asked' = asked /\ held' = held /\ source' = source
      /\ inode' = inode /\ file' = file /\ tmp' = tmp
      /\ changed' = changed /\ slipped' = slipped /\ met' = met
  BY CrashTypes DEF Crash
<1>2. faults' \in 0..MaxFaults
  BY DiskTypes, SizeAssumption DEF Crash
<1>3. broken' \in SUBSET Path /\ entry' \in [Path -> Link \cup {None}]
  BY DiskTypes DEF Crash
<1>4. TypeInv'
  BY <1>1, <1>2, <1>3 DEF Types, TypeInv
<1>5. ASSUME NEW m \in Link PROVE PlaceInv(m)'
  BY CrashTypes DEF Types, PlaceInv, Fits, Last, IsFile
<1>6. QED BY <1>4, <1>5 DEF Types

\* Every step keeps the types.
LEMMA TypesStep == Types /\ [Next]_vars => Types'
<1> SUFFICES ASSUME Types, [Next]_vars PROVE Types'
  OBVIOUS
<1>1. CASE UNCHANGED vars
  <2>1. TypeInv'
    BY <1>1 DEF vars, sending, disk, Types, TypeInv
  <2>2. \A m \in Link : PlaceInv(m)'
    BY <1>1, PlaceKept DEF vars, sending, disk, Types
  <2>3. QED BY <2>1, <2>2 DEF Types
<1>2. ASSUME NEW l \in Link, Sender(l) \/ Receiver(l) \/ Cut(l) PROVE Types'
  <2>1. CASE Sender(l)
    BY <2>1, TypesAnnounce, TypesOpen, TypesChunk, TypesClose DEF Sender
  <2>2. CASE Receiver(l)
    BY <2>2, TypesAsk, TypesReadStream, TypesRejectStream, TypesReadData, TypesSkip,
       TypesEnd, TypesBody, TypesWrite, TypesWritten, TypesDrain, TypesReplace
       DEF Receiver, Reply
  <2>3. CASE Cut(l)
    BY <2>3, TypesCut
  <2>4. QED BY <1>2, <2>1, <2>2, <2>3
<1>3. ASSUME NEW l \in Link, NEW p \in Path, Edit(l, p) \/ Remove(l, p) PROVE Types'
  BY <1>3, TypesSource
<1>4. CASE Crash
  BY <1>4, TypesCrash
<1>5. QED BY <1>1, <1>2, <1>3, <1>4 DEF Next

\* They are those the runs check.
LEMMA TypesImply == Types => TypeOK
<1> SUFFICES ASSUME Types PROVE TypeOK
  OBVIOUS
<1>1. ASSUME NEW l \in Link
      PROVE  /\ tx[l].pc \in {"next", "open", "send", "closed"}
             /\ tx[l].n \in 1..(Last(l) + 1) /\ tx[l].size \in 0..MaxSize
             /\ tx[l].k \in 0..MaxSize
             /\ wire[l] \in Seq(Unit)
             /\ asked[l] \in 0..Last(l)
             /\ rx[l].pc \in {"ask", "msg", "body", "drain", "write", "record", "end"}
             /\ rx[l].path \in Path /\ rx[l].at \in Id \cup {None}
             /\ rx[l].left \in 0..MaxSize /\ rx[l].k \in 0..MaxSize
             /\ rx[l].pc \in {"body", "write"} => rx[l].at # None
             /\ rx[l].pc = "write" => held[l] # None
             /\ held[l] \in Unit \cup {None}
  <2>1. tx[l] \in Tx /\ rx[l] \in Rx /\ Last(l) \in Nat /\ asked[l] \in Nat
        /\ wire[l] \in Seq(Unit) /\ PlaceInv(l) /\ held[l] \in Unit \cup {None}
    BY LinkTypes DEF Types, TypeInv
  <2>2. QED BY <2>1 DEF Tx, Rx, PlaceInv
<1>2. changed \subseteq Link \X Path /\ slipped \subseteq Link /\ met \subseteq Path
      /\ broken \subseteq Path
      /\ \A p \in Path : entry[p] \in Link \cup {None}
  BY DEF Types, TypeInv
<1>3. QED BY <1>1, <1>2 DEF Types, TypeInv, TypeOK, Src

-----------------------------------------------------------------------------
(* The reader stays in frame                                               *)

\* What each step does to one connection and its two ends, for the frame:
\* a labelling of what is left, of what is kept and of what is added.
LEMMA FrameShift ==
  ASSUME NEW w \in Seq(Unit), NEW lab \in [1..(Len(w) + 1) -> 0..MaxSize],
         NEW n \in 0..Len(w), NEW v \in Seq(Unit),
         Framed(w, lab), Len(v) = Len(w) - n,
         \A j \in 1..Len(v) : v[j] = w[n + j],
         n < Len(w) /\ n > 0 => w[n].t \notin Heads
  PROVE  /\ [j \in 1..(Len(v) + 1) |-> lab[n + j]] \in [1..(Len(v) + 1) -> 0..MaxSize]
         /\ Framed(v, [j \in 1..(Len(v) + 1) |-> lab[n + j]])
<1>1. Len(w) \in Nat /\ Len(v) \in Nat /\ (v # <<>> <=> Len(v) > 0) /\ (w # <<>> <=> Len(w) > 0)
  BY LenProperties, EmptySeq
<1>2. \A j \in 1..(Len(v) + 1) : n + j \in 1..(Len(w) + 1)
  BY <1>1
<1>3. PICK new : new = [j \in 1..(Len(v) + 1) |-> lab[n + j]]
  OBVIOUS
<1>4. new \in [1..(Len(v) + 1) -> 0..MaxSize] /\ \A j \in 1..(Len(v) + 1) : new[j] = lab[n + j]
  BY <1>2, <1>3
<1>5. v # <<>> => v[1].t # "rest"
  <2> SUFFICES ASSUME v # <<>> PROVE v[1].t # "rest"
    OBVIOUS
  <2>1. Len(v) > 0 /\ n + 1 \in 1..Len(w) /\ v[1] = w[n + 1] /\ w # <<>>
    BY <1>1
  <2>2. CASE n = 0
    BY <1>1, <2>1, <2>2 DEF Framed
  <2>3. CASE n > 0
    <3>1. n \in 1..Len(w) /\ n < Len(w) /\ w[n].t \notin Heads
      BY <1>1, <2>1, <2>3
    <3>2. QED BY <2>1, <3>1 DEF Framed
  <2>4. QED BY <2>2, <2>3
<1>6. ASSUME NEW j \in 1..Len(v)
      PROVE  /\ v[j].t \in Heads => new[j] = 0
             /\ v[j].t \in {"data", "ack"} => new[j + 1] = 0
             /\ v[j].t = "stream" => new[j + 1] = v[j].size
             /\ v[j].t = "rest" => new[j + 1] = new[j]
             /\ v[j].t = "byte" => new[j] = new[j + 1] + 1
             /\ j < Len(v) => (v[j].t \in Heads <=> v[j + 1].t = "rest")
  <2>1. /\ n + j \in 1..Len(w) /\ v[j] = w[n + j]
        /\ new[j] = lab[n + j] /\ new[j + 1] = lab[(n + j) + 1]
        /\ j < Len(v) => n + j < Len(w) /\ v[j + 1] = w[(n + j) + 1]
    <3>1. n + j \in 1..Len(w) /\ v[j] = w[n + j]
      BY <1>1
    <3>2. j \in 1..(Len(v) + 1) /\ j + 1 \in 1..(Len(v) + 1) /\ n + (j + 1) = (n + j) + 1
      BY <1>1
    <3>3. new[j] = lab[n + j] /\ new[j + 1] = lab[(n + j) + 1]
      BY <1>4, <3>2
    <3>4. j < Len(v) => n + j < Len(w) /\ j + 1 \in 1..Len(v)
      BY <1>1
    <3>5. j < Len(v) => v[j + 1] = w[(n + j) + 1]
      BY <3>2, <3>4
    <3>6. QED BY <3>1, <3>3, <3>4, <3>5
  <2>2. PICK i \in 1..Len(w) : i = n + j
    BY <2>1
  <2>3. /\ w[i].t \in Heads => lab[i] = 0
        /\ w[i].t \in {"data", "ack"} => lab[i + 1] = 0
        /\ w[i].t = "stream" => lab[i + 1] = w[i].size
        /\ w[i].t = "rest" => lab[i + 1] = lab[i]
        /\ w[i].t = "byte" => lab[i] = lab[i + 1] + 1
        /\ i < Len(w) => (w[i].t \in Heads <=> w[i + 1].t = "rest")
    BY DEF Framed
  <2>4. QED BY <2>1, <2>2, <2>3
<1>7. Framed(v, new)
  BY <1>5, <1>6 DEF Framed
<1>8. QED BY <1>3, <1>4, <1>7

\* A prefix has the same labels.
LEMMA FramePrefix ==
  ASSUME NEW w \in Seq(Unit), NEW lab \in [1..(Len(w) + 1) -> 0..MaxSize],
         NEW v \in Seq(Unit), Len(v) \in 0..Len(w),
         Framed(w, lab), \A j \in 1..Len(v) : v[j] = w[j]
  PROVE  \E new \in [1..(Len(v) + 1) -> 0..MaxSize] : Framed(v, new) /\ new[1] = lab[1]
<1>1. Len(w) \in Nat /\ Len(v) \in Nat /\ (v # <<>> <=> Len(v) > 0) /\ (w # <<>> <=> Len(w) > 0)
  BY LenProperties, EmptySeq
<1>2. PICK new : new = [j \in 1..(Len(v) + 1) |-> lab[j]]
  OBVIOUS
<1>3. /\ new \in [1..(Len(v) + 1) -> 0..MaxSize]
      /\ \A j \in 1..(Len(v) + 1) : new[j] = lab[j]
  BY <1>1, <1>2
<1>4. v # <<>> => v[1].t # "rest"
  BY <1>1 DEF Framed
<1>5. ASSUME NEW j \in 1..Len(v)
      PROVE  /\ v[j].t \in Heads => new[j] = 0
             /\ v[j].t \in {"data", "ack"} => new[j + 1] = 0
             /\ v[j].t = "stream" => new[j + 1] = v[j].size
             /\ v[j].t = "rest" => new[j + 1] = new[j]
             /\ v[j].t = "byte" => new[j] = new[j + 1] + 1
             /\ j < Len(v) => (v[j].t \in Heads <=> v[j + 1].t = "rest")
  <2>1. /\ j \in 1..Len(w) /\ v[j] = w[j] /\ new[j] = lab[j] /\ new[j + 1] = lab[j + 1]
        /\ j < Len(v) => j < Len(w) /\ v[j + 1] = w[j + 1]
    <3>1. j \in 1..Len(w) /\ v[j] = w[j]
      BY <1>1
    <3>2. j \in 1..(Len(v) + 1) /\ j + 1 \in 1..(Len(v) + 1)
      BY <1>1
    <3>3. new[j] = lab[j] /\ new[j + 1] = lab[j + 1]
      BY <1>3, <3>2
    <3>4. j < Len(v) => j < Len(w) /\ j + 1 \in 1..Len(v)
      BY <1>1
    <3>5. QED BY <3>1, <3>3, <3>4
  <2>2. QED BY <2>1 DEF Framed
<1>6. Framed(v, new) /\ new[1] = lab[1]
  BY <1>1, <1>3, <1>4, <1>5 DEF Framed
<1>7. QED BY <1>3, <1>6

\* One more unit: a byte that is owed.
LEMMA FrameByte ==
  ASSUME NEW w \in Seq(Unit), NEW lab \in [1..(Len(w) + 1) -> 0..MaxSize],
         NEW b \in Unit, NEW v \in Seq(Unit), Framed(w, lab),
         w # <<>> => w[Len(w)].t \notin Heads,
         b.t = "byte", lab[Len(w) + 1] > 0,
         Len(v) = Len(w) + 1, \A j \in 1..Len(w) : v[j] = w[j], v[Len(w) + 1] = b
  PROVE  \E new \in [1..(Len(v) + 1) -> 0..MaxSize] :
            /\ Framed(v, new) /\ new[1] = lab[1]
            /\ new[Len(v) + 1] = lab[Len(w) + 1] - 1
<1>1. Len(w) \in Nat /\ (w # <<>> <=> Len(w) > 0)
  BY LenProperties, EmptySeq
<1>2. lab[Len(w) + 1] \in 1..MaxSize /\ lab[Len(w) + 1] - 1 \in 0..MaxSize
  BY <1>1, SizeAssumption
<1>3. PICK new : new = [j \in 1..(Len(v) + 1) |->
                           IF j = Len(w) + 2 THEN lab[Len(w) + 1] - 1 ELSE lab[j]]
  OBVIOUS
<1>4. /\ new \in [1..(Len(v) + 1) -> 0..MaxSize]
      /\ \A j \in 1..(Len(w) + 1) : new[j] = lab[j]
      /\ new[Len(w) + 2] = lab[Len(w) + 1] - 1
  BY <1>1, <1>2, <1>3
<1>5. v # <<>> => v[1].t # "rest"
  BY <1>1 DEF Framed
<1>6. ASSUME NEW j \in 1..Len(v)
      PROVE  /\ v[j].t \in Heads => new[j] = 0
             /\ v[j].t \in {"data", "ack"} => new[j + 1] = 0
             /\ v[j].t = "stream" => new[j + 1] = v[j].size
             /\ v[j].t = "rest" => new[j + 1] = new[j]
             /\ v[j].t = "byte" => new[j] = new[j + 1] + 1
             /\ j < Len(v) => (v[j].t \in Heads <=> v[j + 1].t = "rest")
  <2>1. CASE j = Len(w) + 1
    BY <1>1, <1>2, <1>4, <2>1 DEF Heads
  <2>2. CASE j \in 1..Len(w)
    <3>1. /\ w[j].t \in Heads => lab[j] = 0
          /\ w[j].t \in {"data", "ack"} => lab[j + 1] = 0
          /\ w[j].t = "stream" => lab[j + 1] = w[j].size
          /\ w[j].t = "rest" => lab[j + 1] = lab[j]
          /\ w[j].t = "byte" => lab[j] = lab[j + 1] + 1
          /\ j < Len(w) => (w[j].t \in Heads <=> w[j + 1].t = "rest")
      BY <2>2 DEF Framed
    <3>2. v[j] = w[j] /\ new[j] = lab[j] /\ new[j + 1] = lab[j + 1]
      BY <1>1, <1>4, <2>2
    <3>3. CASE j < Len(w)
      <4>1. v[j + 1] = w[j + 1]
        BY <1>1, <3>3
      <4>2. QED BY <3>1, <3>2, <3>3, <4>1
    <3>4. CASE j = Len(w)
      <4>1. v[j + 1].t = "byte" /\ w[j].t \notin Heads
        BY <1>1, <2>2, <3>4
      <4>2. QED BY <3>1, <3>2, <4>1
    <3>5. QED BY <1>1, <2>2, <3>3, <3>4
  <2>3. QED BY <1>1, <2>1, <2>2
<1>7. Framed(v, new) /\ new[1] = lab[1] /\ new[Len(v) + 1] = lab[Len(w) + 1] - 1
  BY <1>1, <1>4, <1>5, <1>6 DEF Framed
<1>8. QED BY <1>4, <1>7

\* A message, when nothing is owed.
LEMMA FrameMessage ==
  ASSUME NEW w \in Seq(Unit), NEW lab \in [1..(Len(w) + 1) -> 0..MaxSize],
         NEW v \in Seq(Unit), NEW s \in 0..MaxSize,
         Framed(w, lab),
         w # <<>> => w[Len(w)].t \notin Heads,
         lab[Len(w) + 1] = 0,
         Len(v) = Len(w) + 2, \A j \in 1..Len(w) : v[j] = w[j],
         v[Len(w) + 1].t \in Heads, v[Len(w) + 2].t = "rest",
         v[Len(w) + 1].t = "stream" => s = v[Len(w) + 1].size,
         v[Len(w) + 1].t # "stream" => s = 0
  PROVE  \E new \in [1..(Len(v) + 1) -> 0..MaxSize] :
            /\ Framed(v, new) /\ new[1] = lab[1] /\ new[Len(v) + 1] = s
            /\ v[Len(v)].t \notin Heads
<1>1. Len(w) \in Nat /\ (w # <<>> <=> Len(w) > 0)
  BY LenProperties, EmptySeq
<1>0. PICK a, b : /\ a = v[Len(w) + 1] /\ b = v[Len(w) + 2]
                  /\ a.t \in Heads /\ b.t = "rest"
                  /\ (a.t = "stream" => s = a.size) /\ (a.t # "stream" => s = 0)
  OBVIOUS
<1>2. PICK new : new = [j \in 1..(Len(v) + 1) |-> IF j > Len(w) + 1 THEN s ELSE lab[j]]
  OBVIOUS
<1>3. /\ new \in [1..(Len(v) + 1) -> 0..MaxSize]
      /\ \A j \in 1..(Len(w) + 1) : new[j] = lab[j]
      /\ new[Len(w) + 2] = s /\ new[Len(w) + 3] = s
  BY <1>1, <1>2
<1>4. v # <<>> => v[1].t # "rest"
  <2>1. CASE Len(w) = 0
    <3>1. v[1] = a /\ a.t \in Heads
      BY <1>0, <2>1
    <3>2. QED BY <3>1 DEF Heads
  <2>2. CASE Len(w) > 0
    BY <1>1, <2>2 DEF Framed
  <2>3. QED BY <1>1, <2>1, <2>2
<1>5. ASSUME NEW j \in 1..Len(v)
      PROVE  /\ v[j].t \in Heads => new[j] = 0
             /\ v[j].t \in {"data", "ack"} => new[j + 1] = 0
             /\ v[j].t = "stream" => new[j + 1] = v[j].size
             /\ v[j].t = "rest" => new[j + 1] = new[j]
             /\ v[j].t = "byte" => new[j] = new[j + 1] + 1
             /\ j < Len(v) => (v[j].t \in Heads <=> v[j + 1].t = "rest")
  <2>1. CASE j = Len(w) + 1
    <3>1. v[j] = a /\ v[j + 1] = b /\ new[j] = 0 /\ new[j + 1] = s
      BY <1>0, <1>1, <1>3, <2>1
    <3>2. QED BY <1>0, <3>1 DEF Heads
  <2>2. CASE j = Len(w) + 2
    <3>1. v[j] = b /\ new[j] = s /\ new[j + 1] = s /\ ~(j < Len(v))
      BY <1>0, <1>1, <1>3, <2>2
    <3>2. QED BY <1>0, <3>1 DEF Heads
  <2>3. CASE j \in 1..Len(w)
    <3>1. /\ w[j].t \in Heads => lab[j] = 0
          /\ w[j].t \in {"data", "ack"} => lab[j + 1] = 0
          /\ w[j].t = "stream" => lab[j + 1] = w[j].size
          /\ w[j].t = "rest" => lab[j + 1] = lab[j]
          /\ w[j].t = "byte" => lab[j] = lab[j + 1] + 1
          /\ j < Len(w) => (w[j].t \in Heads <=> w[j + 1].t = "rest")
      BY <2>3 DEF Framed
    <3>2. v[j] = w[j] /\ new[j] = lab[j] /\ new[j + 1] = lab[j + 1]
      BY <1>1, <1>3, <2>3
    <3>3. CASE j < Len(w)
      <4>1. v[j + 1] = w[j + 1]
        BY <1>1, <3>3
      <4>2. QED BY <3>1, <3>2, <3>3, <4>1
    <3>4. CASE j = Len(w)
      <4>1. v[j + 1] = a /\ w[j].t \notin Heads
        BY <1>0, <1>1, <2>3, <3>4
      <4>2. QED BY <1>0, <3>1, <3>2, <4>1 DEF Heads
    <3>5. QED BY <1>1, <2>3, <3>3, <3>4
  <2>4. QED BY <1>1, <2>1, <2>2, <2>3
<1>6. Framed(v, new) /\ new[1] = lab[1] /\ new[Len(v) + 1] = s
  BY <1>1, <1>3, <1>4, <1>5 DEF Framed
<1>7. v[Len(v)].t \notin Heads
  BY <1>0, <1>1 DEF Heads
<1>8. QED BY <1>3, <1>6, <1>7

\* A step that leaves a connection alone, or ends its reader.
LEMMA FrameKept ==
  ASSUME NEW l \in Link, FrameInv(l), wire'[l] = wire[l],
         l \in slipped => l \in slipped',
         rx'[l].pc # "end" => rx[l].pc # "end" /\ rx'[l].left = rx[l].left,
         l \notin slipped' /\ up'[l] => up[l] /\ Owed(tx'[l]) = Owed(tx[l])
  PROVE  FrameInv(l)'
<1> SUFFICES ASSUME l \notin slipped', rx'[l].pc # "end"
             PROVE  FrameInv(l)'
  BY DEF FrameInv
<1>1. PICK lab \in [1..(Len(wire[l]) + 1) -> 0..MaxSize] :
            /\ Framed(wire[l], lab)
            /\ lab[1] = rx[l].left
            /\ up[l] => /\ lab[Len(wire[l]) + 1] = Owed(tx[l])
                        /\ wire[l] # <<>> => wire[l][Len(wire[l])].t \notin Heads
  BY DEF FrameInv
<1>2. /\ Framed(wire'[l], lab) /\ lab[1] = rx'[l].left
      /\ up'[l] => /\ lab[Len(wire'[l]) + 1] = Owed(tx'[l])
                   /\ wire'[l] # <<>> => wire'[l][Len(wire'[l])].t \notin Heads
  BY <1>1
<1>3. lab \in [1..(Len(wire'[l]) + 1) -> 0..MaxSize]
  BY <1>1
<1>4. QED BY <1>2, <1>3 DEF FrameInv

\* A step that reads: a message where one begins, or a unit of a stream.
LEMMA FrameRead ==
  ASSUME Types, NEW l \in Link, NEW n \in 1..2, FrameInv(l), Consume(l, n),
         UNCHANGED <<up, tx, slipped>>, rx[l].pc # "end", n <= Len(wire[l]),
         \/ /\ n = 2 /\ wire[l][1].t \in Heads
            /\ \/ rx'[l].pc = "end"
               \/ rx'[l].left = IF wire[l][1].t = "stream" THEN wire[l][1].size ELSE 0
         \/ n = 1 /\ rx[l].left > 0 /\ rx'[l].left = rx[l].left - 1
  PROVE  FrameInv(l)'
<1> SUFFICES ASSUME l \notin slipped, rx'[l].pc # "end"
             PROVE  FrameInv(l)'
  BY DEF FrameInv
<1>1. /\ wire[l] \in Seq(Unit) /\ Len(wire[l]) \in Nat /\ n \in 0..Len(wire[l])
      /\ (wire[l] # <<>> <=> Len(wire[l]) > 0) /\ 1 \in 1..Len(wire[l])
      /\ wire[l][1] \in Unit /\ rx[l] \in Rx
  BY LinkTypes
<1>2. /\ wire'[l] \in Seq(Unit) /\ Len(wire'[l]) = Len(wire[l]) - n
      /\ \A j \in 1..Len(wire'[l]) : wire'[l][j] = wire[l][n + j]
  BY <1>1, ConsumeTypes
<1>3. PICK lab \in [1..(Len(wire[l]) + 1) -> 0..MaxSize] :
            /\ Framed(wire[l], lab)
            /\ lab[1] = rx[l].left
            /\ up[l] => /\ lab[Len(wire[l]) + 1] = Owed(tx[l])
                        /\ wire[l] # <<>> => wire[l][Len(wire[l])].t \notin Heads
  BY DEF FrameInv
<1>4. wire[l][n].t \notin Heads /\ lab[n + 1] = rx'[l].left
  <2>1. CASE n = 2 /\ wire[l][1].t \in Heads
    <3>1. wire[l][2].t = "rest" /\ 2 \in 1..Len(wire[l]) /\ 1 \in 1..Len(wire[l])
      BY <1>1, <1>3, <2>1 DEF Framed
    <3>2. lab[3] = lab[2]
      BY <1>3, <3>1 DEF Framed
    <3>3. lab[2] = IF wire[l][1].t = "stream" THEN wire[l][1].size ELSE 0
      BY <1>3, <2>1, <3>1 DEF Framed, Heads
    <3>4. QED BY <2>1, <3>1, <3>2, <3>3 DEF Heads
  <2>2. CASE n = 1 /\ rx[l].left > 0 /\ rx'[l].left = rx[l].left - 1
    <3>1. wire[l][1].t \in {"data", "stream", "ack", "rest", "byte"}
      BY <1>1 DEF Unit
    <3>2. wire[l][1].t = "byte" /\ lab[1] = lab[2] + 1
      BY <1>1, <1>3, <2>2, <3>1 DEF Framed, Heads
    <3>3. lab[2] \in 0..MaxSize
      BY <1>1
    <3>4. QED BY <1>3, <2>2, <3>2, <3>3, SizeAssumption DEF Heads
  <2>3. QED BY <2>1, <2>2
<1>5. PICK new : new = [j \in 1..(Len(wire'[l]) + 1) |-> lab[n + j]]
  OBVIOUS
<1>6. new \in [1..(Len(wire'[l]) + 1) -> 0..MaxSize] /\ Framed(wire'[l], new)
  <2>1. PICK w \in Seq(Unit), v \in Seq(Unit) : w = wire[l] /\ v = wire'[l]
    BY <1>1, <1>2
  <2>2. /\ lab \in [1..(Len(w) + 1) -> 0..MaxSize] /\ n \in 0..Len(w) /\ Framed(w, lab)
        /\ Len(v) = Len(w) - n /\ \A j \in 1..Len(v) : v[j] = w[n + j]
        /\ n < Len(w) /\ n > 0 => w[n].t \notin Heads
    BY <1>1, <1>2, <1>3, <1>4, <2>1
  <2>3. /\ [j \in 1..(Len(v) + 1) |-> lab[n + j]] \in [1..(Len(v) + 1) -> 0..MaxSize]
        /\ Framed(v, [j \in 1..(Len(v) + 1) |-> lab[n + j]])
    BY <2>2, FrameShift
  <2>4. QED BY <1>5, <2>1, <2>3
<1>7. new[1] = rx'[l].left /\ new[Len(wire'[l]) + 1] = lab[Len(wire[l]) + 1]
  <2>1. /\ Len(wire'[l]) \in Nat /\ 1 \in 1..(Len(wire'[l]) + 1)
        /\ Len(wire'[l]) + 1 \in 1..(Len(wire'[l]) + 1)
        /\ n + (Len(wire'[l]) + 1) = Len(wire[l]) + 1
    BY <1>1, <1>2
  <2>2. new[1] = lab[n + 1] /\ new[Len(wire'[l]) + 1] = lab[n + (Len(wire'[l]) + 1)]
    BY <1>5, <2>1
  <2>3. QED BY <1>4, <2>1, <2>2
<1>8. wire'[l] # <<>> => /\ wire[l] # <<>>
                         /\ wire'[l][Len(wire'[l])] = wire[l][Len(wire[l])]
  <2>1. wire'[l] # <<>> => Len(wire'[l]) \in 1..Len(wire'[l])
    BY <1>2, LenProperties, EmptySeq
  <2>2. n + Len(wire'[l]) = Len(wire[l])
    BY <1>1, <1>2
  <2>3. QED BY <1>1, <1>2, <2>1, <2>2
<1>9. up'[l] => /\ new[Len(wire'[l]) + 1] = Owed(tx'[l])
                /\ wire'[l] # <<>> => wire'[l][Len(wire'[l])].t \notin Heads
  BY <1>3, <1>7, <1>8
<1>10. QED BY <1>6, <1>7, <1>9 DEF FrameInv

\* A message is written, and the connection may be closed after it.
LEMMA FrameWrite ==
  ASSUME Types, NEW l \in Link, NEW a \in Unit, NEW b \in Unit, FrameInv(l),
         a.t \in Heads, b.t = "rest",
         wire' = [wire EXCEPT ![l] = @ \o <<a, b>>], up[l], tx[l].pc = "next",
         UNCHANGED <<rx, slipped>>,
         up'[l] => Owed(tx'[l]) = IF a.t = "stream" THEN a.size ELSE 0
  PROVE  FrameInv(l)'
<1> SUFFICES ASSUME l \notin slipped, rx[l].pc # "end"
             PROVE  FrameInv(l)'
  BY DEF FrameInv
<1>1. wire[l] \in Seq(Unit) /\ wire'[l] = wire[l] \o <<a, b>>
  BY LinkTypes DEF Types, TypeInv
<1>2. /\ wire'[l] \in Seq(Unit) /\ Len(wire'[l]) = Len(wire[l]) + 2
      /\ \A j \in 1..Len(wire[l]) : wire'[l][j] = wire[l][j]
      /\ wire'[l][Len(wire[l]) + 1] = a /\ wire'[l][Len(wire[l]) + 2] = b
  BY <1>1, TwoMore
<1>3. PICK lab \in [1..(Len(wire[l]) + 1) -> 0..MaxSize] :
            /\ Framed(wire[l], lab)
            /\ lab[1] = rx[l].left
            /\ up[l] => /\ lab[Len(wire[l]) + 1] = Owed(tx[l])
                        /\ wire[l] # <<>> => wire[l][Len(wire[l])].t \notin Heads
  BY DEF FrameInv
<1>4. lab[Len(wire[l]) + 1] = 0
  BY <1>3 DEF Owed
<1>5. PICK s \in 0..MaxSize : s = IF a.t = "stream" THEN a.size ELSE 0
  BY SizeAssumption DEF Unit
<1>6. PICK v \in Seq(Unit) : v = wire'[l]
  BY <1>2
<1>7. PICK new \in [1..(Len(v) + 1) -> 0..MaxSize] :
            /\ Framed(v, new) /\ new[1] = lab[1] /\ new[Len(v) + 1] = s
            /\ v[Len(v)].t \notin Heads
  <2>1. /\ Len(v) = Len(wire[l]) + 2 /\ \A j \in 1..Len(wire[l]) : v[j] = wire[l][j]
        /\ v[Len(wire[l]) + 1] = a /\ v[Len(wire[l]) + 2] = b
    BY <1>2, <1>6
  <2>2. PICK w \in Seq(Unit) : w = wire[l]
    BY <1>1
  <2>3. /\ lab \in [1..(Len(w) + 1) -> 0..MaxSize] /\ Framed(w, lab)
        /\ (w # <<>> => w[Len(w)].t \notin Heads) /\ lab[Len(w) + 1] = 0
        /\ Len(v) = Len(w) + 2 /\ \A j \in 1..Len(w) : v[j] = w[j]
        /\ v[Len(w) + 1] = a /\ v[Len(w) + 2] = b
    BY <1>3, <1>4, <2>1, <2>2
  <2>4. /\ v[Len(w) + 1].t \in Heads /\ v[Len(w) + 2].t = "rest"
        /\ v[Len(w) + 1].t = "stream" => s = v[Len(w) + 1].size
        /\ v[Len(w) + 1].t # "stream" => s = 0
    BY <1>5, <2>3
  <2>5. QED BY <2>3, <2>4, FrameMessage
<1>8. up'[l] => new[Len(v) + 1] = Owed(tx'[l])
  BY <1>5, <1>7
<1>9. new[1] = rx'[l].left
  BY <1>3, <1>7
<1>10. QED BY <1>6, <1>7, <1>8, <1>9 DEF FrameInv

\* A byte that is sent was owed, unless the link slips.
LEMMA FrameChunk ==
  ASSUME Types, NEW l \in Link, FrameInv(l), Chunk(l)
  PROVE  FrameInv(l)'
<1> SUFFICES ASSUME l \notin slipped', rx[l].pc # "end"
             PROVE  FrameInv(l)'
  BY DEF FrameInv, Chunk
<1>1. /\ l \notin slipped /\ up[l] /\ up'[l] /\ rx'[l] = rx[l] /\ tx[l].pc = "send"
      /\ tx[l] \in Tx
  BY LinkTypes DEF Chunk
<1>2. CASE tx[l].k < Now(l).size
  <2> DEFINE b == Byte(l, tx[l].n, Now(l), tx[l].k + 1)
  <2>1. /\ tx' = [tx EXCEPT ![l].k = @ + 1] /\ wire' = [wire EXCEPT ![l] = Append(@, b)]
        /\ tx[l].k < tx[l].size
    BY <1>1, <1>2, SizeAssumption DEF Chunk, Tx
  <2>2. b \in Unit /\ b.t = "byte"
    <3>1. tx[l].n <= Last(l) /\ tx[l].k + 1 \in Nat
      BY <1>1 DEF Tx, Types, PlaceInv
    <3>2. QED BY <3>1, NowTypes DEF Byte
  <2> HIDE DEF b
  <2>3. wire[l] \in Seq(Unit) /\ wire'[l] = Append(wire[l], b)
    BY <2>1, LinkTypes DEF Types, TypeInv
  <2>4. /\ wire'[l] \in Seq(Unit) /\ Len(wire'[l]) = Len(wire[l]) + 1
        /\ \A j \in 1..Len(wire[l]) : wire'[l][j] = wire[l][j]
        /\ wire'[l][Len(wire[l]) + 1] = b
    BY <2>2, <2>3, AppendProperties
  <2>5. PICK lab \in [1..(Len(wire[l]) + 1) -> 0..MaxSize] :
            /\ Framed(wire[l], lab)
            /\ lab[1] = rx[l].left
            /\ up[l] => /\ lab[Len(wire[l]) + 1] = Owed(tx[l])
                        /\ wire[l] # <<>> => wire[l][Len(wire[l])].t \notin Heads
    BY <1>1 DEF FrameInv
  <2>6. lab[Len(wire[l]) + 1] = tx[l].size - tx[l].k
    BY <1>1, <2>5 DEF Owed
  <2>7. lab[Len(wire[l]) + 1] > 0
    BY <1>1, <2>1, <2>6, SizeAssumption DEF Tx
  <2>8. PICK v \in Seq(Unit) : v = wire'[l]
    BY <2>4
  <2>9. PICK new \in [1..(Len(v) + 1) -> 0..MaxSize] :
            /\ Framed(v, new) /\ new[1] = lab[1]
            /\ new[Len(v) + 1] = lab[Len(wire[l]) + 1] - 1
    <3>1. /\ Len(v) = Len(wire[l]) + 1 /\ \A j \in 1..Len(wire[l]) : v[j] = wire[l][j]
          /\ v[Len(wire[l]) + 1] = b
      BY <2>4, <2>8
    <3>2. PICK w \in Seq(Unit) : w = wire[l]
      BY <2>3
    <3>3. /\ lab \in [1..(Len(w) + 1) -> 0..MaxSize] /\ Framed(w, lab)
          /\ (w # <<>> => w[Len(w)].t \notin Heads) /\ lab[Len(w) + 1] > 0
          /\ Len(v) = Len(w) + 1 /\ \A j \in 1..Len(w) : v[j] = w[j]
          /\ v[Len(w) + 1] = b
      BY <1>1, <2>5, <2>7, <3>1, <3>2
    <3>4. \E new \in [1..(Len(v) + 1) -> 0..MaxSize] :
            /\ Framed(v, new) /\ new[1] = lab[1]
            /\ new[Len(v) + 1] = lab[Len(w) + 1] - 1
      BY <2>2, <3>3, FrameByte
    <3>5. QED BY <3>2, <3>4
  <2>10. Owed(tx'[l]) = lab[Len(wire[l]) + 1] - 1
    <3>1. tx'[l].pc = "send" /\ tx'[l].size = tx[l].size /\ tx'[l].k = tx[l].k + 1
      BY <1>1, <2>1 DEF Types, TypeInv, Tx
    <3>2. QED BY <1>1, <2>6, <3>1, SizeAssumption DEF Owed, Tx
  <2>11. v[Len(v)].t \notin Heads
    BY <2>2, <2>4, <2>8 DEF Heads
  <2>12. QED BY <1>1, <2>5, <2>8, <2>9, <2>10, <2>11 DEF FrameInv
<1>3. CASE ~(tx[l].k < Now(l).size)
  <2>1. wire' = wire /\ Sent(l) /\ tx[l].k = tx[l].size
    BY <1>3 DEF Chunk
  <2>2. Owed(tx'[l]) = 0
    BY <2>1, SentTypes DEF Owed
  <2>3. Owed(tx[l]) = 0
    BY <1>1, <2>1, SizeAssumption DEF Owed, Tx
  <2>4. QED BY <1>1, <2>1, <2>2, <2>3, FrameKept
<1>4. QED BY <1>2, <1>3

\* What is left of a lost connection keeps its labels.
LEMMA FrameCut ==
  ASSUME Types, NEW l \in Link, FrameInv(l), Cut(l)
  PROVE  FrameInv(l)'
<1> SUFFICES ASSUME l \notin slipped, rx[l].pc # "end"
             PROVE  FrameInv(l)'
  BY DEF FrameInv, Cut
<1>1. PICK n \in 0..Len(wire[l]) : wire' = [wire EXCEPT ![l] = SubSeq(@, 1, n)]
  BY DEF Cut
<1>2. wire[l] \in Seq(Unit) /\ wire'[l] = SubSeq(wire[l], 1, n)
  BY <1>1, LinkTypes DEF Types, TypeInv
<1>3. PICK v \in Seq(Unit) : /\ v = wire'[l] /\ Len(v) = n
                             /\ \A j \in 1..Len(v) : v[j] = wire[l][j]
  BY <1>2, Kept
<1>4. PICK lab \in [1..(Len(wire[l]) + 1) -> 0..MaxSize] :
            Framed(wire[l], lab) /\ lab[1] = rx[l].left
  BY DEF FrameInv
<1>5. PICK new \in [1..(Len(v) + 1) -> 0..MaxSize] : Framed(v, new) /\ new[1] = lab[1]
  BY <1>2, <1>3, <1>4, FramePrefix
<1>6. ~up'[l] /\ rx'[l] = rx[l]
  BY DEF Cut, Types, TypeInv
<1>7. QED BY <1>3, <1>4, <1>5, <1>6 DEF FrameInv

\* The size in the header is what is owed from then on.
LEMMA FrameAnnounce ==
  ASSUME Types, NEW l \in Link, FrameInv(l), Announce(l)
  PROVE  FrameInv(l)'
<1>1. /\ tx[l].n <= Last(l) /\ tx[l] \in Tx /\ tx[l].pc = "next" /\ up[l] /\ up' = up
      /\ rx' = rx /\ Now(l) \in Src /\ (l \in slipped => l \in slipped')
  BY LinkTypes, NowTypes DEF Announce
<1>2. CASE Sent(l) /\ wire' = wire
  <2>1. Owed(tx[l]) = 0 /\ Owed(tx'[l]) = 0
    BY <1>1, <1>2, SentTypes DEF Owed
  <2>2. QED BY <1>1, <1>2, <2>1, FrameKept
<1>3. ASSUME NEW t \in {"data", "stream"}, slipped' = slipped,
             wire' = [wire EXCEPT ![l] = @ \o Message(l, t, tx[l].n, Now(l))],
             \/ t = "data" /\ Sent(l)
             \/ /\ t = "stream"
                /\ tx' = [tx EXCEPT ![l].pc = "open", ![l].size = Now(l).size, ![l].k = 0]
      PROVE  FrameInv(l)'
  <2>1. PICK a \in Unit, b \in Unit :
            /\ Message(l, t, tx[l].n, Now(l)) = <<a, b>>
            /\ a.t = t /\ b.t = "rest" /\ a.size = Now(l).size
    <3>1. /\ Message(l, t, tx[l].n, Now(l)) = <<Message(l, t, tx[l].n, Now(l))[1], Rest(l)>>
          /\ Message(l, t, tx[l].n, Now(l))[1] \in Unit /\ Rest(l) \in Unit
      BY <1>1, NowTypes
    <3>2. /\ Message(l, t, tx[l].n, Now(l))[1].t = t /\ Rest(l).t = "rest"
          /\ Message(l, t, tx[l].n, Now(l))[1].size = Now(l).size
      BY DEF Message, Rest
    <3>3. QED BY <3>1, <3>2
  <2>2. Owed(tx'[l]) = IF a.t = "stream" THEN a.size ELSE 0
    <3>1. CASE t = "data" /\ Sent(l)
      BY <2>1, <3>1, SentTypes DEF Owed
    <3>2. CASE t = "stream" /\ tx' = [tx EXCEPT ![l].pc = "open", ![l].size = Now(l).size, ![l].k = 0]
      <4>1. PICK s \in 0..MaxSize : s = Now(l).size
        BY <1>1 DEF Src
      <4>2. tx' = [tx EXCEPT ![l].pc = "open", ![l].size = s, ![l].k = 0]
        BY <3>2, <4>1
      <4>3. tx'[l].pc = "open" /\ tx'[l].size = s /\ tx'[l].k = 0
        BY <4>2, OpenTypes
      <4>4. s - 0 = s
        BY SizeAssumption
      <4>5. QED BY <2>1, <3>2, <4>1, <4>3, <4>4 DEF Owed
    <3>3. QED BY <1>3, <3>1, <3>2
  <2>3. a.t \in Heads /\ wire' = [wire EXCEPT ![l] = @ \o <<a, b>>]
    BY <1>3, <2>1 DEF Heads
  <2>4. QED BY <1>1, <1>3, <2>1, <2>2, <2>3, FrameWrite
<1>4. QED BY <1>2, <1>3 DEF Announce

\* A file that has gone makes the link slip; an ACK owes nothing.
LEMMA FrameOpenClose ==
  ASSUME Types, NEW l \in Link, FrameInv(l), Open(l) \/ Close(l)
  PROVE  FrameInv(l)'
<1>1. /\ up[l] /\ rx' = rx /\ tx[l] \in Tx /\ (l \in slipped => l \in slipped')
  BY LinkTypes DEF Open, Close
<1>2. CASE Open(l)
  <2>1. CASE Now(l).there
    <3>1. tx' = [tx EXCEPT ![l].pc = "send"] /\ tx[l].pc = "open"
      BY <1>2, <2>1 DEF Open
    <3>2. tx'[l].pc = "send" /\ tx'[l].size = tx[l].size /\ tx'[l].k = tx[l].k
      BY <1>1, <3>1 DEF Types, TypeInv, Tx
    <3>3. Owed(tx'[l]) = Owed(tx[l])
      BY <3>1, <3>2 DEF Owed
    <3>4. QED BY <1>1, <1>2, <3>3, FrameKept DEF Open
  <2>2. CASE ~Now(l).there
    BY <1>2, <2>2 DEF Open, FrameInv, Types, TypeInv
  <2>3. QED BY <2>1, <2>2
<1>3. CASE Close(l) /\ wire' = wire
  <2>1. ~up'[l]
    BY <1>3 DEF Close, Types, TypeInv
  <2>2. QED BY <1>1, <1>3, <2>1, FrameKept
<1>4. CASE Close(l) /\ wire' = [wire EXCEPT ![l] = @ \o Message(l, "ack", 0, [edit |-> 0, size |-> 0])]
  <2>1. PICK a \in Unit, b \in Unit :
            /\ Message(l, "ack", 0, [edit |-> 0, size |-> 0]) = <<a, b>>
            /\ a.t = "ack" /\ b.t = "rest"
    <3>1. [t |-> "ack", by |-> l, n |-> 0, edit |-> 0, size |-> 0, k |-> 0] \in Unit
          /\ Rest(l) \in Unit
      BY SizeAssumption DEF Unit, Rest
    <3>2. QED BY <3>1 DEF Message, Rest
  <2>2. ~up'[l] /\ tx[l].pc = "next" /\ UNCHANGED <<rx, slipped>>
    BY <1>4 DEF Close, Types, TypeInv
  <2>3. wire' = [wire EXCEPT ![l] = @ \o <<a, b>>] /\ a.t \in Heads
    BY <1>4, <2>1 DEF Heads
  <2>4. QED BY <1>1, <2>1, <2>2, <2>3, FrameWrite
<1>5. QED BY <1>2, <1>3, <1>4 DEF Close

\* A reader in frame never meets junk (ReadJunk).
LEMMA NoJunk ==
  ASSUME Types, NEW l \in Link, FrameInv(l), l \notin slipped, rx[l].pc = "msg",
         wire[l] # <<>>
  PROVE  wire[l][1].t \in Heads
<1>1. /\ 1 \in 1..Len(wire[l]) /\ wire[l][1] \in Unit /\ rx[l].left = 0
      /\ Len(wire[l]) \in Nat
  BY LinkTypes DEF Types, PlaceInv
<1>2. PICK lab \in [1..(Len(wire[l]) + 1) -> 0..MaxSize] :
            Framed(wire[l], lab) /\ lab[1] = rx[l].left
  BY DEF FrameInv
<1>3. wire[l][1].t # "rest"
  BY <1>2 DEF Framed
<1>4. wire[l][1].t # "byte"
  <2>1. lab[1] = 0 /\ lab[2] \in 0..MaxSize
    BY <1>1, <1>2
  <2>2. wire[l][1].t = "byte" => lab[1] = lab[1 + 1] + 1
    BY <1>1, <1>2 DEF Framed
  <2>3. QED BY <2>1, <2>2, SizeAssumption
<1>5. QED BY <1>1, <1>3, <1>4 DEF Unit, Heads

\* A receiver reads or drains a stream label by label.
LEMMA FrameReceiver ==
  ASSUME Types, NEW l \in Link, FrameInv(l), Receiver(l)
  PROVE  FrameInv(l)'
<1>1. rx[l] \in Rx /\ rx[l].pc # "end" /\ UNCHANGED <<up, tx, slipped>>
      /\ (rx[l].pc \in {"ask", "msg", "write", "record"} => rx[l].left = 0)
      /\ (rx[l].pc = "drain" => rx[l].left > 0)
  BY LinkTypes DEF Types, PlaceInv, Receiver, Reply, Ask, ReadStream, RejectStream,
     ReadData, RejectData, ReadAck, ReadJunk, ReadEnd, Body, Write, Written, DiskFull,
     Drain, BodyEnds, Replace, ReplaceFails, Record, sending
<1>2. CASE \/ Ask(l) \/ ReadEnd(l) \/ BodyEnds(l) \/ Replace(l) \/ ReplaceFails(l) \/ Record(l)
           \/ Write(l) \/ Written(l) \/ DiskFull(l)
  <2>1. wire' = wire
    BY <1>2 DEF Ask, ReadEnd, BodyEnds, Replace, ReplaceFails, Record, Write, Written, DiskFull
  <2>2. rx'[l].pc # "end" => rx'[l].left = rx[l].left
    <3>1. CASE (\E pc \in {"ask", "msg"} : Go(l, pc)) /\ rx[l].left = 0
      BY <3>1, GoTypes
    <3>2. CASE Go(l, "end")
      BY <3>2, GoTypes
    <3>3. CASE Replace(l) /\ tmp[rx[l].path] # None
      BY <3>3, RenameTypes DEF Replace
    <3>4. CASE Write(l)
      BY <3>4, WriteTypes
    <3>5. CASE Written(l)
      BY <3>5, LinkTypes DEF Written, Rx, Types, TypeInv
    <3>6. QED BY <1>1, <1>2, <3>1, <3>2, <3>3, <3>4, <3>5
          DEF Ask, ReadEnd, BodyEnds, Replace, ReplaceFails, Record, DiskFull, Finish, Ready
  <2>3. QED BY <1>1, <2>1, <2>2, FrameKept
<1>3. CASE ReadStream(l) \/ RejectStream(l) \/ ReadData(l) \/ RejectData(l) \/ ReadAck(l)
  <2>1. /\ Consume(l, 2) /\ IsMessage(l) /\ rx[l].pc = "msg"
        /\ wire[l][1].t \in Heads /\ 2 <= Len(wire[l])
    BY <1>3 DEF ReadStream, RejectStream, ReadData, RejectData, ReadAck, IsMessage, Heads
  <2>2. \/ rx'[l].pc = "end"
        \/ rx'[l].left = IF wire[l][1].t = "stream" THEN wire[l][1].size ELSE 0
    <3>1. CASE ReadStream(l)
      <4>1. PICK p \in Path, i \in Id, s \in 0..MaxSize :
            /\ p = Named(l) /\ p = Files[l][wire[l][1].n] /\ s = wire[l][1].size
            /\ i = IF tmp[p] = None THEN <<l, p>> ELSE tmp[p]
            /\ tmp' = [tmp EXCEPT ![p] = i] /\ inode' = [inode EXCEPT ![i] = <<>>]
            /\ file' = file
            /\ rx' \in [Link -> Rx] /\ \A m \in Link : m # l => rx'[m] = rx[m]
            /\ rx'[l] = [pc |-> "body", path |-> p, at |-> i, left |-> s, k |-> 0]
            /\ i # None
        BY <3>1, StreamTypes
      <4>2. rx'[l] = [pc |-> "body", path |-> p, at |-> i, left |-> s, k |-> 0]
            /\ s = wire[l][1].size
        BY <4>1
      <4>3. rx'[l].left = s
        BY <4>2
      <4>4. QED BY <3>1, <4>2, <4>3 DEF ReadStream
    <3>2. CASE RejectStream(l)
      BY <3>2 DEF RejectStream, Types, TypeInv, Rx
    <3>3. CASE ReadData(l)
      <4>1. wire[l][1].t # "stream" /\ rx'[l].left = 0
        BY <3>3, DataTypes DEF ReadData
      <4>2. QED BY <4>1
    <3>4. CASE RejectData(l)
      <4>1. wire[l][1].t # "stream" /\ rx'[l].left = 0
        BY <3>4, GoTypes DEF RejectData, Ready
      <4>2. QED BY <4>1
    <3>5. CASE ReadAck(l)
      BY <3>5, GoTypes DEF ReadAck, Finish
    <3>6. QED BY <1>3, <3>1, <3>2, <3>3, <3>4, <3>5
  <2>3. PICK n \in 1..2 : n = 2
    OBVIOUS
  <2>4. QED BY <1>1, <2>1, <2>2, <2>3, FrameRead
<1>4. CASE ReadJunk(l)
  <2>1. CASE l \in slipped
    BY <1>1, <2>1 DEF FrameInv
  <2>2. CASE l \notin slipped
    <3>1. wire[l][1].t \in Heads
      BY <1>4, <2>2, NoJunk DEF ReadJunk
    <3>2. QED BY <1>4, <3>1 DEF ReadJunk, Heads
  <2>3. QED BY <2>1, <2>2
<1>5. CASE Body(l) \/ Drain(l)
  <2>1. /\ Consume(l, 1) /\ rx[l].left > 0 /\ 1 <= Len(wire[l])
    <3>1. Consume(l, 1) /\ wire[l] # <<>> /\ rx[l].left > 0
      BY <1>1, <1>5 DEF Body, Drain
    <3>2. QED BY <3>1, LinkTypes
  <2>2. rx'[l].left = rx[l].left - 1
    <3>1. CASE Body(l)
      BY <3>1, CountTypes DEF Body
    <3>2. CASE Drain(l) /\ rx[l].left = 1
      <4>1. rx'[l].left = 0
        BY <3>2, GoTypes DEF Drain, Ready
      <4>2. QED BY <3>2, <4>1
    <3>3. CASE Drain(l) /\ rx[l].left # 1
      BY <2>1, <3>3, CountTypes DEF Drain
    <3>4. QED BY <1>5, <3>1, <3>2, <3>3
  <2>3. PICK n \in 1..2 : n = 1
    OBVIOUS
  <2>4. QED BY <1>1, <2>1, <2>2, <2>3, FrameRead
<1>6. QED BY <1>2, <1>3, <1>4, <1>5 DEF Receiver, Reply

-----------------------------------------------------------------------------
\* A step of one link leaves the others alone, and no step forgets what has
\* happened.
Same(m) ==
    /\ wire'[m] = wire[m] /\ rx'[m] = rx[m] /\ up'[m] = up[m] /\ tx'[m] = tx[m]
    /\ source'[m] = source[m] /\ held'[m] = held[m]
    /\ \A p \in Path : <<m, p>> \in changed' => <<m, p>> \in changed

\* What a step of one link leaves alone at another.
LEMMA Elsewhere ==
  ASSUME Types, NEW l \in Link, NEW m \in Link, m # l,
         Sender(l) \/ Receiver(l) \/ Cut(l)
  PROVE  Same(m)
<1>1. /\ tx \in [Link -> Tx] /\ rx \in [Link -> Rx] /\ wire \in [Link -> Seq(Unit)]
      /\ up \in [Link -> BOOLEAN]
  BY DEF Types, TypeInv
<1>2. /\ source'[m] = source[m] /\ held'[m] = held[m]
      /\ \A p \in Path : <<m, p>> \in changed' => <<m, p>> \in changed
  <2>1. source' = source
    BY DEF Sender, Receiver, Reply, Cut, Announce, Open, Chunk, Close, Ask, ReadStream,
       RejectStream, ReadData, RejectData, ReadAck, ReadJunk, ReadEnd, Body, Write, Written,
       DiskFull, Drain, BodyEnds, Replace, ReplaceFails, Record, sending
  <2>2. changed' = changed \/ changed' = changed \cup {<<l, Files[l][tx[l].n]>>}
    BY DEF Sender, Receiver, Reply, Cut, Announce, Open, Chunk, Close, Ask, ReadStream,
       RejectStream, ReadData, RejectData, ReadAck, ReadJunk, ReadEnd, Body, Write, Written,
       DiskFull, Drain, BodyEnds, Replace, ReplaceFails, Record, sending
  <2>3. held'[m] = held[m]
    <3>1. CASE ReadData(l)
      BY <3>1, DataTypes, DiskTypes
    <3>2. CASE ~ReadData(l)
      BY <3>2 DEF Sender, Receiver, Reply, Cut, Announce, Open, Chunk, Close, Ask, ReadStream,
         RejectStream, OpenTmp, RejectData, ReadAck, ReadJunk, ReadEnd, Body, Write, Written,
         DiskFull, Drain, BodyEnds, Replace, ReplaceFails, Record, disk
    <3>3. QED BY <3>1, <3>2
  <2>4. QED BY <2>1, <2>2, <2>3
<1>3. wire'[m] = wire[m]
  BY <1>1 DEF Sender, Receiver, Reply, Cut, Announce, Open, Chunk, Close, Ask, ReadStream,
     RejectStream, ReadData, RejectData, ReadAck, ReadJunk, ReadEnd, Body, Write, Written,
     DiskFull, Drain, BodyEnds, Replace, ReplaceFails, Record, sending, Consume
<1>4. up'[m] = up[m]
  BY <1>1 DEF Sender, Receiver, Reply, Cut, Announce, Open, Chunk, Close, Ask, ReadStream,
     RejectStream, ReadData, RejectData, ReadAck, ReadJunk, ReadEnd, Body, Write, Written,
     DiskFull, Drain, BodyEnds, Replace, ReplaceFails, Record, sending
<1>5. tx'[m] = tx[m]
  <2>1. CASE Announce(l)
    <3>1. PICK s \in 0..MaxSize : s = Now(l).size
      BY <2>1, NowTypes DEF Announce, Src
    <3>2. \/ tx' = [tx EXCEPT ![l].pc = "open", ![l].size = s, ![l].k = 0]
          \/ Sent(l)
      BY <2>1, <3>1 DEF Announce
    <3>3. QED BY <3>2, OpenTypes, SentTypes
  <2>2. CASE Open(l)
    BY <1>1, <2>2, SentTypes DEF Open
  <2>3. CASE Chunk(l)
    BY <1>1, <2>3, SentTypes DEF Chunk
  <2>4. CASE Close(l) \/ Cut(l)
    BY <1>1, <2>4 DEF Close, Cut
  <2>5. CASE Receiver(l)
    BY <2>5 DEF Receiver, Reply, Ask, ReadStream, RejectStream, ReadData, RejectData,
       ReadAck, ReadJunk, ReadEnd, Body, Write, Written, DiskFull, Drain, BodyEnds, Replace,
       ReplaceFails, Record, sending
  <2>6. QED BY <2>1, <2>2, <2>3, <2>4, <2>5 DEF Sender
<1>6. rx'[m] = rx[m]
  <2>1. CASE Sender(l) \/ Cut(l)
    BY <2>1 DEF Sender, Announce, Open, Chunk, Close, Cut
  <2>2. CASE \E pc \in {"ask", "msg", "end"} : Go(l, pc)
    BY <2>2, GoTypes
  <2>3. CASE ReadStream(l)
    BY <2>3, StreamTypes
  <2>4. CASE ReadData(l)
    BY <2>4, DataTypes
  <2>5. CASE RejectStream(l)
    <3>1. PICK s : s = wire[l][1].size
      OBVIOUS
    <3>2. PICK r : r = [rx[l] EXCEPT !.pc = "drain", !.left = s]
      OBVIOUS
    <3>3. rx' = [rx EXCEPT ![l] = r]
      BY <1>1, <2>5, <3>1, <3>2 DEF RejectStream
    <3>4. QED BY <1>1, <3>3
  <2>6. CASE Body(l) \/ (Drain(l) /\ rx[l].left # 1)
    <3>1. rx[l].left > 0
      BY <2>6 DEF Body, Drain, Types, PlaceInv
    <3>2. QED BY <2>6, <3>1, CountTypes DEF Body, Drain
  <2>7. CASE Replace(l) /\ tmp[rx[l].path] # None
    BY <2>7, RenameTypes
  <2>9. CASE Write(l)
    BY <2>9, WriteTypes
  <2>10. CASE Written(l)
    BY <2>10, TypesWritten
  <2>8. QED BY <2>1, <2>2, <2>3, <2>4, <2>5, <2>6, <2>7, <2>9, <2>10
        DEF Receiver, Reply, Ask, RejectData, ReadAck, ReadJunk, ReadEnd,
            DiskFull, Drain, BodyEnds, Replace, ReplaceFails, Record, Finish, Ready
<1>7. QED BY <1>2, <1>3, <1>4, <1>5, <1>6 DEF Same

\* Nothing that has happened is forgotten.
LEMMA Remembers ==
  ASSUME Types, [Next]_vars
  PROVE  /\ slipped \subseteq slipped' /\ changed \subseteq changed'
         /\ met \subseteq met'
<1>1. ASSUME NEW l \in Link, Sender(l) \/ Receiver(l) \/ Cut(l)
      PROVE  /\ slipped \subseteq slipped' /\ changed \subseteq changed'
             /\ met \subseteq met'
  <2>1. CASE Sender(l) \/ Cut(l)
    BY <2>1 DEF Sender, Announce, Open, Chunk, Close, Cut
  <2>2. CASE Receiver(l)
    BY <2>2 DEF Receiver, Reply, Ask, ReadStream, RejectStream, ReadData, RejectData,
       ReadAck, ReadJunk, ReadEnd, Body, Write, Written, DiskFull, Drain, BodyEnds, Replace,
       ReplaceFails, Record, sending, Meets
  <2>3. QED BY <1>1, <2>1, <2>2
<1>2. QED BY <1>1 DEF Next, Edit, Remove, Crash, vars, sending

\* Nothing is on its way at first.
LEMMA FrameInit == Init => \A l \in Link : FrameInv(l)
<1> SUFFICES ASSUME Init, NEW l \in Link PROVE FrameInv(l)
  OBVIOUS
<1>1. /\ wire[l] = <<>> /\ Len(wire[l]) = 0 /\ rx[l].left = 0 /\ tx[l].pc = "next"
  BY DEF Init, Waiting
<1>2. PICK lab : lab = [j \in 1..1 |-> 0]
  OBVIOUS
<1>3. lab \in [1..(Len(wire[l]) + 1) -> 0..MaxSize] /\ lab[1] = 0
  BY <1>1, <1>2, SizeAssumption
<1>4. Framed(wire[l], lab)
  BY <1>1 DEF Framed
<1>5. QED BY <1>1, <1>3, <1>4 DEF FrameInv, Owed

\* Every step keeps every link in frame.
LEMMA FrameStep ==
  Types /\ (\A l \in Link : FrameInv(l)) /\ [Next]_vars => \A l \in Link : FrameInv(l)'
<1> SUFFICES ASSUME Types, \A l \in Link : FrameInv(l), [Next]_vars, NEW m \in Link
             PROVE  FrameInv(m)'
  OBVIOUS
<1>1. m \in slipped => m \in slipped'
  BY Remembers
<1>2. CASE Same(m)
  BY <1>1, <1>2, FrameKept DEF Same
<1>3. CASE UNCHANGED vars
  BY <1>1, <1>3, FrameKept DEF vars, sending
<1>4. ASSUME NEW l \in Link, Sender(l) \/ Receiver(l) \/ Cut(l)
      PROVE  FrameInv(m)'
  <2>1. CASE m # l
    BY <1>2, <1>4, <2>1, Elsewhere
  <2>2. CASE m = l
    BY <1>4, <2>2, FrameAnnounce, FrameOpenClose, FrameChunk, FrameReceiver, FrameCut DEF Sender
  <2>3. QED BY <2>1, <2>2
<1>5. ASSUME NEW l \in Link, NEW p \in Path, Edit(l, p) \/ Remove(l, p)
      PROVE  FrameInv(m)'
  BY <1>1, <1>5, FrameKept DEF Edit, Remove
<1>6. CASE Crash
  BY <1>6, CrashTypes DEF FrameInv
<1>7. QED BY <1>3, <1>4, <1>5, <1>6 DEF Next

-----------------------------------------------------------------------------
(* The files that have not changed                                         *)

\* A file that has changed stays changed.
LEMMA GoodShrinks ==
  ASSUME NEW l \in Link, changed \subseteq changed'
  PROVE  Good(l)' \subseteq Good(l)
BY DEF Good, Last

\* What the sender is at, if it has not changed.
LEMMA GoodNow ==
  ASSUME Types, NEW l \in Link, SourceInv(l), tx[l].n \in Good(l)
  PROVE  Now(l).size = SizeOf(l, tx[l].n) /\ Now(l).edit = 0
BY DEF SourceInv, Now

\* A sender that does not move has the same file.
LEMMA SourceKept ==
  ASSUME NEW l \in Link, SourceInv(l), Good(l)' \subseteq Good(l),
         source'[l] = source[l],
         tx'[l].pc \in {"open", "send"} =>
            /\ tx[l].pc \in {"open", "send"} /\ tx'[l].n = tx[l].n
            /\ tx'[l].size = tx[l].size /\ tx'[l].k = tx[l].k
  PROVE  SourceInv(l)'
BY DEF SourceInv

\* A sender announces the size of a good file and stops there.
LEMMA SourceSender ==
  ASSUME Types, NEW l \in Link, SourceInv(l), Announce(l) \/ Open(l) \/ Chunk(l)
  PROVE  SourceInv(l)'
<1>1. /\ changed \subseteq changed' /\ source' = source
      /\ tx[l] \in Tx
  BY LinkTypes DEF Announce, Open, Chunk
<1>2. Good(l)' \subseteq Good(l)
  BY <1>1, GoodShrinks
<1>3. CASE Sent(l)
  BY <1>1, <1>2, <1>3, SentTypes, SourceKept
<1>4. CASE Announce(l) /\ ~Sent(l)
  <2>1. PICK s \in 0..MaxSize : s = Now(l).size
    BY <1>4, NowTypes DEF Announce, Src
  <2>2. tx' = [tx EXCEPT ![l].pc = "open", ![l].size = s, ![l].k = 0]
    BY <1>4, <2>1 DEF Announce
  <2>3. tx'[l].n = tx[l].n /\ tx'[l].size = s /\ tx'[l].k = 0
    BY <2>2, OpenTypes
  <2>4. tx[l].n \in Good(l) => s = SizeOf(l, tx[l].n) /\ 0 <= SizeOf(l, tx[l].n)
    BY <2>1, GoodNow, SizeAssumption
  <2>5. QED BY <1>1, <1>2, <2>3, <2>4 DEF SourceInv
<1>5. CASE Open(l) /\ ~Sent(l)
  <2>1. \/ tx' = [tx EXCEPT ![l].pc = "send"] /\ tx[l].pc = "open"
        \/ tx' = [tx EXCEPT ![l].pc = "closed"]
    BY <1>5 DEF Open
  <2>2. tx'[l].pc \in {"open", "send"} =>
            /\ tx[l].pc \in {"open", "send"} /\ tx'[l].n = tx[l].n
            /\ tx'[l].size = tx[l].size /\ tx'[l].k = tx[l].k
    BY <1>1, <2>1 DEF Types, TypeInv, Tx
  <2>3. QED BY <1>1, <1>2, <2>2, SourceKept
<1>6. CASE Chunk(l) /\ ~Sent(l)
  <2>1. tx' = [tx EXCEPT ![l].k = @ + 1] /\ tx[l].k < Now(l).size /\ tx[l].pc = "send"
    BY <1>6 DEF Chunk
  <2>2. tx'[l].n = tx[l].n /\ tx'[l].size = tx[l].size /\ tx'[l].k = tx[l].k + 1
    BY <1>1, <2>1 DEF Types, TypeInv, Tx
  <2>3. tx[l].n \in Good(l) => tx[l].k + 1 <= SizeOf(l, tx[l].n)
    <3>1. tx[l].n \in Good(l) => SizeOf(l, tx[l].n) \in Nat
      BY LinkTypes DEF Good
    <3>2. QED BY <1>1, <2>1, <3>1, GoodNow, SizeAssumption DEF Tx
  <2>4. QED BY <1>1, <1>2, <2>1, <2>2, <2>3 DEF SourceInv
<1>7. QED BY <1>3, <1>4, <1>5, <1>6

\* A good file is not rewritten, and keeps its size when it goes.
LEMMA SourceEdit ==
  ASSUME Types, NEW l \in Link, NEW m \in Link, NEW p \in Path, SourceInv(m),
         Edit(l, p) \/ Remove(l, p)
  PROVE  SourceInv(m)'
<1>1. /\ changed \subseteq changed' /\ tx' = tx
      /\ \A n \in 1..Last(m) : Files[m][n] \in Path
  BY LinkTypes DEF Edit, Remove
<1>2. Good(m)' \subseteq Good(m) /\ Good(m) \subseteq 1..Last(m)
  BY <1>1, GoodShrinks DEF Good
<1>3. source \in [Link -> [Path -> Src]]
  BY DEF Types, TypeInv
<1>4. ASSUME NEW n \in Good(m)'
      PROVE  source'[m][Files[m][n]].size = SizeOf(m, n) /\ source'[m][Files[m][n]].edit = 0
  <2>1. source[m][Files[m][n]].size = SizeOf(m, n) /\ source[m][Files[m][n]].edit = 0
    BY <1>2 DEF SourceInv
  <2>2. CASE Edit(l, p)
    <3>1. PICK f \in Src : source' = [source EXCEPT ![l][p] = f]
      BY <2>2, EditTypes
    <3>2. ~(m = l /\ Files[m][n] = p)
      BY <1>1, <2>2 DEF Edit, Good
    <3>3. Files[m][n] \in Path
      BY <1>1, <1>2
    <3>4. source'[m][Files[m][n]] = source[m][Files[m][n]]
      BY <1>3, <3>1, <3>2, <3>3
    <3>5. QED BY <2>1, <3>4
  <2>3. CASE Remove(l, p)
    <3>1. PICK f \in Src : /\ source' = [source EXCEPT ![l][p] = f]
                           /\ f.size = source[l][p].size /\ f.edit = source[l][p].edit
      BY <2>3, RemoveTypes
    <3>2. Files[m][n] \in Path
      BY <1>1, <1>2
    <3>3. CASE m = l /\ Files[m][n] = p
      BY <1>3, <2>1, <3>1, <3>2, <3>3
    <3>4. CASE ~(m = l /\ Files[m][n] = p)
      <4>1. source'[m][Files[m][n]] = source[m][Files[m][n]]
        BY <1>3, <3>1, <3>2, <3>4
      <4>2. QED BY <2>1, <4>1
    <3>5. QED BY <3>3, <3>4
  <2>4. QED BY <2>2, <2>3
<1>5. QED BY <1>1, <1>2, <1>4 DEF SourceInv

\* Every step keeps what a sender has of the good files.
LEMMA SourceStep ==
  ASSUME Types, \A l \in Link : SourceInv(l), [Next]_vars, NEW m \in Link
  PROVE  SourceInv(m)'
<1>1. changed \subseteq changed' /\ Good(m)' \subseteq Good(m)
  BY Remembers, GoodShrinks
<1>2. CASE source'[m] = source[m] /\ tx'[m] = tx[m]
  BY <1>1, <1>2, SourceKept
<1>3. CASE UNCHANGED vars
  BY <1>2, <1>3 DEF vars, sending
<1>4. ASSUME NEW l \in Link, Sender(l) \/ Receiver(l) \/ Cut(l)
      PROVE  SourceInv(m)'
  <2>1. CASE m # l
    BY <1>2, <1>4, <2>1, Elsewhere DEF Same
  <2>2. CASE m = l /\ Sender(l) /\ ~Close(l)
    BY <2>2, SourceSender DEF Sender
  <2>3. CASE m = l /\ (Close(l) \/ Cut(l))
    <3>1. tx'[l].pc = "closed" /\ source' = source
      BY <2>3 DEF Close, Cut, Types, TypeInv, Tx
    <3>2. QED BY <1>1, <2>3, <3>1, SourceKept
  <2>4. CASE m = l /\ Receiver(l)
    <3>1. source' = source /\ tx' = tx
      BY <2>4 DEF Receiver, Reply, Ask, ReadStream, RejectStream, ReadData, RejectData,
         ReadAck, ReadJunk, ReadEnd, Body, Write, Written, DiskFull, Drain, BodyEnds,
         Replace, ReplaceFails, Record, sending
    <3>2. QED BY <1>2, <3>1
  <2>5. QED BY <1>4, <2>1, <2>2, <2>3, <2>4
<1>5. ASSUME NEW l \in Link, NEW p \in Path, Edit(l, p) \/ Remove(l, p)
      PROVE  SourceInv(m)'
  BY <1>5, SourceEdit
<1>6. CASE Crash
  BY <1>1, <1>6, CrashTypes, SourceKept
<1>7. QED BY <1>3, <1>4, <1>5, <1>6 DEF Next

-----------------------------------------------------------------------------
(* Chains                                                                  *)

\* One link of a chain.
Joint(G, l, w, j) ==
    /\ IsFile(w[j]) /\ w[j].n \in G =>
           w[j].by = l /\ w[j].size = SizeOf(l, w[j].n) /\ w[j].edit = 0
    /\ j < Len(w) /\ w[j].t \in Heads => w[j + 1].t = "rest"
    /\ w[j].t = "byte" /\ w[j].n \in G => w[j] = ByteOf(l, w[j].n, w[j].k)
    /\ j < Len(w) /\ w[j].t = "byte" /\ w[j].n \in G /\ w[j].k < SizeOf(l, w[j].n) =>
           w[j + 1] = ByteOf(l, w[j].n, w[j].k + 1)
    /\ j + 1 < Len(w) /\ w[j].t = "stream" /\ w[j].n \in G =>
           w[j + 2] = ByteOf(l, w[j].n, 1)

Rising(w) ==
    \A i, j \in 1..Len(w) : i < j /\ IsFile(w[i]) /\ IsFile(w[j]) => w[i].n < w[j].n

\* A chain is its joints, with rising numbers.
LEMMA ChainParts ==
  ASSUME NEW G, NEW l, NEW w
  PROVE  Chain(G, l, w) <=> (\A j \in 1..Len(w) : Joint(G, l, w, j)) /\ Rising(w)
BY DEF Chain, Joint, Rising

\* Fewer good files ask for less.
LEMMA ChainFewer ==
  ASSUME NEW G, NEW H \in SUBSET G, NEW l, NEW w, Chain(G, l, w)
  PROVE  Chain(H, l, w)
<1>1. ASSUME NEW j \in 1..Len(w) PROVE Joint(H, l, w, j)
  <2>1. Joint(G, l, w, j)
    BY ChainParts
  <2>2. QED BY <2>1 DEF Joint
<1>2. Rising(w)
  BY ChainParts
<1>3. QED BY <1>1, <1>2, ChainParts

\* The end of a chain is a chain.
LEMMA ChainShift ==
  ASSUME NEW G, NEW l, NEW w \in Seq(Unit), NEW n \in 0..Len(w), NEW v \in Seq(Unit),
         Chain(G, l, w), Len(v) = Len(w) - n, \A j \in 1..Len(v) : v[j] = w[n + j]
  PROVE  Chain(G, l, v)
<1>1. Len(w) \in Nat /\ Len(v) \in Nat
  BY LenProperties
<1>2. ASSUME NEW j \in 1..Len(v) PROVE Joint(G, l, v, j)
  <2>1. PICK i \in 1..Len(w) : i = n + j
    BY <1>1
  <2>2. Joint(G, l, w, i)
    BY ChainParts
  <2>3. v[j] = w[i] /\ (j < Len(v) <=> i < Len(w)) /\ (j + 1 < Len(v) <=> i + 1 < Len(w))
    BY <1>1, <2>1
  <2>4. j < Len(v) => v[j + 1] = w[i + 1]
    <3> SUFFICES ASSUME j < Len(v) PROVE v[j + 1] = w[i + 1]
      OBVIOUS
    <3>1. j + 1 \in 1..Len(v) /\ n + (j + 1) = i + 1
      BY <1>1, <2>1
    <3>2. v[j + 1] = w[n + (j + 1)]
      BY <3>1
    <3>3. QED BY <3>1, <3>2
  <2>5. j + 1 < Len(v) => v[j + 2] = w[i + 2]
    <3> SUFFICES ASSUME j + 1 < Len(v) PROVE v[j + 2] = w[i + 2]
      OBVIOUS
    <3>1. j + 2 \in 1..Len(v) /\ n + (j + 2) = i + 2
      BY <1>1, <2>1
    <3>2. v[j + 2] = w[n + (j + 2)]
      BY <3>1
    <3>3. QED BY <3>1, <3>2
  <2>6. QED BY <2>2, <2>3, <2>4, <2>5 DEF Joint
<1>3. Rising(v)
  <2> SUFFICES ASSUME NEW i \in 1..Len(v), NEW j \in 1..Len(v), i < j,
                      IsFile(v[i]), IsFile(v[j])
               PROVE  v[i].n < v[j].n
    BY DEF Rising
  <2>1. n + i \in 1..Len(w) /\ n + j \in 1..Len(w) /\ n + i < n + j
    BY <1>1
  <2>2. v[i] = w[n + i] /\ v[j] = w[n + j]
    OBVIOUS
  <2>3. Rising(w)
    BY ChainParts
  <2>4. QED BY <2>1, <2>2, <2>3 DEF Rising
<1>4. QED BY <1>2, <1>3, ChainParts

\* So is its beginning.
LEMMA ChainPrefix ==
  ASSUME NEW G, NEW l, NEW w \in Seq(Unit), NEW v \in Seq(Unit),
         Chain(G, l, w), Len(v) \in 0..Len(w), \A j \in 1..Len(v) : v[j] = w[j]
  PROVE  Chain(G, l, v)
<1>1. Len(w) \in Nat /\ Len(v) \in Nat
  BY LenProperties
<1>2. ASSUME NEW j \in 1..Len(v) PROVE Joint(G, l, v, j)
  <2>1. j \in 1..Len(w)
    BY <1>1
  <2>2. Joint(G, l, w, j)
    BY <2>1, ChainParts
  <2>3. v[j] = w[j] /\ (j < Len(v) => j < Len(w)) /\ (j + 1 < Len(v) => j + 1 < Len(w))
    BY <1>1
  <2>4. (j < Len(v) => v[j + 1] = w[j + 1]) /\ (j + 1 < Len(v) => v[j + 2] = w[j + 2])
    <3>1. (j < Len(v) => j + 1 \in 1..Len(v)) /\ (j + 1 < Len(v) => j + 2 \in 1..Len(v))
      BY <1>1
    <3>2. QED BY <3>1
  <2>5. QED BY <2>2, <2>3, <2>4 DEF Joint
<1>3. Rising(v)
  <2>1. Rising(w) /\ \A j \in 1..Len(v) : j \in 1..Len(w)
    BY <1>1, ChainParts
  <2>2. QED BY <2>1 DEF Rising
<1>4. QED BY <1>2, <1>3, ChainParts

\* Nothing is missing at the end.
Complete(G, l, w) ==
    /\ w # <<>> =>
        /\ w[Len(w)].t \notin Heads
        /\ ~(w[Len(w)].t = "byte" /\ w[Len(w)].n \in G /\ w[Len(w)].k < SizeOf(l, w[Len(w)].n))
    /\ ~(Len(w) >= 2 /\ w[Len(w) - 1].t = "stream" /\ w[Len(w) - 1].n \in G)

\* A message may follow a chain at whose end nothing is missing.
LEMMA ChainMessage ==
  ASSUME NEW G, NEW l, NEW w \in Seq(Unit), NEW v \in Seq(Unit), Chain(G, l, w),
         Complete(G, l, w), Len(v) = Len(w) + 2, \A j \in 1..Len(w) : v[j] = w[j],
         v[Len(w) + 1].t \in Heads, v[Len(w) + 2].t = "rest",
         IsFile(v[Len(w) + 1]) =>
            /\ \A j \in 1..Len(w) : IsFile(w[j]) => w[j].n < v[Len(w) + 1].n
            /\ v[Len(w) + 1].n \in G =>
                  /\ v[Len(w) + 1].by = l /\ v[Len(w) + 1].size = SizeOf(l, v[Len(w) + 1].n)
                  /\ v[Len(w) + 1].edit = 0
  PROVE  Chain(G, l, v)
<1>1. Len(w) \in Nat /\ Len(v) \in Nat /\ (w # <<>> <=> Len(w) > 0)
  BY LenProperties, EmptySeq
<1>2. ASSUME NEW j \in 1..Len(v) PROVE Joint(G, l, v, j)
  <2>1. CASE j = Len(w) + 1
    <3>1. ~(j + 1 < Len(v)) /\ j + 1 = Len(w) + 2
      BY <1>1, <2>1
    <3>2. QED BY <2>1, <3>1 DEF Joint, Heads
  <2>2. CASE j = Len(w) + 2
    <3>1. ~(j + 1 < Len(v)) /\ ~(j < Len(v))
      BY <1>1, <2>2
    <3>2. QED BY <2>2, <3>1 DEF Joint, Heads, IsFile
  <2>3. CASE j \in 1..Len(w)
    <3>1. Joint(G, l, w, j) /\ v[j] = w[j]
      BY <2>3, ChainParts
    <3>2. CASE j + 1 < Len(w)
      <4>1. v[j + 1] = w[j + 1] /\ v[j + 2] = w[j + 2] /\ j < Len(w)
        BY <1>1, <2>3, <3>2
      <4>2. QED BY <3>1, <3>2, <4>1 DEF Joint
    <3>3. CASE j + 1 = Len(w)
      <4>1. v[j + 1] = w[j + 1] /\ j < Len(w) /\ Len(w) >= 2 /\ j = Len(w) - 1
        BY <1>1, <2>3, <3>3
      <4>2. ~(w[j].t = "stream" /\ w[j].n \in G)
        BY <4>1 DEF Complete
      <4>3. QED BY <3>1, <4>1, <4>2 DEF Joint
    <3>4. CASE j = Len(w)
      <4>1. /\ w[j].t \notin Heads
            /\ ~(w[j].t = "byte" /\ w[j].n \in G /\ w[j].k < SizeOf(l, w[j].n))
        BY <1>1, <2>3, <3>4 DEF Complete
      <4>2. w[j].t # "stream"
        BY <4>1 DEF Heads
      <4>3. QED BY <3>1, <4>1, <4>2 DEF Joint
    <3>5. QED BY <1>1, <2>3, <3>2, <3>3, <3>4
  <2>4. QED BY <1>1, <2>1, <2>2, <2>3
<1>3. Rising(v)
  <2> SUFFICES ASSUME NEW i \in 1..Len(v), NEW j \in 1..Len(v), i < j,
                      IsFile(v[i]), IsFile(v[j])
               PROVE  v[i].n < v[j].n
    BY DEF Rising
  <2>1. j # Len(w) + 2
    BY DEF IsFile
  <2>2. i \in 1..Len(w) /\ v[i] = w[i]
    BY <1>1, <2>1
  <2>3. CASE j = Len(w) + 1
    BY <2>2, <2>3
  <2>4. CASE j \in 1..Len(w)
    <3>1. Rising(w) /\ v[j] = w[j]
      BY <2>4, ChainParts
    <3>2. QED BY <2>2, <2>4, <3>1 DEF Rising
  <2>5. QED BY <1>1, <2>1, <2>3, <2>4
<1>4. QED BY <1>2, <1>3, ChainParts

\* A byte may follow the byte before it, or the header.
LEMMA ChainByte ==
  ASSUME NEW G, NEW l, NEW w \in Seq(Unit), NEW v \in Seq(Unit), NEW b \in Unit,
         Chain(G, l, w),
         Len(v) = Len(w) + 1, \A j \in 1..Len(w) : v[j] = w[j], v[Len(w) + 1] = b,
         b.t = "byte", b.n \in G => b = ByteOf(l, b.n, b.k),
         w # <<>> =>
            /\ w[Len(w)].t \notin Heads
            /\ w[Len(w)].t = "byte" /\ w[Len(w)].n \in G /\ w[Len(w)].k < SizeOf(l, w[Len(w)].n) =>
                   b.n = w[Len(w)].n /\ b.k = w[Len(w)].k + 1,
         Len(w) >= 2 /\ w[Len(w) - 1].t = "stream" /\ w[Len(w) - 1].n \in G =>
            b.n = w[Len(w) - 1].n /\ b.k = 1
  PROVE  Chain(G, l, v)
<1>1. Len(w) \in Nat /\ Len(v) \in Nat /\ (w # <<>> <=> Len(w) > 0)
  BY LenProperties, EmptySeq
<1>2. ASSUME NEW j \in 1..Len(v) PROVE Joint(G, l, v, j)
  <2>1. CASE j = Len(w) + 1
    <3>1. ~(j + 1 < Len(v)) /\ ~(j < Len(v)) /\ v[j] = b
      BY <1>1, <2>1
    <3>2. QED BY <3>1 DEF Joint, Heads, IsFile
  <2>2. CASE j \in 1..Len(w)
    <3>1. Joint(G, l, w, j) /\ v[j] = w[j]
      BY <2>2, ChainParts
    <3>2. CASE j + 1 < Len(w)
      <4>1. v[j + 1] = w[j + 1] /\ v[j + 2] = w[j + 2] /\ j < Len(w)
        BY <1>1, <2>2, <3>2
      <4>2. QED BY <3>1, <3>2, <4>1 DEF Joint
    <3>3. CASE j + 1 = Len(w)
      <4>1. /\ v[j + 1] = w[j + 1] /\ j < Len(w) /\ Len(w) >= 2 /\ j = Len(w) - 1
            /\ v[j + 2] = b
        BY <1>1, <2>2, <3>3
      <4>2. w[j].t = "stream" /\ w[j].n \in G => b = ByteOf(l, w[j].n, 1)
        BY <4>1
      <4>3. QED BY <3>1, <4>1, <4>2 DEF Joint
    <3>4. CASE j = Len(w)
      <4>1. /\ w[j].t \notin Heads /\ v[j + 1] = b
            /\ w[j].t = "byte" /\ w[j].n \in G /\ w[j].k < SizeOf(l, w[j].n) =>
                 b = ByteOf(l, w[j].n, w[j].k + 1)
        BY <1>1, <2>2, <3>4
      <4>2. w[j].t # "stream" /\ ~(j + 1 < Len(v))
        BY <1>1, <3>4, <4>1 DEF Heads
      <4>3. QED BY <3>1, <4>1, <4>2 DEF Joint
    <3>5. QED BY <1>1, <2>2, <3>2, <3>3, <3>4
  <2>3. QED BY <1>1, <2>1, <2>2
<1>3. Rising(v)
  <2> SUFFICES ASSUME NEW i \in 1..Len(v), NEW j \in 1..Len(v), i < j,
                      IsFile(v[i]), IsFile(v[j])
               PROVE  v[i].n < v[j].n
    BY DEF Rising
  <2>1. i # Len(w) + 1 /\ j # Len(w) + 1
    BY DEF IsFile
  <2>2. i \in 1..Len(w) /\ j \in 1..Len(w) /\ v[i] = w[i] /\ v[j] = w[j]
    BY <1>1, <2>1
  <2>3. Rising(w)
    BY ChainParts
  <2>4. QED BY <2>2, <2>3 DEF Rising
<1>4. QED BY <1>2, <1>3, ChainParts

-----------------------------------------------------------------------------
(* The link: chain, end and beginning                                      *)

\* What a step does to a link, in the terms of the invariants.
LEMMA LinkKept ==
  ASSUME NEW l \in Link, LinkInv(l), Good(l)' \subseteq Good(l),
         wire'[l] = wire[l], up'[l] => up[l],
         up'[l] => tx'[l] = tx[l],
         rx'[l].pc = "body" =>
            /\ rx[l].pc = "body" /\ rx'[l].path = rx[l].path
            /\ rx'[l].k = rx[l].k /\ rx'[l].left = rx[l].left
  PROVE  LinkInv(l)'
<1>1. Chain(Good(l)', l, wire'[l])
  BY ChainFewer DEF LinkInv
<1>2. up'[l] => Onward(Good(l)', l, wire'[l], tx'[l])
  BY DEF LinkInv, Onward
<1>3. Reading(l)'
  BY DEF LinkInv, Reading, Expects, Last
<1>4. QED BY <1>1, <1>2, <1>3 DEF LinkInv

\* Nobody expects what is not on its way while the sender waits.
LEMMA WaitsForNothing ==
  ASSUME Types, NEW l \in Link, LinkInv(l), up[l], tx[l].pc = "next"
  PROVE  Complete(Good(l), l, wire[l])
BY DEF LinkInv, Onward, Complete

\* A message is written: files of which nothing was sent before, or an ACK.
LEMMA LinkWrite ==
  ASSUME Types, NEW l \in Link, NEW a \in Unit, NEW b \in Unit, LinkInv(l),
         wire' = [wire EXCEPT ![l] = @ \o <<a, b>>], up[l], tx[l].pc = "next",
         UNCHANGED <<rx, changed>>,
         a.t \in Heads, b.t = "rest",
         IsFile(a) => /\ a.n = tx[l].n
                      /\ a.n \in Good(l) => a.by = l /\ a.size = SizeOf(l, a.n) /\ a.edit = 0,
         up'[l] => /\ Todo(tx'[l]) = tx[l].n + 1
                   /\ a.t = "stream" =>
                        tx'[l].pc = "open" /\ tx'[l].n = a.n /\ tx'[l].k = 0
  PROVE  LinkInv(l)'
<1>1. wire[l] \in Seq(Unit) /\ wire'[l] = wire[l] \o <<a, b>> /\ tx[l].n \in Nat
  BY LinkTypes DEF Types, TypeInv, Tx
<1>2. PICK w \in Seq(Unit), v \in Seq(Unit) :
            /\ w = wire[l] /\ v = wire'[l] /\ Len(w) \in Nat
            /\ Len(v) = Len(w) + 2 /\ \A j \in 1..Len(w) : v[j] = w[j]
            /\ v[Len(w) + 1] = a /\ v[Len(w) + 2] = b
  <2>1. /\ wire'[l] \in Seq(Unit) /\ Len(wire'[l]) = Len(wire[l]) + 2
        /\ \A j \in 1..Len(wire[l]) : wire'[l][j] = wire[l][j]
        /\ wire'[l][Len(wire[l]) + 1] = a /\ wire'[l][Len(wire[l]) + 2] = b
    BY <1>1, TwoMore
  <2>2. Len(wire[l]) \in Nat
    BY LinkTypes
  <2>3. QED BY <1>1, <2>1, <2>2
<1>3. Good(l)' = Good(l)
  BY DEF Good, Last
<1>4. Complete(Good(l), l, w) /\ Chain(Good(l), l, w)
  BY <1>2, WaitsForNothing DEF LinkInv
<1>5. \A j \in 1..Len(w) : IsFile(w[j]) => w[j].n < tx[l].n
  BY <1>2 DEF LinkInv, Onward, Todo
<1>6. Chain(Good(l), l, v)
  <2>1. PICK G : G = Good(l)
    OBVIOUS
  <2>2. /\ Chain(G, l, w) /\ Complete(G, l, w)
        /\ v[Len(w) + 1].t \in Heads /\ v[Len(w) + 2].t = "rest"
        /\ IsFile(v[Len(w) + 1]) =>
            /\ \A j \in 1..Len(w) : IsFile(w[j]) => w[j].n < v[Len(w) + 1].n
            /\ v[Len(w) + 1].n \in G =>
                  /\ v[Len(w) + 1].by = l /\ v[Len(w) + 1].size = SizeOf(l, v[Len(w) + 1].n)
                  /\ v[Len(w) + 1].edit = 0
    BY <1>2, <1>4, <1>5, <2>1
  <2>3. Chain(G, l, v)
    BY <1>2, <2>2, ChainMessage
  <2>4. QED BY <2>1, <2>3
<1>7. up'[l] => Onward(Good(l), l, v, tx'[l])
  <2> SUFFICES ASSUME up'[l] PROVE Onward(Good(l), l, v, tx'[l])
    OBVIOUS
  <2>1. v[Len(v)] = b /\ v[Len(v) - 1] = a
    BY <1>2
  <2>2. ASSUME NEW j \in 1..Len(v), IsFile(v[j]) PROVE v[j].n < Todo(tx'[l])
    <3>1. CASE j \in 1..Len(w)
      <4>1. v[j] = w[j] /\ w[j].n < tx[l].n /\ w[j] \in Unit
        BY <1>2, <1>5, <2>2, <3>1, ElementOfSeq
      <4>2. w[j].n \in Nat
        BY <4>1 DEF Unit
      <4>3. QED BY <1>1, <4>1, <4>2
    <3>2. CASE j = Len(w) + 1
      <4>1. v[j] = a /\ a.n = tx[l].n
        BY <1>2, <2>2, <3>2
      <4>2. QED BY <1>1, <4>1
    <3>3. CASE j = Len(w) + 2
      BY <1>2, <2>2, <3>3 DEF IsFile
    <3>4. QED BY <1>2, <3>1, <3>2, <3>3
  <2>3. QED BY <2>1, <2>2 DEF Onward, Heads
<1>8. Reading(l)'
  <2> SUFFICES ASSUME rx[l].pc = "body"
               PROVE \E n \in 1..Last(l) :
                        /\ Files[l][n] = rx[l].path
                        /\ n \in Good(l) =>
                             /\ rx[l].k + rx[l].left = SizeOf(l, n)
                             /\ rx[l].left > 0 =>
                                    Expects(wire'[l], tx'[l], up'[l], l, n, rx[l].k)
    BY <1>3 DEF Reading, Last
  <2>1. PICK n \in 1..Last(l) :
            /\ Files[l][n] = rx[l].path
            /\ n \in Good(l) =>
                 /\ rx[l].k + rx[l].left = SizeOf(l, n)
                 /\ rx[l].left > 0 => Expects(wire[l], tx[l], up[l], l, n, rx[l].k)
    BY DEF LinkInv, Reading
  <2>2. Expects(wire[l], tx[l], up[l], l, n, rx[l].k) =>
            Expects(wire'[l], tx'[l], up'[l], l, n, rx[l].k)
    <3> SUFFICES ASSUME Expects(wire[l], tx[l], up[l], l, n, rx[l].k)
                 PROVE  Expects(wire'[l], tx'[l], up'[l], l, n, rx[l].k)
      OBVIOUS
    <3>1. w # <<>> /\ w[1] = ByteOf(l, n, rx[l].k + 1)
      BY <1>2 DEF Expects
    <3>2. v # <<>> /\ v[1] = w[1]
      <4>1. Len(w) > 0 /\ Len(v) > 0
        BY <1>2, <3>1, EmptySeq
      <4>2. v # <<>>
        BY <4>1, EmptySeq
      <4>3. QED BY <1>2, <4>1, <4>2
    <3>3. QED BY <1>2, <3>1, <3>2 DEF Expects
  <2>3. QED BY <2>1, <2>2
<1>9. QED BY <1>2, <1>3, <1>6, <1>7, <1>8 DEF LinkInv

\* The sender moves without writing.
LEMMA LinkMove ==
  ASSUME Types, Types', NEW l \in Link, LinkInv(l), UNCHANGED <<rx>>,
         wire'[l] = wire[l], Good(l)' \subseteq Good(l), up'[l] => up[l],
         up'[l] => Todo(tx'[l]) >= Todo(tx[l]),
         up'[l] /\ tx[l].pc \in {"open", "send"} /\ tx[l].n \in Good(l)' /\ tx[l].k < SizeOf(l, tx[l].n)
            => /\ tx'[l].pc \in {"open", "send"} /\ (tx[l].pc = "send" => tx'[l].pc = "send")
               /\ tx'[l].n = tx[l].n /\ tx'[l].k = tx[l].k
  PROVE  LinkInv(l)'
<1>1. Chain(Good(l)', l, wire'[l])
  BY ChainFewer DEF LinkInv
<1>2. up'[l] => Onward(Good(l)', l, wire'[l], tx'[l])
  <2> SUFFICES ASSUME up'[l] PROVE Onward(Good(l)', l, wire'[l], tx'[l])
    OBVIOUS
  <2>1. Onward(Good(l), l, wire[l], tx[l])
    BY DEF LinkInv
  <2>2. \A j \in 1..Len(wire[l]) : IsFile(wire[l][j]) => wire[l][j].n < Todo(tx'[l])
    <3>1. Todo(tx[l]) \in Nat /\ Todo(tx'[l]) \in Nat
      <4>1. tx[l] \in Tx /\ tx'[l] \in Tx
        BY DEF Types, TypeInv
      <4>2. QED BY <4>1 DEF Todo, Tx
    <3>2. \A j \in 1..Len(wire[l]) : wire[l][j].n \in Nat
      BY LinkTypes DEF Unit
    <3>3. QED BY <2>1, <3>1, <3>2 DEF Onward
  <2>3. tx[l].n \in Good(l)' => SizeOf(l, tx[l].n) \in Nat /\ 0 < SizeOf(l, tx[l].n)
    BY LinkTypes DEF Good
  <2>4. QED BY <2>1, <2>2, <2>3 DEF Onward
<1>3. Reading(l)'
  <2> SUFFICES ASSUME rx[l].pc = "body"
               PROVE \E n \in 1..Last(l) :
                        /\ Files[l][n] = rx[l].path
                        /\ n \in Good(l)' =>
                             /\ rx[l].k + rx[l].left = SizeOf(l, n)
                             /\ rx[l].left > 0 =>
                                    Expects(wire[l], tx'[l], up'[l], l, n, rx[l].k)
    BY DEF Reading, Last
  <2>1. PICK n \in 1..Last(l) :
            /\ Files[l][n] = rx[l].path
            /\ n \in Good(l) =>
                 /\ rx[l].k + rx[l].left = SizeOf(l, n)
                 /\ rx[l].left > 0 => Expects(wire[l], tx[l], up[l], l, n, rx[l].k)
    BY DEF LinkInv, Reading
  <2>2. ASSUME n \in Good(l)', rx[l].left > 0, Expects(wire[l], tx[l], up[l], l, n, rx[l].k)
        PROVE  Expects(wire[l], tx'[l], up'[l], l, n, rx[l].k)
    <3>1. rx[l].k < SizeOf(l, n)
      <4>1. rx[l] \in Rx /\ SizeOf(l, n) \in Nat
        BY LinkTypes
      <4>2. QED BY <2>1, <2>2, <4>1, SizeAssumption DEF Rx
    <3>2. QED BY <2>2, <3>1 DEF Expects
  <2>3. QED BY <2>1, <2>2
<1>4. QED BY <1>1, <1>2, <1>3 DEF LinkInv

\* The next byte of the file is written at the end.
LEMMA LinkByte ==
  ASSUME Types, NEW l \in Link, LinkInv(l), SourceInv(l), Chunk(l), tx[l].k < Now(l).size
  PROVE  LinkInv(l)'
<1>1. /\ tx[l] \in Tx /\ tx[l].pc = "send" /\ up[l] /\ up' = up /\ rx' = rx
      /\ tx' = [tx EXCEPT ![l].k = @ + 1]
      /\ wire' = [wire EXCEPT ![l] = Append(@, Byte(l, tx[l].n, Now(l), tx[l].k + 1))]
  BY LinkTypes DEF Chunk
<1>2. PICK b \in Unit : b = Byte(l, tx[l].n, Now(l), tx[l].k + 1)
  <2>1. tx[l].n <= Last(l) /\ tx[l].k + 1 \in Nat
    BY <1>1 DEF Tx, Types, PlaceInv
  <2>2. QED BY <2>1, NowTypes
<1>3. /\ b.t = "byte" /\ b.n = tx[l].n /\ b.k = tx[l].k + 1
      /\ b.n \in Good(l) => b = ByteOf(l, tx[l].n, tx[l].k + 1)
  BY <1>2, GoodNow DEF Byte, ByteOf
<1>4. wire[l] \in Seq(Unit) /\ wire'[l] = Append(wire[l], b)
  BY <1>1, <1>2, LinkTypes DEF Types, TypeInv
<1>5. PICK w \in Seq(Unit), v \in Seq(Unit) :
            /\ w = wire[l] /\ v = wire'[l] /\ Len(w) \in Nat
            /\ Len(v) = Len(w) + 1 /\ \A j \in 1..Len(w) : v[j] = w[j]
            /\ v[Len(w) + 1] = b
  <2>1. /\ wire'[l] \in Seq(Unit) /\ Len(wire'[l]) = Len(wire[l]) + 1
        /\ \A j \in 1..Len(wire[l]) : wire'[l][j] = wire[l][j]
        /\ wire'[l][Len(wire[l]) + 1] = b
    BY <1>4, AppendProperties
  <2>2. Len(wire[l]) \in Nat
    BY LinkTypes
  <2>3. QED BY <1>4, <2>1, <2>2
<1>6. /\ Good(l)' = Good(l) /\ Last(l)' = Last(l)
      /\ tx'[l].pc = "send" /\ tx'[l].n = tx[l].n /\ tx'[l].k = tx[l].k + 1
  BY <1>1 DEF Good, Last, Chunk, Types, TypeInv, Tx
<1>7. Onward(Good(l), l, w, tx[l]) /\ Chain(Good(l), l, w)
  BY <1>1, <1>5 DEF LinkInv
<1>8. Chain(Good(l), l, v)
  <2>1. PICK G : G = Good(l)
    OBVIOUS
  <2>2. b.n \in G => b = ByteOf(l, b.n, b.k)
    BY <1>3, <2>1
  <2>3. /\ Chain(G, l, w)
        /\ w # <<>> =>
            /\ w[Len(w)].t \notin Heads
            /\ w[Len(w)].t = "byte" /\ w[Len(w)].n \in G /\ w[Len(w)].k < SizeOf(l, w[Len(w)].n) =>
                   b.n = w[Len(w)].n /\ b.k = w[Len(w)].k + 1
    BY <1>3, <1>7, <2>1 DEF Onward
  <2>4. Len(w) >= 2 /\ w[Len(w) - 1].t = "stream" /\ w[Len(w) - 1].n \in G =>
            b.n = w[Len(w) - 1].n /\ b.k = 1
    BY <1>3, <1>7, <2>1 DEF Onward
  <2>5. Chain(G, l, v)
    BY <1>3, <1>5, <2>2, <2>3, <2>4, ChainByte
  <2>6. QED BY <2>1, <2>5
<1>9. Onward(Good(l), l, v, tx'[l])
  <2>1. v[Len(v)] = b /\ (Len(v) >= 2 => v[Len(v) - 1] = w[Len(w)] /\ w # <<>>)
    <3>1. Len(v) >= 2 => Len(w) > 0 /\ Len(v) - 1 = Len(w)
      BY <1>5
    <3>2. QED BY <1>5, <3>1, EmptySeq
  <2>2. ASSUME NEW j \in 1..Len(v), IsFile(v[j]) PROVE v[j].n < Todo(tx'[l])
    <3>1. j \in 1..Len(w)
      BY <1>3, <1>5, <2>2 DEF IsFile
    <3>2. v[j].n < Todo(tx[l])
      BY <1>5, <1>7, <2>2, <3>1 DEF Onward
    <3>3. QED BY <1>1, <1>6, <3>2 DEF Todo
  <2>3. Len(v) >= 2 => v[Len(v) - 1].t # "stream"
    BY <1>7, <2>1 DEF Onward, Heads
  <2>4. QED BY <1>3, <1>6, <2>1, <2>2, <2>3 DEF Onward, Heads
<1>10. Reading(l)'
  <2> SUFFICES ASSUME rx[l].pc = "body"
               PROVE \E n \in 1..Last(l) :
                        /\ Files[l][n] = rx[l].path
                        /\ n \in Good(l) =>
                             /\ rx[l].k + rx[l].left = SizeOf(l, n)
                             /\ rx[l].left > 0 => Expects(v, tx'[l], up'[l], l, n, rx[l].k)
    BY <1>1, <1>5, <1>6 DEF Reading, Chunk
  <2>1. PICK n \in 1..Last(l) :
            /\ Files[l][n] = rx[l].path
            /\ n \in Good(l) =>
                 /\ rx[l].k + rx[l].left = SizeOf(l, n)
                 /\ rx[l].left > 0 => Expects(w, tx[l], up[l], l, n, rx[l].k)
    BY <1>5 DEF LinkInv, Reading
  <2>2. ASSUME n \in Good(l), Expects(w, tx[l], up[l], l, n, rx[l].k)
        PROVE  Expects(v, tx'[l], up'[l], l, n, rx[l].k)
    <3>1. v # <<>>
      BY <1>5, EmptySeq
    <3>2. v[1] = ByteOf(l, n, rx[l].k + 1)
      <4>1. CASE w = <<>>
        <5>1. v[1] = b
          BY <1>5, <4>1, EmptySeq
        <5>2. tx[l].n = n /\ tx[l].k = rx[l].k
          BY <1>1, <2>2, <4>1 DEF Expects
        <5>3. QED BY <1>3, <2>2, <5>1, <5>2
      <4>2. CASE w # <<>>
        <5>1. v[1] = w[1]
          BY <1>5, <4>2, EmptySeq
        <5>2. QED BY <2>2, <4>2, <5>1 DEF Expects
      <4>3. QED BY <4>1, <4>2
    <3>3. QED BY <3>1, <3>2 DEF Expects
  <2>3. QED BY <2>1, <2>2
<1>11. QED BY <1>5, <1>6, <1>8, <1>9, <1>10 DEF LinkInv

\* A lost connection ends early, and nothing comes after.
LEMMA LinkCut ==
  ASSUME Types, NEW l \in Link, LinkInv(l), Cut(l)
  PROVE  LinkInv(l)'
<1>1. PICK n \in 0..Len(wire[l]) : wire' = [wire EXCEPT ![l] = SubSeq(@, 1, n)]
  BY DEF Cut
<1>2. /\ wire[l] \in Seq(Unit) /\ wire'[l] = SubSeq(wire[l], 1, n) /\ ~up'[l] /\ rx' = rx
      /\ Good(l)' = Good(l) /\ Last(l)' = Last(l)
  BY <1>1, LinkTypes DEF Cut, Types, TypeInv, Good, Last
<1>3. PICK w \in Seq(Unit), v \in Seq(Unit) :
            /\ w = wire[l] /\ v = wire'[l] /\ Len(v) = n
            /\ \A j \in 1..Len(v) : v[j] = w[j]
  <2>1. /\ wire'[l] \in Seq(Unit) /\ Len(wire'[l]) = n
        /\ \A j \in 1..n : wire'[l][j] = wire[l][j]
    BY <1>2, Kept
  <2>2. QED BY <1>2, <2>1
<1>4. Chain(Good(l), l, v)
  <2>1. PICK G : G = Good(l)
    OBVIOUS
  <2>2. Chain(G, l, w) /\ Len(v) \in 0..Len(w)
    BY <1>3, <2>1 DEF LinkInv
  <2>3. QED BY <1>3, <2>1, <2>2, ChainPrefix
<1>5. \A m, k \in Nat : Expects(w, tx[l], up[l], l, m, k) => Expects(v, tx'[l], up'[l], l, m, k)
  <2> SUFFICES ASSUME NEW m \in Nat, NEW k \in Nat, v # <<>>, Expects(w, tx[l], up[l], l, m, k)
               PROVE  v[1] = ByteOf(l, m, k + 1)
    BY <1>2 DEF Expects
  <2>1. Len(v) \in Nat /\ Len(v) > 0 /\ Len(w) \in Nat
    BY LenProperties, EmptySeq
  <2>2. w # <<>> /\ v[1] = w[1]
    BY <1>3, <2>1, EmptySeq
  <2>3. QED BY <2>2 DEF Expects
<1>6. Reading(l)'
  <2>1. rx[l].k \in Nat /\ \A m \in 1..Last(l) : m \in Nat
    BY LinkTypes, SizeAssumption DEF Rx
  <2>2. QED BY <1>2, <1>3, <1>5, <2>1 DEF Reading, LinkInv
<1>7. QED BY <1>2, <1>3, <1>4, <1>6 DEF LinkInv

\* Something is read: the rest of the connection keeps its form.
LEMMA LinkRead ==
  ASSUME Types, NEW l \in Link, NEW n \in 1..Len(wire[l]), LinkInv(l), Consume(l, n),
         UNCHANGED <<tx, up, changed>>, Reading(l)'
  PROVE  LinkInv(l)'
<1>1. Good(l)' = Good(l) /\ wire[l] \in Seq(Unit) /\ Len(wire[l]) \in Nat
  BY LinkTypes DEF Good, Last
<1>2. PICK m \in 0..Len(wire[l]) : m = n
  BY <1>1
<1>3. /\ wire'[l] \in Seq(Unit) /\ Len(wire'[l]) = Len(wire[l]) - m
      /\ \A j \in 1..Len(wire'[l]) : wire'[l][j] = wire[l][m + j]
  BY <1>2, ConsumeTypes DEF Types, TypeInv
<1>4. PICK w \in Seq(Unit), v \in Seq(Unit) :
            /\ w = wire[l] /\ v = wire'[l] /\ Len(w) \in Nat /\ Len(v) = Len(w) - m
            /\ \A j \in 1..Len(v) : v[j] = w[m + j]
  BY <1>1, <1>3
<1>5. m \in 0..Len(w)
  BY <1>2, <1>4
<1>6. Chain(Good(l), l, v)
  <2>1. PICK G : G = Good(l)
    OBVIOUS
  <2>2. /\ Chain(G, l, w) /\ m \in 0..Len(w) /\ Len(v) = Len(w) - m
        /\ \A j \in 1..Len(v) : v[j] = w[m + j]
    BY <1>4, <1>5, <2>1 DEF LinkInv
  <2>3. Chain(G, l, v)
    BY <2>2, ChainShift
  <2>4. QED BY <2>1, <2>3
<1>7. up'[l] => Onward(Good(l), l, v, tx'[l])
  <2> SUFFICES ASSUME up[l] PROVE Onward(Good(l), l, v, tx[l])
    OBVIOUS
  <2>1. Onward(Good(l), l, w, tx[l]) /\ Len(v) \in Nat
    BY <1>4 DEF LinkInv
  <2>2. v # <<>> => w # <<>> /\ v[Len(v)] = w[Len(w)]
    <3> SUFFICES ASSUME v # <<>> PROVE w # <<>> /\ v[Len(v)] = w[Len(w)]
      OBVIOUS
    <3>1. Len(v) > 0
      BY <2>1, EmptySeq
    <3>2. Len(v) \in 1..Len(v) /\ m + Len(v) = Len(w) /\ Len(w) > 0
      BY <1>4, <1>5, <2>1, <3>1
    <3>3. v[Len(v)] = w[m + Len(v)]
      BY <1>4, <3>2
    <3>4. QED BY <3>2, <3>3, EmptySeq
  <2>3. Len(v) >= 2 => Len(w) >= 2 /\ v[Len(v) - 1] = w[Len(w) - 1]
    <3> SUFFICES ASSUME Len(v) >= 2 PROVE Len(w) >= 2 /\ v[Len(v) - 1] = w[Len(w) - 1]
      OBVIOUS
    <3>1. Len(v) - 1 \in 1..Len(v) /\ m + (Len(v) - 1) = Len(w) - 1 /\ Len(w) >= 2
      BY <1>4, <1>5, <2>1
    <3>2. v[Len(v) - 1] = w[m + (Len(v) - 1)]
      BY <1>4, <3>1
    <3>3. QED BY <3>1, <3>2
  <2>4. ASSUME NEW j \in 1..Len(v), IsFile(v[j]) PROVE v[j].n < Todo(tx[l])
    <3>1. m + j \in 1..Len(w) /\ v[j] = w[m + j]
      BY <1>4, <1>5, <2>1
    <3>2. QED BY <2>1, <2>4, <3>1 DEF Onward
  <2>5. QED BY <2>1, <2>2, <2>3, <2>4 DEF Onward
<1>8. QED BY <1>1, <1>4, <1>6, <1>7 DEF LinkInv

\* The whole of a file in a message, the header of a stream, or nothing.
LEMMA LinkAnnounce ==
  ASSUME Types, Types', NEW l \in Link, LinkInv(l), SourceInv(l), Announce(l)
  PROVE  LinkInv(l)'
<1>1. /\ tx[l].n <= Last(l) /\ tx[l] \in Tx /\ tx[l].pc = "next" /\ up[l] /\ up' = up
      /\ UNCHANGED <<rx, changed>> /\ Now(l) \in Src /\ tx[l].n \in Nat
  BY LinkTypes, NowTypes DEF Announce, Tx
<1>2. Good(l)' = Good(l)
  BY <1>1 DEF Good, Last
<1>3. CASE Sent(l) /\ wire' = wire
  <2>1. tx'[l].pc = "next" /\ tx'[l].n = tx[l].n + 1
    BY <1>3, SentTypes
  <2>2. Todo(tx'[l]) >= Todo(tx[l])
    BY <1>1, <2>1 DEF Todo
  <2>3. QED BY <1>1, <1>2, <1>3, <2>2, LinkMove
<1>4. ASSUME NEW t \in {"data", "stream"},
             wire' = [wire EXCEPT ![l] = @ \o Message(l, t, tx[l].n, Now(l))],
             \/ t = "data" /\ Sent(l)
             \/ /\ t = "stream"
                /\ tx' = [tx EXCEPT ![l].pc = "open", ![l].size = Now(l).size, ![l].k = 0]
      PROVE  LinkInv(l)'
  <2>1. PICK a \in Unit, b \in Unit :
            /\ Message(l, t, tx[l].n, Now(l)) = <<a, b>>
            /\ a.t = t /\ b.t = "rest" /\ a.n = tx[l].n /\ a.by = l
            /\ a.size = Now(l).size /\ a.edit = Now(l).edit
    <3>1. /\ Message(l, t, tx[l].n, Now(l)) = <<Message(l, t, tx[l].n, Now(l))[1], Rest(l)>>
          /\ Message(l, t, tx[l].n, Now(l))[1] \in Unit /\ Rest(l) \in Unit
      BY <1>1, NowTypes
    <3>2. PICK a : a = [t |-> t, by |-> l, n |-> tx[l].n, edit |-> Now(l).edit,
                        size |-> Now(l).size, k |-> 0]
      OBVIOUS
    <3>3. Message(l, t, tx[l].n, Now(l))[1] = a /\ Rest(l).t = "rest"
      BY <3>2 DEF Message, Rest
    <3>4. /\ a.t = t /\ a.n = tx[l].n /\ a.by = l
          /\ a.size = Now(l).size /\ a.edit = Now(l).edit
      BY <3>2
    <3>5. QED BY <3>1, <3>3, <3>4
  <2>2. /\ Todo(tx'[l]) = tx[l].n + 1
        /\ a.t = "stream" => tx'[l].pc = "open" /\ tx'[l].n = a.n /\ tx'[l].k = 0
    <3>1. CASE t = "data" /\ Sent(l)
      BY <2>1, <3>1, SentTypes DEF Todo
    <3>2. CASE t = "stream" /\ tx' = [tx EXCEPT ![l].pc = "open", ![l].size = Now(l).size, ![l].k = 0]
      <4>1. PICK s \in 0..MaxSize : s = Now(l).size
        BY <1>1 DEF Src
      <4>2. tx' = [tx EXCEPT ![l].pc = "open", ![l].size = s, ![l].k = 0]
        BY <3>2, <4>1
      <4>3. tx'[l].pc = "open" /\ tx'[l].n = tx[l].n /\ tx'[l].k = 0
        BY <4>2, OpenTypes
      <4>4. QED BY <2>1, <4>3 DEF Todo
    <3>3. QED BY <1>4, <3>1, <3>2
  <2>3. a.n \in Good(l) => a.size = SizeOf(l, a.n) /\ a.edit = 0
    BY <2>1, GoodNow
  <2>4. a.t \in Heads /\ wire' = [wire EXCEPT ![l] = @ \o <<a, b>>]
    BY <1>4, <2>1 DEF Heads
  <2>5. QED BY <1>1, <2>1, <2>2, <2>3, <2>4, LinkWrite
<1>5. QED BY <1>3, <1>4 DEF Announce

\* The file is opened, or has gone: the sender goes on with the next file, and
\* what it announced is no longer a good one.
LEMMA LinkOpen ==
  ASSUME Types, Types', NEW l \in Link, LinkInv(l), Open(l)
  PROVE  LinkInv(l)'
<1>1. /\ UNCHANGED <<rx, wire>> /\ up[l] /\ changed \subseteq changed'
      /\ tx[l] \in Tx /\ tx[l].pc = "open"
  BY LinkTypes DEF Open
<1>2. Good(l)' \subseteq Good(l)
  BY <1>1, GoodShrinks
<1>3. CASE Now(l).there
  <2>1. tx' = [tx EXCEPT ![l].pc = "send"]
    BY <1>3 DEF Open
  <2>2. tx'[l].pc = "send" /\ tx'[l].n = tx[l].n /\ tx'[l].k = tx[l].k
    BY <1>1, <2>1 DEF Types, TypeInv, Tx
  <2>3. Todo(tx'[l]) >= Todo(tx[l])
    BY <1>1, <2>2 DEF Todo, Tx
  <2>4. QED BY <1>1, <1>2, <2>2, <2>3, LinkMove
<1>4. CASE ~Now(l).there /\ l \in Pull
  <2>1. tx'[l].pc = "next" /\ tx'[l].n = tx[l].n + 1
    BY <1>4, SentTypes DEF Open
  <2>2. Todo(tx'[l]) >= Todo(tx[l])
    BY <1>1, <2>1 DEF Todo, Tx
  <2>3. tx[l].n \notin Good(l)'
    BY <1>1, <1>4 DEF Open, Good
  <2>4. QED BY <1>1, <1>2, <2>2, <2>3, LinkMove
<1>5. CASE ~Now(l).there /\ l \notin Pull
  <2>1. ~up'[l]
    BY <1>5 DEF Open, Types, TypeInv
  <2>2. QED BY <1>1, <1>2, <2>1, LinkKept
<1>6. QED BY <1>3, <1>4, <1>5

\* A byte, or the end of the file: a good one has been sent to its end.
LEMMA LinkChunk ==
  ASSUME Types, Types', NEW l \in Link, LinkInv(l), SourceInv(l), Chunk(l)
  PROVE  LinkInv(l)'
<1>1. /\ UNCHANGED <<rx, changed, up>> /\ tx[l] \in Tx /\ tx[l].pc = "send"
  BY LinkTypes DEF Chunk
<1>2. CASE ~(tx[l].k < Now(l).size)
  <2>1. Sent(l) /\ wire' = wire
    BY <1>2 DEF Chunk
  <2>2. tx'[l].pc = "next" /\ tx'[l].n = tx[l].n + 1
    BY <2>1, SentTypes
  <2>3. Todo(tx'[l]) >= Todo(tx[l])
    BY <1>1, <2>2 DEF Todo, Tx
  <2>4. Good(l)' = Good(l)
    BY <1>1 DEF Good, Last
  <2>5. ~(tx[l].n \in Good(l)' /\ tx[l].k < SizeOf(l, tx[l].n))
    BY <1>2, <2>4, GoodNow
  <2>6. QED BY <1>1, <2>1, <2>3, <2>4, <2>5, LinkMove
<1>3. QED BY <1>2, LinkByte

\* The sender ends its session when nothing is missing.
LEMMA LinkClose ==
  ASSUME Types, NEW l \in Link, LinkInv(l), Close(l)
  PROVE  LinkInv(l)'
<1>1. /\ up[l] /\ ~up'[l] /\ tx[l].pc = "next" /\ UNCHANGED <<rx, changed>>
      /\ Good(l)' = Good(l)
  BY DEF Close, Types, TypeInv, Good, Last
<1>2. CASE wire' = wire
  BY <1>1, <1>2, LinkKept
<1>3. CASE wire' = [wire EXCEPT ![l] = @ \o Message(l, "ack", 0, [edit |-> 0, size |-> 0])]
  <2>1. PICK a \in Unit, b \in Unit :
            /\ Message(l, "ack", 0, [edit |-> 0, size |-> 0]) = <<a, b>>
            /\ a.t = "ack" /\ b.t = "rest"
    <3>1. [t |-> "ack", by |-> l, n |-> 0, edit |-> 0, size |-> 0, k |-> 0] \in Unit
          /\ Rest(l) \in Unit
      BY SizeAssumption DEF Unit, Rest
    <3>2. QED BY <3>1 DEF Message, Rest
  <2>2. wire' = [wire EXCEPT ![l] = @ \o <<a, b>>] /\ a.t \in Heads /\ ~IsFile(a)
    BY <1>3, <2>1 DEF Heads, IsFile
  <2>3. QED BY <1>1, <2>1, <2>2, LinkWrite
<1>4. QED BY <1>2, <1>3 DEF Close

\* The first of the stream is what follows its header.
LEMMA LinkReadStream ==
  ASSUME Types, NEW l \in Link, LinkInv(l), ReadStream(l)
  PROVE  LinkInv(l)'
<1>1. /\ UNCHANGED <<tx, up, changed>> /\ Consume(l, 2) /\ IsMessage(l)
      /\ wire[l][1].t = "stream"
  BY DEF ReadStream, sending
<1>2. /\ 2 \in 1..Len(wire[l]) /\ wire[l][1] \in Unit /\ wire[l][1].n \in 1..Last(l)
      /\ Len(wire[l]) \in Nat
  BY <1>1, FrontTypes, LinkTypes DEF IsFile
<1>3. /\ Len(wire'[l]) = Len(wire[l]) - 2
      /\ \A j \in 1..Len(wire'[l]) : wire'[l][j] = wire[l][2 + j]
      /\ wire'[l] \in Seq(Unit)
  <2>1. 2 \in 0..Len(wire[l])
    BY <1>2
  <2>2. QED BY <1>1, <2>1, ConsumeTypes
<1>0. PICK G : G = Good(l)
  OBVIOUS
<1>4. PICK w \in Seq(Unit), v \in Seq(Unit), n \in 1..Last(l) :
            /\ w = wire[l] /\ v = wire'[l] /\ n = wire[l][1].n /\ G = Good(l)
            /\ Len(w) \in Nat /\ Len(w) >= 2 /\ Len(v) = Len(w) - 2
            /\ \A j \in 1..Len(v) : v[j] = w[2 + j]
            /\ w[1].t = "stream" /\ w[1].n = n
  <2>1. wire[l] \in Seq(Unit) /\ Len(wire[l]) >= 2
    BY <1>2, LinkTypes
  <2>2. PICK n \in 1..Last(l) : n = wire[l][1].n
    BY <1>2
  <2>3. PICK w \in Seq(Unit), v \in Seq(Unit) : w = wire[l] /\ v = wire'[l]
    BY <1>3, <2>1
  <2>4. /\ Len(w) \in Nat /\ Len(w) >= 2 /\ Len(v) = Len(w) - 2
        /\ \A j \in 1..Len(v) : v[j] = w[2 + j]
        /\ w[1].t = "stream" /\ w[1].n = n
    BY <1>1, <1>2, <1>3, <2>1, <2>2, <2>3
  <2>5. QED BY <1>0, <2>2, <2>3, <2>4
<1>5. Chain(G, l, w) /\ (up[l] => Onward(G, l, w, tx[l]))
  BY <1>4 DEF LinkInv
<1>6. 1 \in 1..Len(w) /\ Joint(G, l, w, 1)
  BY <1>4, <1>5, ChainParts
<1>7. n \in G => w[1].size = SizeOf(l, n)
  BY <1>4, <1>6 DEF Joint, IsFile
<1>8. ASSUME n \in G PROVE Expects(v, tx[l], up[l], l, n, 0)
  <2>1. CASE v # <<>>
    <3>1. Len(v) > 0
      BY <2>1, EmptySeq, LenProperties
    <3>2. 1 \in 1..Len(v) /\ 1 + 1 < Len(w)
      BY <1>4, <3>1
    <3>3. v[1] = w[2 + 1]
      BY <1>4, <3>2
    <3>4. w[1 + 2] = ByteOf(l, n, 1)
      BY <1>4, <1>6, <1>8, <3>2 DEF Joint
    <3>5. QED BY <2>1, <3>3, <3>4 DEF Expects
  <2>2. CASE v = <<>>
    <3>1. Len(w) = 2 /\ w[Len(w) - 1] = w[1]
      BY <1>4, <2>2, EmptySeq
    <3>2. up[l] => tx[l].pc \in {"open", "send"} /\ tx[l].n = n /\ tx[l].k = 0
      BY <1>4, <1>5, <1>8, <3>1 DEF Onward
    <3>3. QED BY <2>2, <3>2 DEF Expects
  <2>3. QED BY <2>1, <2>2
<1>9. /\ rx'[l].pc = "body" /\ rx'[l].path = Files[l][n] /\ rx'[l].left = w[1].size
      /\ rx'[l].k = 0
  <2>1. PICK p \in Path, i \in Id, s \in 0..MaxSize :
            /\ p = Named(l) /\ p = Files[l][wire[l][1].n] /\ s = wire[l][1].size
            /\ i = IF tmp[p] = None THEN <<l, p>> ELSE tmp[p]
            /\ tmp' = [tmp EXCEPT ![p] = i] /\ inode' = [inode EXCEPT ![i] = <<>>]
            /\ file' = file
            /\ rx' \in [Link -> Rx] /\ \A m \in Link : m # l => rx'[m] = rx[m]
            /\ rx'[l] = [pc |-> "body", path |-> p, at |-> i, left |-> s, k |-> 0]
            /\ i # None
    BY StreamTypes
  <2>2. rx'[l] = [pc |-> "body", path |-> p, at |-> i, left |-> s, k |-> 0]
    BY <2>1
  <2>3. rx'[l].pc = "body" /\ rx'[l].path = p /\ rx'[l].left = s /\ rx'[l].k = 0
    BY <2>2
  <2>4. p = Files[l][n] /\ s = w[1].size
    BY <1>4, <2>1
  <2>5. QED BY <2>3, <2>4
<1>10. Reading(l)'
  <2>1. /\ Files[l][n] = rx'[l].path
        /\ n \in Good(l)' =>
             /\ rx'[l].k + rx'[l].left = SizeOf(l, n)
             /\ rx'[l].left > 0 => Expects(wire'[l], tx'[l], up'[l], l, n, rx'[l].k)
    <3>1. Good(l)' = G
      BY <1>1, <1>4 DEF Good, Last
    <3>2. n \in G => 0 + w[1].size = SizeOf(l, n)
      BY <1>7, LinkTypes
    <3>3. n \in G => Expects(wire'[l], tx'[l], up'[l], l, n, rx'[l].k)
      BY <1>1, <1>4, <1>8, <1>9
    <3>4. QED BY <1>1, <1>9, <3>1, <3>2, <3>3
  <2>2. n \in 1..Last(l)'
    BY <1>1 DEF Last
  <2>3. QED BY <2>1, <2>2 DEF Reading
<1>11. QED BY <1>1, <1>2, <1>10, LinkRead

\* The byte after the one that is read comes next.
LEMMA LinkBody ==
  ASSUME Types, NEW l \in Link, LinkInv(l), Body(l)
  PROVE  LinkInv(l)'
<1>1. /\ UNCHANGED <<tx, up, changed>> /\ Consume(l, 1) /\ wire[l] # <<>>
      /\ rx[l].pc = "body" /\ rx[l].left > 0 /\ rx[l] \in Rx
      /\ 1 \in 1..Len(wire[l]) /\ 1 \in 0..Len(wire[l])
  BY LinkTypes DEF Body, sending
<1>2. /\ wire'[l] \in Seq(Unit) /\ Len(wire'[l]) = Len(wire[l]) - 1
      /\ \A j \in 1..Len(wire'[l]) : wire'[l][j] = wire[l][1 + j]
  BY <1>1, ConsumeTypes
<1>3. PICK n \in 1..Last(l) :
            /\ Files[l][n] = rx[l].path
            /\ n \in Good(l) =>
                 /\ rx[l].k + rx[l].left = SizeOf(l, n)
                 /\ rx[l].left > 0 => Expects(wire[l], tx[l], up[l], l, n, rx[l].k)
  BY <1>1 DEF LinkInv, Reading
<1>0. PICK G : G = Good(l)
  OBVIOUS
<1>4. PICK w \in Seq(Unit), v \in Seq(Unit), k \in Nat :
            /\ w = wire[l] /\ v = wire'[l] /\ k = rx[l].k /\ G = Good(l)
            /\ Len(w) \in Nat /\ Len(w) >= 1 /\ Len(v) = Len(w) - 1
            /\ \A j \in 1..Len(v) : v[j] = w[1 + j]
  <2>1. wire[l] \in Seq(Unit) /\ Len(wire[l]) \in Nat /\ Len(wire[l]) >= 1
    BY <1>1, LinkTypes
  <2>2. PICK k \in Nat : k = rx[l].k
    BY <1>1, SizeAssumption DEF Rx
  <2>3. PICK w \in Seq(Unit), v \in Seq(Unit) : w = wire[l] /\ v = wire'[l]
    BY <1>2, <2>1
  <2>4. /\ Len(w) \in Nat /\ Len(w) >= 1 /\ Len(v) = Len(w) - 1
        /\ \A j \in 1..Len(v) : v[j] = w[1 + j]
    BY <1>2, <2>1, <2>3
  <2>5. QED BY <1>0, <2>2, <2>3, <2>4
<1>5. Chain(G, l, w) /\ (up[l] => Onward(G, l, w, tx[l]))
  BY <1>4 DEF LinkInv
<1>6. 1 \in 1..Len(w) /\ Joint(G, l, w, 1)
  BY <1>4, <1>5, ChainParts
<1>7. ASSUME n \in G, k + 1 < SizeOf(l, n) PROVE Expects(v, tx[l], up[l], l, n, k + 1)
  <2>1. w[1] = ByteOf(l, n, k + 1)
    BY <1>1, <1>3, <1>4, <1>7 DEF Expects
  <2>2. w[1].t = "byte" /\ w[1].n = n /\ w[1].k = k + 1
    BY <2>1 DEF ByteOf
  <2>3. CASE v # <<>>
    <3>1. Len(v) > 0
      BY <2>3, EmptySeq, LenProperties
    <3>2. 1 \in 1..Len(v) /\ 1 < Len(w)
      BY <1>4, <3>1
    <3>3. v[1] = w[1 + 1]
      BY <1>4, <3>2
    <3>4. w[1 + 1] = ByteOf(l, n, (k + 1) + 1)
      BY <1>6, <1>7, <2>2, <3>2 DEF Joint
    <3>5. QED BY <2>3, <3>3, <3>4 DEF Expects
  <2>4. CASE v = <<>>
    <3>1. Len(w) = 1 /\ w # <<>>
      BY <1>4, <2>4, EmptySeq
    <3>2. up[l] => tx[l].pc = "send" /\ tx[l].n = n /\ tx[l].k = k + 1
      BY <1>4, <1>5, <1>7, <2>2, <3>1 DEF Onward
    <3>3. QED BY <2>4, <3>2 DEF Expects
  <2>5. QED BY <2>3, <2>4
<1>8. /\ rx'[l].pc = "body" /\ rx'[l].path = rx[l].path /\ rx'[l].left = rx[l].left - 1
      /\ rx'[l].k = k + 1
  BY <1>1, <1>4, CountTypes DEF Body
<1>9. Reading(l)'
  <2>1. Good(l)' = G /\ Last(l)' = Last(l)
    BY <1>1, <1>4 DEF Good, Last
  <2>2. ASSUME n \in G
        PROVE  /\ rx'[l].k + rx'[l].left = SizeOf(l, n)
               /\ rx'[l].left > 0 => Expects(wire'[l], tx'[l], up'[l], l, n, rx'[l].k)
    <3>1. rx[l].left \in Nat /\ k + rx[l].left = SizeOf(l, n)
      BY <1>1, <1>3, <1>4, <2>2, SizeAssumption DEF Rx
    <3>2. (k + 1) + (rx[l].left - 1) = SizeOf(l, n) /\ (rx[l].left - 1 > 0 => k + 1 < SizeOf(l, n))
      BY <3>1
    <3>3. rx'[l].left > 0 => Expects(v, tx[l], up[l], l, n, k + 1)
      BY <1>7, <1>8, <2>2, <3>2
    <3>4. tx'[l] = tx[l] /\ up'[l] = up[l]
      BY <1>1
    <3>5. QED BY <1>4, <1>8, <3>2, <3>3, <3>4
  <2>3. Files[l][n] = rx'[l].path
    BY <1>1, <1>3, <1>8
  <2>4. QED BY <2>1, <2>2, <2>3 DEF Reading
<1>10. QED BY <1>1, <1>9, LinkRead

\* A receiver takes from the beginning.
LEMMA LinkReceiver ==
  ASSUME Types, NEW l \in Link, LinkInv(l), Receiver(l)
  PROVE  LinkInv(l)'
<1>1. UNCHANGED <<tx, up, changed>> /\ Good(l)' = Good(l)
  BY DEF Receiver, Reply, Ask, ReadStream, RejectStream, ReadData, RejectData, ReadAck,
     ReadJunk, ReadEnd, Body, Write, Written, DiskFull, Drain, BodyEnds, Replace,
     ReplaceFails, Record, sending, Good, Last
<1>2. CASE ReadStream(l) \/ Body(l)
  BY <1>2, LinkReadStream, LinkBody
<1>3. CASE ~ReadStream(l) /\ ~Body(l)
  <2>1. rx'[l].pc # "body" \/ (Replace(l) /\ rx'[l].pc = "record")
    <3>1. CASE \E pc \in {"ask", "msg", "end"} : Go(l, pc)
      BY <3>1, GoTypes
    <3>2. CASE ReadData(l)
      BY <3>2, DataTypes
    <3>3. CASE RejectStream(l)
      <4>1. PICK s : s = wire[l][1].size
        OBVIOUS
      <4>2. PICK r : r = [rx[l] EXCEPT !.pc = "drain", !.left = s]
        OBVIOUS
      <4>3. rx' = [rx EXCEPT ![l] = r] /\ rx[l] \in Rx /\ rx \in [Link -> Rx]
        BY <3>3, <4>1, <4>2, LinkTypes, DiskTypes DEF RejectStream
      <4>4. rx'[l] = r /\ r.pc = "drain"
        BY <4>2, <4>3 DEF Rx
      <4>5. QED BY <4>4
    <3>4. CASE Drain(l) /\ rx[l].left # 1
      <4>1. rx[l].left > 0
        BY <3>4 DEF Drain, Types, PlaceInv
      <4>2. QED BY <3>4, <4>1, CountTypes DEF Drain
    <3>5. CASE Replace(l) /\ tmp[rx[l].path] # None
      BY <3>5, RenameTypes
    <3>6. CASE Write(l)
      BY <3>6, WriteTypes
    <3>7. CASE Written(l)
      BY <3>7, TypesWritten
    <3>8. QED BY <1>3, <3>1, <3>2, <3>3, <3>4, <3>5, <3>6, <3>7
          DEF Receiver, Reply, Ask, RejectData, ReadAck, ReadJunk, ReadEnd,
              DiskFull, Drain, BodyEnds, Replace, ReplaceFails, Record, Finish, Ready
  <2>2. rx'[l].pc # "body" /\ Reading(l)'
    BY <2>1 DEF Reading
  <2>3. CASE wire' = wire
    BY <1>1, <2>2, <2>3, LinkKept
  <2>4. CASE \E n \in 1..Len(wire[l]) : Consume(l, n)
    BY <1>1, <2>2, <2>4, LinkRead
  <2>5. wire' = wire \/ \E n \in 1..Len(wire[l]) : Consume(l, n)
    <3>1. CASE RejectStream(l) \/ ReadData(l) \/ RejectData(l) \/ ReadAck(l)
      <4>1. Consume(l, 2) /\ IsMessage(l)
        BY <3>1 DEF RejectStream, ReadData, RejectData, ReadAck
      <4>2. QED BY <4>1, FrontTypes
    <3>2. CASE Drain(l)
      <4>1. Consume(l, 1) /\ 1 \in 1..Len(wire[l])
        BY <3>2, LinkTypes DEF Drain
      <4>2. QED BY <4>1
    <3>3. CASE ReadJunk(l)
      BY <3>3 DEF ReadJunk
    <3>4. QED BY <1>3, <3>1, <3>2, <3>3
          DEF Receiver, Reply, Ask, ReadEnd, Write, Written, DiskFull, BodyEnds, Replace,
              ReplaceFails, Record
  <2>6. QED BY <2>3, <2>4, <2>5
<1>4. QED BY <1>2, <1>3

\* Every step keeps every connection in order.
LEMMA LinkStep ==
  ASSUME Types, Types', \A l \in Link : SourceInv(l) /\ LinkInv(l), [Next]_vars, NEW m \in Link
  PROVE  LinkInv(m)'
<1>1. Good(m)' \subseteq Good(m)
  BY Remembers, GoodShrinks
<1>2. CASE wire'[m] = wire[m] /\ up'[m] = up[m] /\ tx'[m] = tx[m] /\ rx'[m] = rx[m]
  BY <1>1, <1>2, LinkKept
<1>3. CASE UNCHANGED vars
  BY <1>2, <1>3 DEF vars, sending
<1>4. ASSUME NEW l \in Link, Sender(l) \/ Receiver(l) \/ Cut(l)
      PROVE  LinkInv(m)'
  <2>1. CASE m # l
    BY <1>2, <1>4, <2>1, Elsewhere DEF Same
  <2>2. CASE m = l
    BY <1>4, <2>2, LinkAnnounce, LinkOpen, LinkChunk, LinkClose, LinkReceiver, LinkCut DEF Sender
  <2>3. QED BY <2>1, <2>2
<1>5. ASSUME NEW l \in Link, NEW p \in Path, Edit(l, p) \/ Remove(l, p)
      PROVE  LinkInv(m)'
  BY <1>2, <1>5 DEF Edit, Remove
<1>6. CASE Crash
  BY <1>1, <1>6, CrashTypes, LinkKept
<1>7. QED BY <1>3, <1>4, <1>5, <1>6 DEF Next

\* Nothing is on its way at first.
LEMMA LinkInit == Init => \A l \in Link : SourceInv(l) /\ LinkInv(l)
<1> SUFFICES ASSUME Init, NEW l \in Link PROVE SourceInv(l) /\ LinkInv(l)
  OBVIOUS
<1>1. /\ wire[l] = <<>> /\ Len(wire[l]) = 0 /\ rx[l].pc # "body" /\ tx[l].pc = "next"
  BY DEF Init, Waiting, Ready
<1>2. SourceInv(l)
  <2>1. Types
    BY TypesInit
  <2>2. \A n \in Good(l) : Files[l][n] \in Path
    BY <2>1, LinkTypes DEF Good
  <2>3. QED BY <1>1, <2>2 DEF SourceInv, Init, SizeOf
<1>3. LinkInv(l)
  BY <1>1 DEF LinkInv, Chain, Onward, Reading
<1>4. QED BY <1>2, <1>3

-----------------------------------------------------------------------------
(* The receiver's disk                                                     *)

\* A name is one.
LEMMA NotNone ==
  ASSUME NEW l \in Link, NEW p \in Path
  PROVE  <<l, p>> \in Id /\ <<l, p>> # None /\ <<l, p>>[2] = p
BY DEF Id, None

\* What a step does to the names at the receiver.
LEMMA DiskMoves ==
  ASSUME Types, NEW l \in Link, NEW q \in Path, Sender(l) \/ Receiver(l) \/ Cut(l)
  PROVE  /\ \/ file'[q] = file[q] \/ file'[q] = tmp[q]
            \/ file'[q] = <<l, q>> /\ ReadData(l) /\ q = Named(l)
         /\ \/ tmp'[q] = tmp[q] \/ tmp'[q] = None
            \/ tmp'[q] = <<l, q>> /\ ReadStream(l) /\ q = Named(l)
<1>1. file \in [Path -> Id \cup {None}] /\ tmp \in [Path -> Id \cup {None}]
  BY DiskTypes
<1>2. CASE ReadStream(l)
  <2>1. PICK p \in Path, i \in Id, s \in 0..MaxSize :
            /\ p = Named(l) /\ p = Files[l][wire[l][1].n] /\ s = wire[l][1].size
            /\ i = IF tmp[p] = None THEN <<l, p>> ELSE tmp[p]
            /\ tmp' = [tmp EXCEPT ![p] = i] /\ inode' = [inode EXCEPT ![i] = <<>>]
            /\ file' = file
            /\ rx' \in [Link -> Rx] /\ \A m \in Link : m # l => rx'[m] = rx[m]
            /\ rx'[l] = [pc |-> "body", path |-> p, at |-> i, left |-> s, k |-> 0]
            /\ i # None
    BY <1>2, StreamTypes
  <2>2. /\ p = Named(l) /\ i = IF tmp[p] = None THEN <<l, p>> ELSE tmp[p]
        /\ tmp' = [tmp EXCEPT ![p] = i] /\ file' = file
    BY <2>1
  <2>3. CASE q = p
    BY <1>1, <1>2, <2>2, <2>3
  <2>4. CASE q # p
    BY <1>1, <2>2, <2>4
  <2>5. QED BY <2>3, <2>4
<1>3. CASE ReadData(l)
  <2>2. PICK p \in Path, i \in Id :
           /\ p = Named(l) /\ i = IF file[p] = None THEN <<l, p>> ELSE file[p]
           /\ file' = [file EXCEPT ![p] = i] /\ tmp' = tmp
    BY <1>3, DataTypes
  <2>3. CASE q = p
    BY <1>1, <1>3, <2>2, <2>3
  <2>4. CASE q # p
    BY <1>1, <2>2, <2>4
  <2>5. QED BY <2>3, <2>4
<1>4. CASE Replace(l) /\ tmp[rx[l].path] # None
  <2>1. PICK p \in Path : p = rx[l].path
    BY LinkTypes DEF Rx
  <2>2. file' = [file EXCEPT ![p] = tmp[p]] /\ tmp' = [tmp EXCEPT ![p] = None]
    BY <1>4, <2>1 DEF Replace
  <2>3. QED BY <1>1, <2>2
<1>5. CASE UNCHANGED <<file, tmp>>
  BY <1>5
<1>6. QED BY <1>2, <1>3, <1>4, <1>5
      DEF Sender, Receiver, Reply, Cut, Announce, Open, Chunk, Close, Ask, RejectStream,
          RejectData, ReadAck, ReadJunk, ReadEnd, Body, Write, Written, DiskFull, Drain,
          BodyEnds, Replace, ReplaceFails, Record, disk

\* A free name is taken by the read of that very file only.
LEMMA FreeKept ==
  ASSUME Types, NEW l \in Link, NEW m \in Link, NEW q \in Path,
         Sender(l) \/ Receiver(l) \/ Cut(l), Free(m, q),
         m = l /\ (ReadStream(l) \/ ReadData(l)) => q # Named(l)
  PROVE  Free(m, q)'
<1>1. <<m, q>> # None
  BY NotNone
<1>2. file[q] # <<m, q>> /\ tmp[q] # <<m, q>>
  BY DEF Free
<1>3. <<l, q>> = <<m, q>> => l = m
  OBVIOUS
<1>4. file'[q] # <<m, q>> /\ tmp'[q] # <<m, q>>
  BY <1>1, <1>2, <1>3, DiskMoves
<1>5. QED BY <1>4 DEF Free

\* Every announcement on its way was there before or is the sender's next, and
\* beyond the b files that a step may have created; so is what is still to do.
LEMMA FreshKept ==
  ASSUME Types, Types', NEW m \in Link, NEW b \in Nat, FreshInv(m),
         \A n \in 1..Last(m) : n > b /\ Free(m, Files[m][n]) => Free(m, Files[m][n])',
         \A j \in 1..Len(wire'[m]) : IsFile(wire'[m][j]) =>
            /\ wire'[m][j].n > b
            /\ \/ \E i \in 1..Len(wire[m]) : wire'[m][j] = wire[m][i]
               \/ up[m] /\ wire'[m][j].n >= Todo(tx[m]),
         up'[m] => up[m] /\ Todo(tx'[m]) >= Todo(tx[m]) /\ Todo(tx[m]) > b
  PROVE  FreshInv(m)'
<1>1. Last(m)' = Last(m)
  BY DEF Last
<1>2. ASSUME NEW j \in 1..Len(wire'[m]), IsFile(wire'[m][j])
      PROVE  Free(m, Files[m][wire[m][j].n])'
  <2>1. PICK n : n = wire'[m][j].n
    OBVIOUS
  <2>2. n \in 1..Last(m) /\ n > b
    <3>1. PlaceInv(m)'
      BY DEF Types
    <3>2. Fits(m, wire[m][j])'
      BY <3>1 DEF PlaceInv
    <3>3. n \in 1..Last(m)'
      BY <1>2, <2>1, <3>2 DEF Fits, IsFile
    <3>4. QED BY <1>1, <1>2, <2>1, <3>3
  <2>3. Free(m, Files[m][n])
    <3>1. CASE \E i \in 1..Len(wire[m]) : wire'[m][j] = wire[m][i]
      BY <1>2, <2>1, <3>1 DEF FreshInv
    <3>2. CASE up[m] /\ wire'[m][j].n >= Todo(tx[m])
      BY <2>1, <2>2, <3>2 DEF FreshInv
    <3>3. QED BY <1>2, <3>1, <3>2
  <2>4. Free(m, Files[m][n])'
    BY <2>2, <2>3
  <2>5. QED BY <2>1, <2>4
<1>3. ASSUME up'[m], NEW n \in 1..Last(m), n >= Todo(tx'[m]) PROVE Free(m, Files[m][n])'
  <2>1. Todo(tx[m]) \in Nat /\ Todo(tx'[m]) \in Nat /\ n \in Nat
    <3>1. tx[m] \in Tx /\ tx'[m] \in Tx
      BY DEF Types, TypeInv
    <3>2. QED BY <3>1 DEF Todo, Tx
  <2>2. n >= Todo(tx[m]) /\ n > b
    BY <1>3, <2>1
  <2>3. Free(m, Files[m][n])
    BY <1>3, <2>2 DEF FreshInv
  <2>4. QED BY <2>2, <2>3
<1>4. /\ (\A j \in 1..Len(wire[m]) : IsFile(wire[m][j]) => Free(m, Files[m][wire[m][j].n]))'
      /\ (up[m] => \A n \in 1..Last(m) : n >= Todo(tx[m]) => Free(m, Files[m][n]))'
  BY <1>1, <1>2, <1>3
<1>5. QED BY <1>4 DEF FreshInv

\* A step of the sender, or the loss of its connection, adds at most the
\* announcement of the next file.
LEMMA FreshSender ==
  ASSUME Types, Types', NEW l \in Link, FreshInv(l), Sender(l) \/ Cut(l)
  PROVE  FreshInv(l)'
<1>1. /\ tx[l] \in Tx /\ tx[l].n \in Nat /\ up[l] /\ wire[l] \in Seq(Unit)
      /\ Len(wire[l]) \in Nat /\ Todo(tx[l]) > 0
      /\ tx[l].n > 0
  <2>1. tx[l] \in Tx /\ tx[l].n \in 1..(Last(l) + 1)
    BY LinkTypes DEF Types, PlaceInv
  <2>2. tx[l].n \in Nat /\ tx[l].n > 0 /\ Todo(tx[l]) > 0
    BY <2>1, LinkTypes DEF Todo
  <2>3. QED BY <2>1, <2>2, LinkTypes DEF Sender, Announce, Open, Chunk, Close, Cut
<1>2. \A n \in 1..Last(l) : n > 0 /\ Free(l, Files[l][n]) => Free(l, Files[l][n])'
  <2>1. UNCHANGED <<file, tmp>>
    BY DEF Sender, Announce, Open, Chunk, Close, Cut, disk
  <2>2. QED BY <2>1 DEF Free
<1>3. up'[l] => Todo(tx'[l]) >= Todo(tx[l])
  <2>1. CASE Sent(l)
    BY <1>1, <2>1, SentTypes DEF Todo
  <2>2. CASE Announce(l) /\ ~Sent(l)
    <3>1. PICK s \in 0..MaxSize : s = Now(l).size
      BY <2>2, NowTypes DEF Announce, Src
    <3>2. tx' = [tx EXCEPT ![l].pc = "open", ![l].size = s, ![l].k = 0] /\ tx[l].pc = "next"
      BY <2>2, <3>1 DEF Announce
    <3>3. tx'[l].pc = "open" /\ tx'[l].n = tx[l].n
      BY <3>2, OpenTypes
    <3>4. QED BY <1>1, <3>2, <3>3 DEF Todo
  <2>3. CASE Open(l) /\ ~Sent(l)
    <3>1. \/ tx' = [tx EXCEPT ![l].pc = "send"] /\ tx[l].pc = "open"
          \/ ~up'[l]
      BY <2>3 DEF Open, Types, TypeInv
    <3>2. CASE tx' = [tx EXCEPT ![l].pc = "send"] /\ tx[l].pc = "open"
      <4>1. tx'[l].pc = "send" /\ tx'[l].n = tx[l].n
        BY <1>1, <3>2 DEF Types, TypeInv, Tx
      <4>2. QED BY <1>1, <3>2, <4>1 DEF Todo
    <3>3. QED BY <3>1, <3>2
  <2>4. CASE Chunk(l) /\ ~Sent(l)
    <3>1. tx' = [tx EXCEPT ![l].k = @ + 1] /\ tx[l].pc = "send"
      BY <2>4 DEF Chunk
    <3>2. tx'[l].pc = "send" /\ tx'[l].n = tx[l].n
      BY <1>1, <3>1 DEF Types, TypeInv, Tx
    <3>3. QED BY <1>1, <3>1, <3>2 DEF Todo
  <2>5. CASE Close(l) \/ Cut(l)
    BY <2>5 DEF Close, Cut, Types, TypeInv
  <2>6. QED BY <2>1, <2>2, <2>3, <2>4, <2>5 DEF Sender
<1>4. \A j \in 1..Len(wire'[l]) : IsFile(wire'[l][j]) =>
            \/ \E i \in 1..Len(wire[l]) : wire'[l][j] = wire[l][i]
            \/ up[l] /\ wire'[l][j].n >= Todo(tx[l])
  <2>1. CASE wire' = wire
    BY <2>1
  <2>2. ASSUME NEW a \in Unit, NEW b \in Unit, b.t = "rest", wire' = [wire EXCEPT ![l] = @ \o <<a, b>>],
               IsFile(a) => a.n >= Todo(tx[l])
        PROVE  \A j \in 1..Len(wire'[l]) : IsFile(wire'[l][j]) =>
                  \/ \E i \in 1..Len(wire[l]) : wire'[l][j] = wire[l][i]
                  \/ up[l] /\ wire'[l][j].n >= Todo(tx[l])
    <3>1. wire'[l] = wire[l] \o <<a, b>>
      BY <2>2 DEF Types, TypeInv
    <3>2. /\ Len(wire'[l]) = Len(wire[l]) + 2
          /\ \A j \in 1..Len(wire[l]) : wire'[l][j] = wire[l][j]
          /\ wire'[l][Len(wire[l]) + 1] = a /\ wire'[l][Len(wire[l]) + 2] = b
      BY <1>1, <3>1, TwoMore
    <3>3. \A j \in 1..Len(wire'[l]) : j \in 1..Len(wire[l]) \/ j = Len(wire[l]) + 1 \/ j = Len(wire[l]) + 2
      BY <1>1, <3>2
    <3>4. QED BY <1>1, <2>2, <3>2, <3>3 DEF IsFile
  <2>3. ASSUME NEW t \in {"data", "stream"}, Announce(l),
               wire' = [wire EXCEPT ![l] = @ \o Message(l, t, tx[l].n, Now(l))]
        PROVE  \A j \in 1..Len(wire'[l]) : IsFile(wire'[l][j]) =>
                  \/ \E i \in 1..Len(wire[l]) : wire'[l][j] = wire[l][i]
                  \/ up[l] /\ wire'[l][j].n >= Todo(tx[l])
    <3>1. PICK a : a = [t |-> t, by |-> l, n |-> tx[l].n, edit |-> Now(l).edit,
                        size |-> Now(l).size, k |-> 0]
      OBVIOUS
    <3>2. Message(l, t, tx[l].n, Now(l)) = <<a, Rest(l)>> /\ a.n = tx[l].n
          /\ Message(l, t, tx[l].n, Now(l))[1] = a
      BY <3>1 DEF Message
    <3>3. a \in Unit /\ Rest(l) \in Unit /\ tx[l].pc = "next" /\ Rest(l).t = "rest"
      BY <2>3, <3>2, NowTypes DEF Announce, Rest
    <3>4. a.n >= Todo(tx[l])
      BY <1>1, <3>2, <3>3 DEF Todo
    <3>5. wire' = [wire EXCEPT ![l] = @ \o <<a, Rest(l)>>]
      BY <2>3, <3>2
    <3>6. QED BY <2>2, <3>3, <3>4, <3>5
  <2>4. CASE Close(l) /\ wire' # wire
    <3>1. PICK a \in Unit, b \in Unit :
            /\ Message(l, "ack", 0, [edit |-> 0, size |-> 0]) = <<a, b>>
            /\ a.t = "ack" /\ b.t = "rest"
      <4>1. [t |-> "ack", by |-> l, n |-> 0, edit |-> 0, size |-> 0, k |-> 0] \in Unit
            /\ Rest(l) \in Unit
        BY SizeAssumption DEF Unit, Rest
      <4>2. QED BY <4>1 DEF Message, Rest
    <3>2. wire' = [wire EXCEPT ![l] = @ \o <<a, b>>] /\ ~IsFile(a)
      BY <2>4, <3>1 DEF Close, IsFile
    <3>3. QED BY <2>2, <3>1, <3>2
  <2>5. CASE Chunk(l) /\ wire' # wire
    <3>1. PICK b : b = Byte(l, tx[l].n, Now(l), tx[l].k + 1)
      OBVIOUS
    <3>2. b.t = "byte" /\ wire' = [wire EXCEPT ![l] = Append(@, b)] /\ b \in Unit
      <4>1. tx[l].n <= Last(l) /\ tx[l].k + 1 \in Nat
        BY <1>1, <2>5 DEF Chunk, Tx, Types, PlaceInv
      <4>2. b \in Unit
        BY <3>1, <4>1, NowTypes
      <4>3. QED BY <2>5, <3>1, <4>2 DEF Chunk, Byte
    <3>3. wire'[l] = Append(wire[l], b)
      BY <3>2 DEF Types, TypeInv
    <3>4. /\ Len(wire'[l]) = Len(wire[l]) + 1
          /\ \A j \in 1..Len(wire[l]) : wire'[l][j] = wire[l][j]
          /\ wire'[l][Len(wire[l]) + 1] = b
      BY <1>1, <3>2, <3>3, AppendProperties
    <3>5. \A j \in 1..Len(wire'[l]) : j \in 1..Len(wire[l]) \/ j = Len(wire[l]) + 1
      BY <1>1, <3>4
    <3>6. QED BY <3>2, <3>4, <3>5 DEF IsFile
  <2>6. CASE Cut(l)
    <3>1. PICK n \in 0..Len(wire[l]) : wire' = [wire EXCEPT ![l] = SubSeq(@, 1, n)]
      BY <2>6 DEF Cut
    <3>2. wire'[l] = SubSeq(wire[l], 1, n)
      BY <3>1 DEF Types, TypeInv
    <3>3. Len(wire'[l]) = n /\ \A j \in 1..n : wire'[l][j] = wire[l][j]
      BY <1>1, <3>2, Kept
    <3>4. \A j \in 1..n : j \in 1..Len(wire[l])
      BY <1>1
    <3>5. QED BY <3>3, <3>4
  <2>7. QED BY <2>1, <2>3, <2>4, <2>5, <2>6 DEF Sender, Announce, Open, Chunk, Close
<1>5. PICK b \in Nat : b = 0
  OBVIOUS
<1>6. \A j \in 1..Len(wire'[l]) : IsFile(wire'[l][j]) => wire'[l][j].n > b
  <2>1. PlaceInv(l)'
    BY DEF Types
  <2>2. ASSUME NEW j \in 1..Len(wire'[l]), IsFile(wire'[l][j]) PROVE wire'[l][j].n > b
    <3>1. Fits(l, wire[l][j])'
      BY <2>1 DEF PlaceInv
    <3>2. wire'[l][j].n \in 1..Last(l)'
      BY <2>2, <3>1 DEF Fits, IsFile
    <3>3. Last(l)' = Last(l) /\ Last(l) \in Nat
      BY <1>1, LinkTypes DEF Last
    <3>4. QED BY <1>5, <3>2, <3>3
  <2>3. QED BY <2>2
<1>7. QED
  <2>1. \A n \in 1..Last(l) : n > b /\ Free(l, Files[l][n]) => Free(l, Files[l][n])'
    BY <1>2, <1>5
  <2>2. \A j \in 1..Len(wire'[l]) : IsFile(wire'[l][j]) =>
            /\ wire'[l][j].n > b
            /\ \/ \E i \in 1..Len(wire[l]) : wire'[l][j] = wire[l][i]
               \/ up[l] /\ wire'[l][j].n >= Todo(tx[l])
    BY <1>4, <1>6
  <2>3. up'[l] => up[l] /\ Todo(tx'[l]) >= Todo(tx[l]) /\ Todo(tx[l]) > b
    BY <1>1, <1>3, <1>5
  <2>4. QED BY <1>1, <2>1, <2>2, <2>3, FreshKept

\* A read creates at most the file it takes from the connection, and the files
\* that follow have other names.
LEMMA FreshReceiver ==
  ASSUME Types, Types', NEW l \in Link, FreshInv(l), LinkInv(l), Receiver(l)
  PROVE  FreshInv(l)'
<1>1. UNCHANGED <<tx, up>> /\ Todo(tx'[l]) = Todo(tx[l]) /\ Todo(tx[l]) > 0
      /\ Todo(tx[l]) \in Nat
  <2>1. UNCHANGED <<tx, up>>
    BY DEF Receiver, Reply, Ask, ReadStream, RejectStream, ReadData, RejectData, ReadAck,
       ReadJunk, ReadEnd, Body, Write, Written, DiskFull, Drain, BodyEnds, Replace,
       ReplaceFails, Record, sending
  <2>2. tx[l].n \in 1..(Last(l) + 1)
    BY DEF Types, PlaceInv
  <2>3. QED BY <2>1, <2>2, LinkTypes DEF Todo
<1>2. wire[l] \in Seq(Unit) /\ Len(wire[l]) \in Nat /\ \A j \in 1..Len(wire[l]) : wire[l][j].n \in Nat
  BY LinkTypes DEF Unit
<1>3. PICK n \in 0..Len(wire[l]) :
            /\ Len(wire'[l]) = Len(wire[l]) - n
            /\ \A j \in 1..Len(wire'[l]) : wire'[l][j] = wire[l][n + j]
            /\ ReadStream(l) \/ ReadData(l) => n = 2
  <2>1. CASE wire' = wire /\ ~ReadStream(l) /\ ~ReadData(l)
    BY <1>2, <2>1
  <2>2. CASE ReadStream(l) \/ RejectStream(l) \/ ReadData(l) \/ RejectData(l) \/ ReadAck(l)
    <3>1. Consume(l, 2) /\ IsMessage(l)
      BY <2>2 DEF ReadStream, RejectStream, ReadData, RejectData, ReadAck
    <3>2. 2 \in 0..Len(wire[l])
      BY <1>2, <3>1 DEF IsMessage
    <3>3. QED BY <3>1, <3>2, ConsumeTypes
  <2>3. CASE Body(l) \/ Drain(l)
    <3>1. /\ Consume(l, 1) /\ wire[l] # <<>> /\ rx[l].pc # "msg"
      BY <2>3 DEF Body, Drain
    <3>2. 1 \in 0..Len(wire[l])
      BY <3>1, LinkTypes
    <3>3. ~ReadStream(l) /\ ~ReadData(l)
      BY <3>1 DEF ReadStream, ReadData
    <3>4. QED BY <3>1, <3>2, <3>3, ConsumeTypes
  <2>4. CASE ReadJunk(l)
    <3>1. PICK n \in 1..Len(wire[l]) : Consume(l, n)
      BY <2>4 DEF ReadJunk
    <3>2. ~ReadStream(l) /\ ~ReadData(l)
      BY <2>4 DEF ReadJunk, ReadStream, ReadData
    <3>3. n \in 0..Len(wire[l])
      OBVIOUS
    <3>4. QED BY <3>1, <3>2, <3>3, ConsumeTypes
  <2>5. QED BY <2>1, <2>2, <2>3, <2>4
        DEF Receiver, Reply, Ask, ReadEnd, Write, Written, DiskFull, BodyEnds, Replace,
            ReplaceFails, Record
<1>4. \A j \in 1..Len(wire'[l]) : n + j \in 1..Len(wire[l]) /\ wire'[l][j] = wire[l][n + j]
  BY <1>2, <1>3
<1>5. CASE ReadStream(l) \/ ReadData(l)
  <2>1. /\ IsMessage(l) /\ IsFile(wire[l][1]) /\ n = 2
    BY <1>3, <1>5 DEF ReadStream, ReadData, IsFile
  <2>2. PICK b \in Nat : b = wire[l][1].n /\ b \in 1..Last(l) /\ Named(l) = Files[l][b]
    BY <2>1, FrontTypes, LinkTypes DEF Named
  <2>3. 1 \in 1..Len(wire[l])
    BY <2>1, FrontTypes
  <2>4. \A j \in 1..Len(wire'[l]) : IsFile(wire'[l][j]) => wire'[l][j].n > b
    <3>1. Chain(Good(l), l, wire[l])
      BY DEF LinkInv
    <3>2. \A i, j \in 1..Len(wire[l]) :
            i < j /\ IsFile(wire[l][i]) /\ IsFile(wire[l][j]) => wire[l][i].n < wire[l][j].n
      BY <3>1 DEF Chain
    <3>3. \A j \in 1..Len(wire'[l]) : 1 < n + j
      BY <2>1
    <3>4. QED BY <1>2, <1>4, <2>1, <2>2, <2>3, <3>2, <3>3
  <2>5. up[l] => Todo(tx[l]) > b
    BY <1>1, <2>1, <2>2, <2>3 DEF LinkInv, Onward
  <2>6. \A k \in 1..Last(l) : k > b /\ Free(l, Files[l][k]) => Free(l, Files[l][k])'
    <3> SUFFICES ASSUME NEW k \in 1..Last(l), k > b, Free(l, Files[l][k])
                 PROVE  Free(l, Files[l][k])'
      OBVIOUS
    <3>1. PICK q \in Path : q = Files[l][k]
      BY LinkTypes
    <3>2. q # Named(l)
      <4>1. k # b
        BY <2>2
      <4>2. QED BY <2>2, <3>1, <4>1, LinkTypes
    <3>3. Free(l, q)'
      BY <3>1, <3>2, FreeKept
    <3>4. q = Files[l][k]
      BY <1>1, <3>1
    <3>5. QED BY <3>3, <3>4
  <2>7. \A j \in 1..Len(wire'[l]) : IsFile(wire'[l][j]) =>
            /\ wire'[l][j].n > b
            /\ \/ \E i \in 1..Len(wire[l]) : wire'[l][j] = wire[l][i]
               \/ up[l] /\ wire'[l][j].n >= Todo(tx[l])
    BY <1>4, <2>4
  <2>8. up'[l] => up[l] /\ Todo(tx'[l]) >= Todo(tx[l]) /\ Todo(tx[l]) > b
    BY <1>1, <2>5
  <2>9. QED BY <1>1, <2>6, <2>7, <2>8, FreshKept
<1>6. CASE ~(ReadStream(l) \/ ReadData(l))
  <2>1. PICK b \in Nat : b = 0
    OBVIOUS
  <2>2. \A j \in 1..Len(wire'[l]) : IsFile(wire'[l][j]) => wire'[l][j].n > b
    <3>1. \A j \in 1..Len(wire[l]) : IsFile(wire[l][j]) => wire[l][j].n > 0
      BY LinkTypes DEF Types, PlaceInv, Fits
    <3>2. QED BY <1>4, <2>1, <3>1
  <2>3. \A k \in 1..Last(l) : k > b /\ Free(l, Files[l][k]) => Free(l, Files[l][k])'
    <3> SUFFICES ASSUME NEW k \in 1..Last(l), Free(l, Files[l][k])
                 PROVE  Free(l, Files[l][k])'
      OBVIOUS
    <3>1. PICK q \in Path : q = Files[l][k]
      BY LinkTypes
    <3>2. Free(l, q)'
      BY <1>6, <3>1, FreeKept
    <3>3. q = Files[l][k]
      BY <1>1, <3>1
    <3>4. QED BY <3>2, <3>3
  <2>4. up[l] => Todo(tx[l]) > b
    BY <1>1, <2>1
  <2>5. \A j \in 1..Len(wire'[l]) : IsFile(wire'[l][j]) =>
            /\ wire'[l][j].n > b
            /\ \/ \E i \in 1..Len(wire[l]) : wire'[l][j] = wire[l][i]
               \/ up[l] /\ wire'[l][j].n >= Todo(tx[l])
    BY <1>4, <2>2
  <2>6. up'[l] => up[l] /\ Todo(tx'[l]) >= Todo(tx[l]) /\ Todo(tx[l]) > b
    BY <1>1, <2>4
  <2>7. QED BY <1>1, <2>3, <2>5, <2>6, FreshKept
<1>7. QED BY <1>5, <1>6

\* Every step leaves the names of files to come free.
LEMMA FreshStep ==
  ASSUME Types, Types', \A l \in Link : FreshInv(l) /\ LinkInv(l), [Next]_vars, NEW m \in Link
  PROVE  FreshInv(m)'
<1>2. ASSUME wire'[m] = wire[m], up'[m] = up[m], tx'[m] = tx[m],
             \A q \in Path : Free(m, q) => Free(m, q)'
      PROVE  FreshInv(m)'
  <2>1. PICK b \in Nat : b = 0
    OBVIOUS
  <2>2. Todo(tx[m]) > b /\ Todo(tx[m]) \in Nat
    <3>1. tx[m].n \in 1..(Last(m) + 1)
      BY DEF Types, PlaceInv
    <3>2. QED BY <2>1, <3>1, LinkTypes DEF Todo
  <2>3. \A j \in 1..Len(wire'[m]) : IsFile(wire'[m][j]) => wire'[m][j].n > b
    BY <1>2, <2>1, LinkTypes DEF Types, PlaceInv, Fits
  <2>4. \A n \in 1..Last(m) : n > b /\ Free(m, Files[m][n]) => Free(m, Files[m][n])'
    <3> SUFFICES ASSUME NEW n \in 1..Last(m), Free(m, Files[m][n])
                 PROVE  Free(m, Files[m][n])'
      OBVIOUS
    <3>1. PICK q \in Path : q = Files[m][n]
      BY LinkTypes
    <3>2. QED BY <1>2, <3>1
  <2>5. \A j \in 1..Len(wire'[m]) : IsFile(wire'[m][j]) =>
            /\ wire'[m][j].n > b
            /\ \/ \E i \in 1..Len(wire[m]) : wire'[m][j] = wire[m][i]
               \/ up[m] /\ wire'[m][j].n >= Todo(tx[m])
    BY <1>2, <2>3
  <2>6. up'[m] => up[m] /\ Todo(tx'[m]) >= Todo(tx[m]) /\ Todo(tx[m]) > b
    BY <1>2, <2>2
  <2>7. FreshInv(m)
    OBVIOUS
  <2>8. QED BY <2>1, <2>4, <2>5, <2>6, <2>7, FreshKept
<1>3. CASE UNCHANGED vars
  <2>1. \A q \in Path : Free(m, q) => Free(m, q)'
    BY <1>3 DEF Free, vars, disk
  <2>2. QED BY <1>2, <1>3, <2>1 DEF vars, sending
<1>4. ASSUME NEW l \in Link, Sender(l) \/ Receiver(l) \/ Cut(l)
      PROVE  FreshInv(m)'
  <2>1. CASE m # l
    <3>1. \A q \in Path : Free(m, q) => Free(m, q)'
      BY <1>4, <2>1, FreeKept
    <3>2. QED BY <1>2, <1>4, <2>1, <3>1, Elsewhere DEF Same
  <2>2. CASE m = l
    BY <1>4, <2>2, FreshSender, FreshReceiver
  <2>3. QED BY <2>1, <2>2
<1>5. ASSUME NEW l \in Link, NEW p \in Path, Edit(l, p) \/ Remove(l, p)
      PROVE  FreshInv(m)'
  <2>1. \A q \in Path : Free(m, q) => Free(m, q)'
    BY <1>5 DEF Free, Edit, Remove, disk
  <2>2. QED BY <1>2, <1>5, <2>1 DEF Edit, Remove
<1>6. CASE Crash
  <2>1. PICK b \in Nat : b = 0
    OBVIOUS
  <2>2. wire' = wire /\ ~up'[m] /\ \A q \in Path : Free(m, q) => Free(m, q)'
    BY <1>6, CrashTypes DEF Free
  <2>3. \A j \in 1..Len(wire'[m]) : IsFile(wire'[m][j]) => wire'[m][j].n > b
    BY <2>1, <2>2, LinkTypes DEF Types, PlaceInv, Fits
  <2>4. \A n \in 1..Last(m) : n > b /\ Free(m, Files[m][n]) => Free(m, Files[m][n])'
    BY <2>2, LinkTypes
  <2>5. \A j \in 1..Len(wire'[m]) : IsFile(wire'[m][j]) =>
            /\ wire'[m][j].n > b
            /\ \/ \E i \in 1..Len(wire[m]) : wire'[m][j] = wire[m][i]
               \/ up[m] /\ wire'[m][j].n >= Todo(tx[m])
    BY <2>2, <2>3
  <2>6. up'[m] => up[m] /\ Todo(tx'[m]) >= Todo(tx[m]) /\ Todo(tx[m]) > b
    BY <2>2
  <2>7. FreshInv(m)
    OBVIOUS
  <2>8. QED BY <2>1, <2>4, <2>5, <2>6, <2>7, FreshKept
<1>7. QED BY <1>3, <1>4, <1>5, <1>6 DEF Next

-----------------------------------------------------------------------------
(* The contents of a path                                                  *)

\* Whatever damages a path stays known.
LEMMA QuietBefore ==
  ASSUME NEW p \in Path, met \subseteq met', changed \subseteq changed', Quiet(p)'
  PROVE  Quiet(p) /\ p \notin met /\ p \notin met'
BY DEF Quiet

\* The receivers that are at a path, by what they do there.
LEMMA AtPath ==
  ASSUME NEW p \in Path
  PROVE  /\ \A m \in Link : m \in Active(p) <=> Receiving(m, p) \/ Putting(m, p) \/ Recording(m, p)
         /\ \A m \in Link : m \in Active(p)' <=>
               Receiving(m, p)' \/ Putting(m, p)' \/ Recording(m, p)'
         /\ Active(p) \subseteq Link /\ Active(p)' \subseteq Link
         /\ Writing(p) <=> \E m \in Link : Putting(m, p)
         /\ Writing(p)' <=> \E m \in Link : Putting(m, p)'
BY DEF Active, Writing, Receiving, Putting, Recording

\* A step that leaves a path and those who write it alone, or breaks off what
\* they write in place.
LEMMA PathKept ==
  ASSUME NEW p \in Path, PathInv(p),
         file'[p] = file[p], tmp'[p] = tmp[p], entry'[p] = entry[p],
         file[p] # None => inode'[file[p]] = inode[file[p]],
         tmp[p] # None => inode'[tmp[p]] = inode[tmp[p]],
         met \subseteq met', changed \subseteq changed',
         \A m \in Link : Receiving(m, p)' =>
            Receiving(m, p) /\ rx'[m].at = rx[m].at /\ rx'[m].k = rx[m].k,
         \A m \in Link : Putting(m, p)' =>
            /\ Putting(m, p) /\ rx'[m].at = rx[m].at /\ rx'[m].k = rx[m].k
            /\ held'[m] = held[m],
         \A m \in Link : Recording(m, p)' => Recording(m, p),
         \A m \in Link : Recording(m, p) => Recording(m, p)',
         Exposed(p) => Exposed(p)',
         p \in broken' => p \in broken \/ \E m \in Link : Putting(m, p)
  PROVE  PathInv(p)'
<1>1. \A m \in Active(p)' : m \in Active(p)
  BY AtPath
<1>2. FilesInv(p)'
  BY DEF PathInv, FilesInv
<1>3. AloneInv(p)'
  BY <1>1 DEF PathInv, AloneInv
<1>4. ContentInv(p)'
  <2> SUFFICES ASSUME Quiet(p)' PROVE ContentInv(p)'
    BY DEF ContentInv
  <2>1. Quiet(p) /\ p \notin met
    BY QuietBefore
  <2>2. ASSUME NEW l \in Link, Receiving(l, p)' PROVE Part(l, p, inode[tmp[p]], rx[l].k)'
    <3>1. Receiving(l, p) /\ tmp[p] # None /\ Part(l, p, inode[tmp[p]], rx[l].k)
      BY <2>1, <2>2 DEF PathInv, AloneInv, ContentInv
    <3>2. inode'[tmp'[p]] = inode[tmp[p]] /\ rx'[l].k = rx[l].k /\ Last(l)' = Last(l)
      BY <2>2, <3>1 DEF Last
    <3>3. QED BY <3>1, <3>2 DEF Part
  <2>3. ASSUME NEW l \in Link, Putting(l, p)'
        PROVE  /\ Carries(l, p, held[l])' /\ Size[p] < Threshold
               /\ Part(l, p, inode[file[p]], rx[l].k)'
    <3>1. /\ Putting(l, p) /\ file[p] # None /\ Carries(l, p, held[l]) /\ Size[p] < Threshold
          /\ Part(l, p, inode[file[p]], rx[l].k)
      BY <2>1, <2>3 DEF PathInv, AloneInv, ContentInv
    <3>2. /\ inode'[file'[p]] = inode[file[p]] /\ rx'[l].k = rx[l].k /\ Last(l)' = Last(l)
          /\ held'[l] = held[l]
      BY <2>3, <3>1 DEF Last
    <3>3. Carries(l, p, held[l])'
      BY <3>1, <3>2 DEF Carries
    <3>4. QED BY <3>1, <3>2, <3>3 DEF Part
  <2>4. p \in broken' => Size[p] < Threshold
    BY <2>1 DEF PathInv, ContentInv
  <2>5. ASSUME file'[p] # None, ~Exposed(p)'
        PROVE  \E l \in Link : (Part(l, p, inode[file[p]], Size[p]) /\ Owner(l, p))'
    <3>1. PICK l \in Link : Part(l, p, inode[file[p]], Size[p]) /\ Owner(l, p)
      BY <2>1, <2>5 DEF PathInv, ContentInv
    <3>2. inode'[file'[p]] = inode[file[p]] /\ Last(l)' = Last(l)
      BY <2>5 DEF Last
    <3>3. Part(l, p, inode[file[p]], Size[p])'
      BY <3>1, <3>2 DEF Part
    <3>4. Owner(l, p)'
      BY <3>1 DEF Owner
    <3>5. QED BY <3>3, <3>4
  <2>6. entry'[p] # None \/ (\E m \in Link : Recording(m, p)') => file'[p] # None
    BY <2>1 DEF PathInv, ContentInv
  <2>7. QED BY <2>2, <2>3, <2>4, <2>5, <2>6 DEF ContentInv
<1>5. QED BY <1>2, <1>3, <1>4 DEF PathInv

\* Only one link steps, and it does not write p.
LEMMA PathElse ==
  ASSUME NEW p \in Path, NEW l \in Link, PathInv(p),
         file'[p] = file[p], tmp'[p] = tmp[p], entry'[p] = entry[p],
         \A i \in {file[p], tmp[p]} : i # None => inode'[i] = inode[i],
         met \subseteq met', changed \subseteq changed',
         \A m \in Link : m # l => rx'[m] = rx[m] /\ held'[m] = held[m],
         rx[l].path # p \/ rx[l].pc \notin {"write", "record"},
         rx'[l].path # p \/ rx'[l].pc \notin {"body", "write", "record"},
         p \in broken' <=> p \in broken
  PROVE  PathInv(p)'
<1>1. \A m \in Link : Receiving(m, p)' =>
            Receiving(m, p) /\ rx'[m].at = rx[m].at /\ rx'[m].k = rx[m].k
  BY DEF Receiving
<1>2. \A m \in Link : Putting(m, p)' =>
            /\ Putting(m, p) /\ rx'[m].at = rx[m].at /\ rx'[m].k = rx[m].k
            /\ held'[m] = held[m]
  BY DEF Putting
<1>3. \A m \in Link : (Recording(m, p)' => Recording(m, p)) /\ (Recording(m, p) => Recording(m, p)')
  BY DEF Recording
<1>4. Exposed(p) => Exposed(p)'
  <2>1. \A m \in Link : Putting(m, p) => Putting(m, p)'
    BY DEF Putting
  <2>2. QED BY <2>1, AtPath DEF Exposed
<1>5. QED BY <1>1, <1>2, <1>3, <1>4, PathKept

\* The header of a stream: nobody else writes, what is under the temporary name
\* is emptied, and the file under the name itself is another.
LEMMA PathReadStream ==
  ASSUME Types, NEW l \in Link, NEW q \in Path, LinkInv(l), FreshInv(l),
         \A p \in Path : PathInv(p), ReadStream(l)
  PROVE  PathInv(q)'
<1>1. PICK p \in Path, i \in Id, s \in 0..MaxSize :
            /\ p = Named(l) /\ p = Files[l][wire[l][1].n] /\ s = wire[l][1].size
            /\ i = IF tmp[p] = None THEN <<l, p>> ELSE tmp[p]
            /\ tmp' = [tmp EXCEPT ![p] = i] /\ inode' = [inode EXCEPT ![i] = <<>>]
            /\ file' = file
            /\ rx' \in [Link -> Rx] /\ \A m \in Link : m # l => rx'[m] = rx[m]
            /\ rx'[l] = [pc |-> "body", path |-> p, at |-> i, left |-> s, k |-> 0]
            /\ i # None
  BY StreamTypes
<1>2. PICK r : r = [pc |-> "body", path |-> p, at |-> i, left |-> s, k |-> 0]
  OBVIOUS
<1>3. rx'[l] = r /\ r.pc = "body" /\ r.path = p /\ r.at = i /\ r.k = 0
  BY <1>1, <1>2
<1>4. /\ file' = file /\ tmp' = [tmp EXCEPT ![p] = i] /\ inode' = [inode EXCEPT ![i] = <<>>]
      /\ \A m \in Link : m # l => rx'[m] = rx[m] /\ held'[m] = held[m]
      /\ i = IF tmp[p] = None THEN <<l, p>> ELSE tmp[p]
      /\ i # None /\ rx[l].pc = "msg"
      /\ UNCHANGED <<entry, changed, held, broken>> /\ met \subseteq met'
      /\ met' = IF Active(p) = {} THEN met ELSE met \cup {p}
  BY <1>1 DEF ReadStream, OpenTmp, sending, Meets
<1>5. /\ file \in [Path -> Id \cup {None}] /\ tmp \in [Path -> Id \cup {None}]
      /\ inode \in [Id -> Seq(Unit)]
  BY DiskTypes
<1>6. PICK n \in 1..Last(l) : Files[l][n] = p /\ IsFile(wire[l][1]) /\ n = wire[l][1].n
  <2>1. IsMessage(l) /\ IsFile(wire[l][1])
    BY DEF ReadStream, IsFile
  <2>2. QED BY <1>1, <2>1, FrontTypes
<1>7. i[2] = p /\ i # file[p]
  <2>1. Free(l, p)
    <3>1. 1 \in 1..Len(wire[l])
      BY FrontTypes DEF ReadStream
    <3>2. QED BY <1>6, <3>1 DEF FreshInv
  <2>2. CASE tmp[p] = None
    BY <1>4, <2>1, <2>2, NotNone DEF Free
  <2>3. CASE tmp[p] # None
    BY <1>4, <2>3 DEF PathInv, FilesInv
  <2>4. QED BY <2>2, <2>3
<1>8. CASE q # p
  <2>1. file[q] # None => file[q][2] = q
    BY DEF PathInv, FilesInv
  <2>2. tmp[q] # None => tmp[q][2] = q
    BY DEF PathInv, FilesInv
  <2>3. file'[q] = file[q] /\ tmp'[q] = tmp[q] /\ entry'[q] = entry[q]
    BY <1>4, <1>5, <1>8
  <2>4. \A j \in {file[q], tmp[q]} : j # None => inode'[j] = inode[j]
    <3>1. \A j \in {file[q], tmp[q]} : j # None => j \in Id /\ j # i
      BY <1>5, <1>7, <1>8, <2>1, <2>2
    <3>2. QED BY <1>4, <1>5, <3>1
  <2>5. rx'[l].path # q
    BY <1>3, <1>8
  <2>6. QED BY <1>4, <2>3, <2>4, <2>5, PathElse
<1>9. CASE q = p
  <2>1. tmp'[p] = i /\ inode'[i] = <<>> /\ (file[p] # None => inode'[file[p]] = inode[file[p]])
    <3>1. file[p] # None => file[p] \in Id
      BY <1>5
    <3>2. QED BY <1>4, <1>5, <1>7, <3>1
  <2>2. FilesInv(p)'
    <3>1. file[p] # None => file[p][2] = p
      BY DEF PathInv, FilesInv
    <3>2. \A m \in Link : Receiving(m, p)' \/ Putting(m, p)' => rx'[m].at[2] = p
      BY <1>3, <1>4, <1>7 DEF PathInv, FilesInv, Receiving, Putting
    <3>3. QED BY <1>4, <1>7, <2>1, <3>1, <3>2 DEF FilesInv
  <2>3. ASSUME p \notin met'
        PROVE  /\ Active(p) = {}
               /\ \A m \in Link : rx'[m].path = p /\ rx'[m].pc \in {"body", "write", "record"} => m = l
    <3>1. Active(p) = {}
      BY <1>4, <2>3
    <3>2. QED BY <1>4, <3>1 DEF Active
  <2>4. ASSUME p \notin met' PROVE \A m \in Link : ~Putting(m, p) /\ ~Putting(m, p)'
    BY <1>3, <2>3, <2>4, AtPath DEF Putting
  <2>5. AloneInv(p)'
    <3>1. ASSUME p \notin met', NEW m \in Link, Receiving(m, p)'
          PROVE  rx'[m].at = tmp'[p] /\ tmp'[p] # None
      BY <1>3, <1>4, <2>1, <2>3, <3>1 DEF Receiving
    <3>2. ASSUME p \notin met' PROVE \A m1, m2 \in Active(p)' : m1 = m2
      <4>1. \A m \in Active(p)' : m = l
        BY <2>3, <3>2 DEF Active
      <4>2. QED BY <4>1
    <3>3. QED BY <2>4, <3>1, <3>2 DEF AloneInv
  <2>6. ContentInv(p)'
    <3> SUFFICES ASSUME Quiet(p)' PROVE ContentInv(p)'
      BY DEF ContentInv
    <3>1. Quiet(p) /\ p \notin met'
      BY <1>4, QuietBefore
    <3>2. \A m \in Link : ~Recording(m, p) /\ ~Recording(m, p)'
      <4>1. \A m \in Link : ~Recording(m, p)
        BY <2>3, <3>1, AtPath
      <4>2. QED BY <1>3, <1>4, <4>1 DEF Recording
    <3>3. ASSUME NEW m \in Link, Receiving(m, p)' PROVE Part(m, p, inode[tmp[p]], rx[m].k)'
      <4>1. m = l
        BY <2>3, <3>1, <3>3 DEF Receiving
      <4>2. rx'[m].k = 0 /\ inode'[tmp'[p]] = <<>> /\ Len(<<>>) = 0
        BY <1>3, <2>1, <4>1
      <4>3. BytesOf(<<>>, l, n, 0)
        BY <4>2 DEF BytesOf
      <4>4. n \in 1..Last(l)' /\ Files[l][n] = p
        BY <1>4, <1>6 DEF Last
      <4>5. QED BY <4>1, <4>2, <4>3, <4>4 DEF Part
    <3>4. Exposed(p)' <=> Exposed(p)
      BY <1>4, <2>4, <3>1, AtPath DEF Exposed
    <3>5. ASSUME file'[p] # None, ~Exposed(p)'
          PROVE  \E o \in Link : (Part(o, p, inode[file[p]], Size[p]) /\ Owner(o, p))'
      <4>1. PICK o \in Link : Part(o, p, inode[file[p]], Size[p]) /\ Owner(o, p)
        BY <1>4, <3>1, <3>4, <3>5 DEF PathInv, ContentInv
      <4>2. inode'[file'[p]] = inode[file[p]] /\ Last(o)' = Last(o)
        BY <1>4, <2>1, <3>5 DEF Last
      <4>3. Part(o, p, inode[file[p]], Size[p])'
        BY <1>4, <4>1, <4>2 DEF Part
      <4>4. Owner(o, p)'
        BY <1>4, <3>2, <4>1 DEF Owner
      <4>5. QED BY <4>3, <4>4
    <3>6. p \in broken' => Size[p] < Threshold
      BY <1>4, <3>1 DEF PathInv, ContentInv
    <3>7. entry'[p] # None \/ (\E m \in Link : Recording(m, p)') => file'[p] # None
      BY <1>4, <3>1, <3>2 DEF PathInv, ContentInv
    <3>8. QED BY <2>4, <3>1, <3>3, <3>5, <3>6, <3>7 DEF ContentInv
  <2>7. QED BY <1>9, <2>2, <2>5, <2>6 DEF PathInv
<1>10. QED BY <1>8, <1>9

\* A whole file in a message: the file is emptied, and will hold what the link
\* has of it.
LEMMA PathReadData ==
  ASSUME Types, NEW l \in Link, NEW q \in Path, LinkInv(l), FreshInv(l),
         \A p \in Path : PathInv(p), ReadData(l)
  PROVE  PathInv(q)'
<1>1. PICK p \in Path, i \in Id, u \in Unit :
            /\ p = Named(l) /\ u = wire[l][1] /\ p = Files[l][u.n]
            /\ i = IF file[p] = None THEN <<l, p>> ELSE file[p]
            /\ file' = [file EXCEPT ![p] = i] /\ inode' = [inode EXCEPT ![i] = <<>>]
            /\ tmp' = tmp /\ held' = [held EXCEPT ![l] = u]
            /\ rx' \in [Link -> Rx] /\ \A m \in Link : m # l => rx'[m] = rx[m]
            /\ rx'[l].pc = "write" /\ rx'[l].path = p /\ rx'[l].at = i
            /\ rx'[l].left = 0 /\ rx'[l].k = 0
            /\ i # None
  BY DataTypes
<1>2. /\ file \in [Path -> Id \cup {None}] /\ tmp \in [Path -> Id \cup {None}]
      /\ inode \in [Id -> Seq(Unit)] /\ held \in [Link -> Unit \cup {None}]
  BY DiskTypes
<1>3. /\ file' = [file EXCEPT ![p] = i] /\ tmp' = tmp /\ inode' = [inode EXCEPT ![i] = <<>>]
      /\ \A m \in Link : m # l => rx'[m] = rx[m] /\ held'[m] = held[m]
      /\ rx'[l].pc = "write" /\ rx'[l].path = p /\ rx'[l].at = i /\ rx'[l].k = 0
      /\ i = IF file[p] = None THEN <<l, p>> ELSE file[p]
      /\ rx[l].pc = "msg" /\ held'[l] = u
      /\ UNCHANGED <<entry, changed, broken>> /\ met \subseteq met'
      /\ met' = IF Active(p) = {} THEN met ELSE met \cup {p}
  BY <1>1, <1>2 DEF ReadData, sending, Meets
<1>4. /\ 1 \in 1..Len(wire[l]) /\ u = wire[l][1] /\ IsFile(u) /\ u.size < Threshold
      /\ u.n \in 1..Last(l) /\ Files[l][u.n] = p
  <2>1. IsMessage(l) /\ IsFile(wire[l][1]) /\ wire[l][1].t = "data"
    BY DEF ReadData, IsFile
  <2>2. QED BY <1>1, <2>1, FrontTypes
<1>5. i[2] = p /\ i # tmp[p] /\ i # None
  <2>1. Free(l, p)
    BY <1>4 DEF FreshInv
  <2>2. CASE file[p] = None
    BY <1>3, <2>1, <2>2, NotNone DEF Free
  <2>3. CASE file[p] # None
    BY <1>3, <2>3 DEF PathInv, FilesInv
  <2>4. QED BY <2>2, <2>3
<1>6. CASE q # p
  <2>1. (file[q] # None => file[q][2] = q) /\ (tmp[q] # None => tmp[q][2] = q)
    BY DEF PathInv, FilesInv
  <2>2. file'[q] = file[q] /\ tmp'[q] = tmp[q] /\ entry'[q] = entry[q]
    BY <1>2, <1>3, <1>6
  <2>3. \A j \in {file[q], tmp[q]} : j # None => inode'[j] = inode[j]
    <3>1. \A j \in {file[q], tmp[q]} : j # None => j \in Id /\ j # i
      BY <1>2, <1>5, <1>6, <2>1
    <3>2. QED BY <1>2, <1>3, <3>1
  <2>4. rx'[l].path # q
    BY <1>3, <1>6
  <2>5. QED BY <1>3, <2>2, <2>3, <2>4, PathElse
<1>7. CASE q = p
  <2>1. file'[p] = i /\ inode'[i] = <<>>
    BY <1>2, <1>3
  <2>2. FilesInv(p)'
    <3>1. tmp[p] # None => tmp[p][2] = p
      BY DEF PathInv, FilesInv
    <3>2. \A m \in Link : Receiving(m, p)' \/ Putting(m, p)' => rx'[m].at[2] = p
      BY <1>3, <1>5 DEF PathInv, FilesInv, Receiving, Putting
    <3>3. QED BY <1>3, <1>5, <2>1, <3>1, <3>2 DEF FilesInv
  <2>3. ASSUME p \notin met'
        PROVE  \A m \in Link : rx'[m].path = p /\ rx'[m].pc \in {"body", "write", "record"} => m = l
    <3>1. Active(p) = {}
      BY <1>3, <2>3
    <3>2. QED BY <1>3, <3>1 DEF Active
  <2>4. ASSUME p \notin met', NEW m \in Link PROVE ~Receiving(m, p)' /\ ~Recording(m, p)'
    BY <1>3, <2>3, <2>4 DEF Receiving, Recording
  <2>5. AloneInv(p)'
    <3>1. ASSUME p \notin met', NEW m \in Link, Putting(m, p)'
          PROVE  rx'[m].at = file'[p] /\ file'[p] # None
      BY <1>3, <1>5, <2>1, <2>3, <3>1 DEF Putting
    <3>2. ASSUME p \notin met' PROVE \A m1, m2 \in Active(p)' : m1 = m2
      <4>1. \A m \in Active(p)' : m = l
        BY <2>3, <3>2 DEF Active
      <4>2. QED BY <4>1
    <3>3. QED BY <2>4, <3>1, <3>2 DEF AloneInv
  <2>6. ContentInv(p)'
    <3> SUFFICES ASSUME Quiet(p)' PROVE ContentInv(p)'
      BY DEF ContentInv
    <3>1. Quiet(p) /\ p \notin met' /\ <<l, p>> \notin changed
      <4>1. Quiet(p) /\ p \notin met'
        BY <1>3, QuietBefore
      <4>2. QED BY <4>1 DEF Quiet
    <3>2. u.by = l /\ u.size = Size[p] /\ u.edit = 0
      <4>1. u.n \in Good(l)
        BY <1>4, <3>1 DEF Good
      <4>2. QED BY <1>4, <4>1 DEF LinkInv, Chain, SizeOf
    <3>3. ASSUME NEW m \in Link, Putting(m, p)'
          PROVE  /\ Carries(m, p, held[m])' /\ Size[p] < Threshold
                 /\ Part(m, p, inode[file[p]], rx[m].k)'
      <4>1. m = l
        BY <2>3, <3>1, <3>3 DEF Putting
      <4>2. /\ u.n \in 1..Last(l)' /\ Files[l][u.n] = p /\ held'[l] = u
            /\ rx'[l].k = 0 /\ inode'[file'[p]] = <<>> /\ Len(<<>>) = 0
        BY <1>3, <1>4, <2>1 DEF Last
      <4>3. Carries(l, p, held[l])'
        BY <3>2, <4>2 DEF Carries
      <4>4. BytesOf(<<>>, l, u.n, 0)
        BY <4>2 DEF BytesOf
      <4>5. Part(l, p, inode[file[p]], rx[l].k)'
        BY <4>2, <4>4 DEF Part
      <4>6. QED BY <1>4, <3>2, <4>1, <4>3, <4>5
    <3>4. Putting(l, p)' /\ Size[p] < Threshold
      BY <1>3, <1>4, <3>2 DEF Putting
    <3>5. Exposed(p)'
      BY <3>4, AtPath DEF Exposed
    <3>6. file'[p] # None
      BY <1>5, <2>1
    <3>7. QED BY <2>4, <3>1, <3>3, <3>4, <3>5, <3>6 DEF ContentInv
  <2>7. QED BY <1>7, <2>2, <2>5, <2>6 DEF PathInv
<1>8. QED BY <1>6, <1>7

\* The next byte at its place makes the first bytes of a file one more.
LEMMA Grows ==
  ASSUME NEW l, NEW a, NEW c \in Nat, NEW s, NEW v, NEW n \in Nat, BytesOf(s, l, a, c),
         n = Len(s), Len(v) = IF n >= c + 1 THEN n ELSE c + 1,
         \A k \in 1..Len(v) :
            v[k] = IF k = c + 1 THEN ByteOf(l, a, c + 1) ELSE IF k <= n THEN s[k] ELSE Rest(l)
  PROVE  BytesOf(v, l, a, c + 1)
<1>1. n = c /\ \A j \in 1..c : s[j] = ByteOf(l, a, j)
  BY DEF BytesOf
<1>2. Len(v) = c + 1
  BY <1>1
<1>3. ASSUME NEW j \in 1..(c + 1) PROVE v[j] = ByteOf(l, a, j)
  <2>1. v[j] = IF j = c + 1 THEN ByteOf(l, a, c + 1) ELSE IF j <= n THEN s[j] ELSE Rest(l)
    BY <1>2
  <2>2. j = c + 1 \/ (j \in 1..c /\ j <= n /\ j # c + 1)
    BY <1>1
  <2>3. QED BY <1>1, <2>1, <2>2
<1>4. QED BY <1>2, <1>3 DEF BytesOf

\* A byte of a body: the next one of the same file.
LEMMA PathBody ==
  ASSUME Types, NEW l \in Link, NEW q \in Path, LinkInv(l),
         \A p \in Path : PathInv(p), Body(l)
  PROVE  PathInv(q)'
<1>1. PICK i \in Id, v \in Seq(Unit), n \in Nat :
            /\ i = rx[l].at /\ n = Len(inode[i])
            /\ inode' = [inode EXCEPT ![i] = v]
            /\ Len(v) = IF n >= rx[l].k + 1 THEN n ELSE rx[l].k + 1
            /\ \A k \in 1..Len(v) :
                  v[k] = IF k = rx[l].k + 1 THEN wire[l][1]
                         ELSE IF k <= n THEN inode[i][k] ELSE Rest(l)
  BY BodyTypes, PutTypes DEF Body
<1>2. /\ UNCHANGED <<file, tmp, held, broken, entry, met, changed>>
      /\ rx[l].pc = "body" /\ rx[l].left > 0 /\ wire[l] # <<>>
      /\ rx' = [rx EXCEPT ![l].left = @ - 1, ![l].k = @ + 1]
  BY DEF Body, sending
<1>3. /\ \A m \in Link : m # l => rx'[m] = rx[m]
      /\ rx'[l].pc = "body" /\ rx'[l].path = rx[l].path /\ rx'[l].at = rx[l].at
      /\ rx'[l].k = rx[l].k + 1
  BY <1>2, CountTypes
<1>4. /\ file \in [Path -> Id \cup {None}] /\ tmp \in [Path -> Id \cup {None}]
      /\ inode \in [Id -> Seq(Unit)] /\ rx[l] \in Rx
  BY DiskTypes, LinkTypes
<1>5. PICK p \in Path, c \in Nat : p = rx[l].path /\ c = rx[l].k
  BY <1>4, SizeAssumption DEF Rx
<1>6. i[2] = p
  BY <1>1, <1>2, <1>5 DEF PathInv, FilesInv, Receiving
<1>7. CASE q # p
  <2>1. (file[q] # None => file[q][2] = q) /\ (tmp[q] # None => tmp[q][2] = q)
    BY DEF PathInv, FilesInv
  <2>2. \A j \in {file[q], tmp[q]} : j # None => inode'[j] = inode[j]
    <3>1. \A j \in {file[q], tmp[q]} : j # None => j \in Id /\ j # i
      BY <1>4, <1>6, <1>7, <2>1
    <3>2. QED BY <1>1, <1>4, <3>1
  <2>3. rx'[l].path # q /\ rx[l].path # q
    BY <1>3, <1>5, <1>7
  <2>4. QED BY <1>2, <1>3, <2>2, <2>3, PathElse
<1>8. CASE q = p
  <2>1. /\ \A m \in Link : Receiving(m, p)' <=> Receiving(m, p)
        /\ \A m \in Link : Putting(m, p)' <=> Putting(m, p)
        /\ \A m \in Link : Recording(m, p)' <=> Recording(m, p)
        /\ \A m \in Link : rx'[m].at = rx[m].at
        /\ Active(p)' = Active(p) /\ (Exposed(p)' <=> Exposed(p))
    <3>1. \A m \in Link : rx'[m].pc = rx[m].pc /\ rx'[m].path = rx[m].path /\ rx'[m].at = rx[m].at
      BY <1>2, <1>3
    <3>2. QED BY <1>2, <3>1 DEF Receiving, Putting, Recording, Active, Exposed, Writing
  <2>2. FilesInv(p)'
    <3>1. FilesInv(p)
      BY DEF PathInv
    <3>2. \A m \in Link : Receiving(m, p)' \/ Putting(m, p)' => rx'[m].at[2] = p
      BY <2>1, <3>1 DEF FilesInv
    <3>3. QED BY <1>2, <3>1, <3>2 DEF FilesInv
  <2>3. AloneInv(p)'
    <3>1. AloneInv(p)
      BY DEF PathInv
    <3>2. p \notin met' => \A m \in Link : Receiving(m, p)' => rx'[m].at = tmp'[p] /\ tmp'[p] # None
      BY <1>2, <2>1, <3>1 DEF AloneInv
    <3>3. p \notin met' => \A m \in Link : Putting(m, p)' => rx'[m].at = file'[p] /\ file'[p] # None
      BY <1>2, <2>1, <3>1 DEF AloneInv
    <3>4. p \notin met' => \A m1, m2 \in Active(p)' : m1 = m2
      BY <1>2, <2>1, <3>1 DEF AloneInv
    <3>5. QED BY <3>2, <3>3, <3>4 DEF AloneInv
  <2>4. ContentInv(p)'
    <3> SUFFICES ASSUME Quiet(p)' PROVE ContentInv(p)'
      BY DEF ContentInv
    <3>1. Quiet(p) /\ p \notin met /\ <<l, p>> \notin changed
      BY <1>2 DEF Quiet
    <3>2. Receiving(l, p) /\ l \in Active(p) /\ \A m1, m2 \in Active(p) : m1 = m2
      BY <1>2, <1>5, <3>1, AtPath DEF Receiving, PathInv, AloneInv
    <3>3. i = tmp[p] /\ tmp[p] # None
      BY <1>1, <3>1, <3>2 DEF PathInv, AloneInv
    <3>4. \A m \in Link : ~Putting(m, p)
      BY <3>2, AtPath DEF Receiving, Putting
    <3>5. PICK a \in 1..Last(l) : Files[l][a] = p /\ BytesOf(inode[i], l, a, c)
      BY <1>5, <3>1, <3>2, <3>3 DEF PathInv, ContentInv, Part
    <3>6. wire[l][1] = ByteOf(l, a, c + 1)
      <4>1. PICK b \in 1..Last(l) :
              /\ Files[l][b] = rx[l].path
              /\ b \in Good(l) =>
                   (rx[l].left > 0 => Expects(wire[l], tx[l], up[l], l, b, rx[l].k))
        BY <1>2 DEF LinkInv, Reading
      <4>2. a = b
        BY <1>5, <3>5, <4>1, LinkTypes
      <4>3. b \in Good(l)
        BY <1>5, <3>1, <4>1 DEF Good
      <4>4. QED BY <1>2, <1>5, <4>1, <4>2, <4>3 DEF Expects
    <3>7. BytesOf(v, l, a, c + 1)
      <4>1. \A k \in 1..Len(v) : v[k] = IF k = c + 1 THEN ByteOf(l, a, c + 1)
                                        ELSE IF k <= n THEN inode[i][k] ELSE Rest(l)
        BY <1>1, <1>5, <3>6
      <4>2. QED BY <1>1, <1>5, <3>5, <4>1, Grows
    <3>8. ASSUME NEW m \in Link, Receiving(m, p)' PROVE Part(m, p, inode[tmp[p]], rx[m].k)'
      <4>1. m = l
        BY <2>1, <3>2, <3>8, AtPath
      <4>2. inode'[tmp'[p]] = v /\ rx'[l].k = c + 1 /\ Last(l)' = Last(l)
        BY <1>1, <1>2, <1>3, <1>4, <1>5, <3>3 DEF Last
      <4>3. QED BY <3>5, <3>7, <4>1, <4>2 DEF Part
    <3>9. ASSUME file'[p] # None, ~Exposed(p)'
          PROVE  \E o \in Link : (Part(o, p, inode[file[p]], Size[p]) /\ Owner(o, p))'
      <4>1. PICK o \in Link : Part(o, p, inode[file[p]], Size[p]) /\ Owner(o, p)
        BY <1>2, <2>1, <3>1, <3>9 DEF PathInv, ContentInv
      <4>2. file[p] # i /\ file[p] \in Id
        BY <1>2, <1>4, <3>3, <3>9 DEF PathInv, FilesInv
      <4>3. inode'[file'[p]] = inode[file[p]] /\ Last(o)' = Last(o)
        BY <1>1, <1>2, <1>4, <4>2 DEF Last
      <4>4. Part(o, p, inode[file[p]], Size[p])'
        BY <1>2, <4>1, <4>3 DEF Part
      <4>5. Owner(o, p)'
        BY <1>2, <2>1, <4>1 DEF Owner
      <4>6. QED BY <4>4, <4>5
    <3>10. /\ p \in broken' => Size[p] < Threshold
           /\ entry'[p] # None \/ (\E m \in Link : Recording(m, p)') => file'[p] # None
      BY <1>2, <2>1, <3>1 DEF PathInv, ContentInv
    <3>11. \A m \in Link : ~Putting(m, p)'
      BY <2>1, <3>4
    <3>12. QED BY <3>8, <3>9, <3>10, <3>11 DEF ContentInv
  <2>5. QED BY <1>8, <2>2, <2>3, <2>4 DEF PathInv
<1>9. QED BY <1>7, <1>8

\* A byte of a message: the next one of its file.
LEMMA PathWrite ==
  ASSUME Types, NEW l \in Link, NEW q \in Path, \A p \in Path : PathInv(p), Write(l)
  PROVE  PathInv(q)'
<1>1. PICK u \in Unit : u = ByteFrom(held[l], rx[l].k + 1) /\ Put(l, u)
  BY WriteTypes
<1>2. PICK i \in Id, v \in Seq(Unit), n \in Nat :
            /\ i = rx[l].at /\ n = Len(inode[i])
            /\ inode' = [inode EXCEPT ![i] = v]
            /\ Len(v) = IF n >= rx[l].k + 1 THEN n ELSE rx[l].k + 1
            /\ \A k \in 1..Len(v) :
                  v[k] = IF k = rx[l].k + 1 THEN u
                         ELSE IF k <= n THEN inode[i][k] ELSE Rest(l)
  BY <1>1, PutTypes DEF Write
<1>3. /\ UNCHANGED <<file, tmp, held, broken, entry, met, changed>> /\ rx[l].pc = "write"
      /\ met \subseteq met' /\ changed \subseteq changed'
  BY DEF Write, sending
<1>4. /\ \A m \in Link : m # l => rx'[m] = rx[m]
      /\ rx'[l].pc = "write" /\ rx'[l].path = rx[l].path /\ rx'[l].at = rx[l].at
      /\ rx'[l].k = rx[l].k + 1
  BY WriteTypes
<1>5. /\ file \in [Path -> Id \cup {None}] /\ tmp \in [Path -> Id \cup {None}]
      /\ inode \in [Id -> Seq(Unit)] /\ rx[l] \in Rx
  BY DiskTypes, LinkTypes
<1>6. PICK p \in Path, c \in Nat : p = rx[l].path /\ c = rx[l].k
  BY <1>5, SizeAssumption DEF Rx
<1>7. i[2] = p /\ Putting(l, p)
  BY <1>2, <1>3, <1>6 DEF PathInv, FilesInv, Putting
<1>8. CASE q # p
  <2>1. (file[q] # None => file[q][2] = q) /\ (tmp[q] # None => tmp[q][2] = q)
    BY DEF PathInv, FilesInv
  <2>2. \A j \in {file[q], tmp[q]} : j # None => inode'[j] = inode[j]
    <3>1. \A j \in {file[q], tmp[q]} : j # None => j \in Id /\ j # i
      BY <1>5, <1>7, <1>8, <2>1
    <3>2. QED BY <1>2, <1>5, <3>1
  <2>3. rx'[l].path # q /\ rx[l].path # q
    BY <1>4, <1>6, <1>8
  <2>4. QED BY <1>3, <1>4, <2>2, <2>3, PathElse
<1>9. CASE q = p
  <2>1. /\ \A m \in Link : Receiving(m, p)' <=> Receiving(m, p)
        /\ \A m \in Link : Putting(m, p)' <=> Putting(m, p)
        /\ \A m \in Link : Recording(m, p)' <=> Recording(m, p)
        /\ \A m \in Link : rx'[m].at = rx[m].at
        /\ Active(p)' = Active(p)
    <3>1. \A m \in Link : rx'[m].pc = rx[m].pc /\ rx'[m].path = rx[m].path /\ rx'[m].at = rx[m].at
      BY <1>3, <1>4
    <3>2. QED BY <3>1 DEF Receiving, Putting, Recording, Active
  <2>2. FilesInv(p)'
    <3>1. FilesInv(p)
      BY DEF PathInv
    <3>2. \A m \in Link : Receiving(m, p)' \/ Putting(m, p)' => rx'[m].at[2] = p
      BY <2>1, <3>1 DEF FilesInv
    <3>3. QED BY <1>3, <3>1, <3>2 DEF FilesInv
  <2>3. AloneInv(p)'
    <3>1. AloneInv(p)
      BY DEF PathInv
    <3>2. p \notin met' => \A m \in Link : Receiving(m, p)' => rx'[m].at = tmp'[p] /\ tmp'[p] # None
      BY <1>3, <2>1, <3>1 DEF AloneInv
    <3>3. p \notin met' => \A m \in Link : Putting(m, p)' => rx'[m].at = file'[p] /\ file'[p] # None
      BY <1>3, <2>1, <3>1 DEF AloneInv
    <3>4. p \notin met' => \A m1, m2 \in Active(p)' : m1 = m2
      BY <1>3, <2>1, <3>1 DEF AloneInv
    <3>5. QED BY <3>2, <3>3, <3>4 DEF AloneInv
  <2>4. ContentInv(p)'
    <3> SUFFICES ASSUME Quiet(p)' PROVE ContentInv(p)'
      BY DEF ContentInv
    <3>1. Quiet(p) /\ p \notin met
      BY <1>3, QuietBefore
    <3>2. l \in Active(p) /\ \A m1, m2 \in Active(p) : m1 = m2
      BY <1>7, <3>1, AtPath DEF PathInv, AloneInv
    <3>3. i = file[p] /\ file[p] # None
      BY <1>2, <1>7, <3>1 DEF PathInv, AloneInv
    <3>4. \A m \in Link : ~Receiving(m, p)
      BY <1>7, <3>2, AtPath DEF Receiving, Putting
    <3>5. /\ Carries(l, p, held[l]) /\ Size[p] < Threshold
          /\ Part(l, p, inode[i], c)
      BY <1>6, <1>7, <3>1, <3>3 DEF PathInv, ContentInv
    <3>6. PICK a \in 1..Last(l) : Files[l][a] = p /\ BytesOf(inode[i], l, a, c)
      BY <3>5 DEF Part
    <3>7. PICK b \in 1..Last(l) :
             /\ Files[l][b] = p
             /\ held[l].by = l /\ held[l].n = b /\ held[l].edit = 0 /\ held[l].size = Size[p]
      BY <3>5 DEF Carries
    <3>8. u = ByteOf(l, a, c + 1)
      <4>1. a = b
        BY <3>6, <3>7, LinkTypes
      <4>2. QED BY <1>1, <1>6, <3>6, <3>7, <4>1 DEF ByteFrom, ByteOf, SizeOf
    <3>9. BytesOf(v, l, a, c + 1)
      <4>1. \A k \in 1..Len(v) : v[k] = IF k = c + 1 THEN ByteOf(l, a, c + 1)
                                        ELSE IF k <= n THEN inode[i][k] ELSE Rest(l)
        BY <1>2, <1>6, <3>8
      <4>2. QED BY <1>2, <1>6, <3>6, <4>1, Grows
    <3>10. ASSUME NEW m \in Link, Putting(m, p)'
           PROVE  /\ Carries(m, p, held[m])' /\ Size[p] < Threshold
                  /\ Part(m, p, inode[file[p]], rx[m].k)'
      <4>1. m = l
        BY <2>1, <3>2, <3>10, AtPath
      <4>2. inode'[file'[p]] = v /\ rx'[l].k = c + 1 /\ Last(l)' = Last(l) /\ held'[l] = held[l]
        BY <1>2, <1>3, <1>4, <1>5, <1>6, <3>3 DEF Last
      <4>3. Part(m, p, inode[file[p]], rx[m].k)'
        BY <3>6, <3>9, <4>1, <4>2 DEF Part
      <4>4. QED BY <3>5, <4>1, <4>2, <4>3 DEF Carries
    <3>11. Exposed(p)'
      BY <1>7, <2>1, <3>5, AtPath DEF Exposed
    <3>12. entry'[p] # None \/ (\E m \in Link : Recording(m, p)') => file'[p] # None
      BY <1>3, <3>3
    <3>13. QED BY <2>1, <3>4, <3>5, <3>10, <3>11, <3>12 DEF ContentInv
  <2>5. QED BY <1>9, <2>2, <2>3, <2>4 DEF PathInv
<1>10. QED BY <1>8, <1>9

\* The message has been written to its end.
LEMMA PathWritten ==
  ASSUME Types, NEW l \in Link, NEW q \in Path, \A p \in Path : PathInv(p), Written(l)
  PROVE  PathInv(q)'
<1>1. /\ \A m \in Link : m # l => rx'[m] = rx[m]
      /\ rx'[l].pc = "record" /\ rx'[l].path = rx[l].path
  BY TypesWritten
<1>2. /\ UNCHANGED <<inode, file, tmp, held, entry, met, changed>>
      /\ rx[l].pc = "write" /\ rx[l].k = held[l].size
      /\ broken' = broken \ {rx[l].path}
      /\ met \subseteq met' /\ changed \subseteq changed'
  BY DEF Written, sending
<1>3. PICK p \in Path : p = rx[l].path
  BY LinkTypes DEF Rx
<1>4. Putting(l, p)
  BY <1>2, <1>3 DEF Putting
<1>5. CASE q # p
  <2>1. rx'[l].path # q /\ rx[l].path # q /\ (q \in broken' <=> q \in broken)
    BY <1>1, <1>2, <1>3, <1>5
  <2>2. QED BY <1>1, <1>2, <2>1, PathElse
<1>6. CASE q = p
  <2>1. /\ \A m \in Link : Receiving(m, p)' <=> Receiving(m, p)
        /\ \A m \in Link : Putting(m, p)' => Putting(m, p) /\ m # l /\ rx'[m] = rx[m]
        /\ Recording(l, p)'
        /\ \A m \in Link : rx'[m].path = p /\ rx'[m].pc \in {"body", "write", "record"} =>
              m \in Active(p)
    BY <1>1, <1>2, <1>3 DEF Receiving, Putting, Recording, Active
  <2>2. \A m \in Active(p)' : m \in Active(p)
    BY <2>1 DEF Active
  <2>3. FilesInv(p)'
    <3>1. FilesInv(p)
      BY DEF PathInv
    <3>2. \A m \in Link : Receiving(m, p)' \/ Putting(m, p)' => rx'[m].at[2] = p
      BY <1>1, <2>1, <3>1 DEF FilesInv, Receiving
    <3>3. QED BY <1>2, <3>1, <3>2 DEF FilesInv
  <2>4. AloneInv(p)'
    <3>1. AloneInv(p)
      BY DEF PathInv
    <3>2. p \notin met' => \A m \in Link : Receiving(m, p)' => rx'[m].at = tmp'[p] /\ tmp'[p] # None
      BY <1>1, <1>2, <2>1, <3>1 DEF AloneInv, Receiving
    <3>3. p \notin met' => \A m \in Link : Putting(m, p)' => rx'[m].at = file'[p] /\ file'[p] # None
      BY <1>2, <2>1, <3>1 DEF AloneInv
    <3>4. p \notin met' => \A m1, m2 \in Active(p)' : m1 = m2
      BY <1>2, <2>2, <3>1 DEF AloneInv
    <3>5. QED BY <3>2, <3>3, <3>4 DEF AloneInv
  <2>5. ContentInv(p)'
    <3> SUFFICES ASSUME Quiet(p)' PROVE ContentInv(p)'
      BY DEF ContentInv
    <3>1. Quiet(p) /\ p \notin met /\ p \notin met'
      BY <1>2, QuietBefore
    <3>2. /\ Carries(l, p, held[l]) /\ Part(l, p, inode[file[p]], rx[l].k)
          /\ file[p] # None
      BY <1>4, <3>1 DEF PathInv, ContentInv, AloneInv
    <3>3. rx[l].k = Size[p]
      BY <1>2, <3>2 DEF Carries
    <3>4. l \in Active(p) /\ \A m1, m2 \in Active(p) : m1 = m2
      BY <1>4, <3>1, AtPath DEF PathInv, AloneInv
    <3>5. \A m \in Link : ~Receiving(m, p)' /\ ~Putting(m, p)' /\ (Recording(m, p)' => m = l)
      <4>1. \A m \in Link : Receiving(m, p)' \/ Putting(m, p)' \/ Recording(m, p)' => m = l
        BY <2>2, <3>4, AtPath
      <4>2. QED BY <1>1, <2>1, <4>1 DEF Receiving
    <3>6. Part(l, p, inode[file[p]], Size[p])'
      <4>1. Last(l)' = Last(l) /\ inode'[file'[p]] = inode[file[p]]
        BY <1>2 DEF Last
      <4>2. QED BY <3>2, <3>3, <4>1 DEF Part
    <3>7. Owner(l, p)'
      BY <2>1, <3>5 DEF Owner
    <3>8. p \notin broken' /\ file'[p] # None
      BY <1>2, <1>3, <3>2
    <3>9. QED BY <3>5, <3>6, <3>7, <3>8 DEF ContentInv
  <2>6. QED BY <1>6, <2>3, <2>4, <2>5 DEF PathInv
<1>7. QED BY <1>5, <1>6

\* A write raises: what was being written in place is known to be torn.
LEMMA PathDiskFull ==
  ASSUME Types, NEW l \in Link, NEW q \in Path, \A p \in Path : PathInv(p), DiskFull(l)
  PROVE  PathInv(q)'
<1>1. /\ UNCHANGED <<inode, file, tmp, held, entry, met, changed>>
      /\ met \subseteq met' /\ changed \subseteq changed'
      /\ \/ rx[l].pc = "body" /\ broken' = broken
         \/ rx[l].pc = "write" /\ broken' = broken \cup {rx[l].path}
  BY DEF DiskFull, sending
<1>2. rx'[l].pc = "end" /\ \A m \in Link : m # l => rx'[m] = rx[m]
  BY GoTypes DEF DiskFull, Finish
<1>3. CASE rx[l].path # q \/ rx[l].pc = "body"
  <2>1. q \in broken' <=> q \in broken
    BY <1>1, <1>3
  <2>2. rx[l].path # q \/ rx[l].pc \notin {"write", "record"}
    BY <1>3
  <2>3. rx'[l].path # q \/ rx'[l].pc \notin {"body", "write", "record"}
    BY <1>2
  <2>4. QED BY <1>1, <1>2, <2>1, <2>2, <2>3, PathElse
<1>4. CASE rx[l].path = q /\ rx[l].pc = "write"
  <2>1. broken' = broken \cup {q} /\ Putting(l, q)
    BY <1>1, <1>4 DEF Putting
  <2>2. \A m \in Link : Receiving(m, q)' => Receiving(m, q) /\ rx'[m] = rx[m]
    BY <1>2 DEF Receiving
  <2>3. \A m \in Link : Putting(m, q)' => Putting(m, q) /\ rx'[m] = rx[m] /\ held'[m] = held[m]
    BY <1>1, <1>2 DEF Putting
  <2>4. \A m \in Link : Recording(m, q)' <=> Recording(m, q)
    BY <1>2, <1>4 DEF Recording
  <2>5. Exposed(q) => Exposed(q)'
    BY <2>1 DEF Exposed
  <2>6. QED BY <1>1, <2>1, <2>2, <2>3, <2>4, <2>5, PathKept
<1>5. QED BY <1>1, <1>3, <1>4

\* The body is whole, and it alone is under the temporary name.
LEMMA PathReplace ==
  ASSUME Types, NEW l \in Link, NEW q \in Path, LinkInv(l),
         \A p \in Path : PathInv(p), Replace(l), tmp[rx[l].path] # None
  PROVE  PathInv(q)'
<1>1. PICK p \in Path, i \in Id :
            /\ p = rx[l].path /\ i = tmp[p]
            /\ file' = [file EXCEPT ![p] = i] /\ tmp' = [tmp EXCEPT ![p] = None]
            /\ rx' \in [Link -> Rx] /\ \A m \in Link : m # l => rx'[m] = rx[m]
            /\ rx'[l].pc = "record" /\ rx'[l].path = p /\ rx'[l].left = 0
  BY RenameTypes
<1>2. /\ UNCHANGED <<inode, entry, met, changed, held>>
      /\ rx[l].pc = "body" /\ rx[l].left = 0 /\ broken' = broken \ {p}
      /\ met \subseteq met' /\ changed \subseteq changed'
  BY <1>1 DEF Replace, sending
<1>3. file \in [Path -> Id \cup {None}] /\ tmp \in [Path -> Id \cup {None}] /\ rx[l] \in Rx
  BY DiskTypes, LinkTypes
<1>4. CASE q # p
  <2>1. file'[q] = file[q] /\ tmp'[q] = tmp[q] /\ (q \in broken' <=> q \in broken)
    BY <1>1, <1>2, <1>3, <1>4
  <2>2. rx'[l].path # q /\ rx[l].path # q
    BY <1>1, <1>4
  <2>3. QED BY <1>1, <1>2, <2>1, <2>2, PathElse
<1>5. CASE q = p
  <2>1. file'[p] = i /\ tmp'[p] = None /\ i # None /\ i[2] = p
    BY <1>1, <1>3 DEF PathInv, FilesInv
  <2>2. FilesInv(p)'
    <3>1. \A m \in Link : Receiving(m, p)' \/ Putting(m, p)' => rx'[m].at[2] = p
      BY <1>1 DEF PathInv, FilesInv, Receiving, Putting
    <3>2. QED BY <2>1, <3>1 DEF FilesInv
  <2>3. ASSUME p \notin met'
        PROVE  \A m \in Link : rx'[m].path = p /\ rx'[m].pc \in {"body", "write", "record"} => m = l
    <3>1. l \in Active(p) /\ \A m1, m2 \in Active(p) : m1 = m2
      BY <1>1, <1>2, <2>3 DEF PathInv, AloneInv, Active
    <3>2. QED BY <1>1, <3>1 DEF Active
  <2>4. ASSUME p \notin met', NEW m \in Link PROVE ~Receiving(m, p)' /\ ~Putting(m, p)'
    BY <1>1, <2>3, <2>4 DEF Receiving, Putting
  <2>5. AloneInv(p)'
    <3>1. ASSUME p \notin met' PROVE \A m1, m2 \in Active(p)' : m1 = m2
      <4>1. \A m \in Active(p)' : m = l
        BY <2>3, <3>1 DEF Active
      <4>2. QED BY <4>1
    <3>2. QED BY <2>4, <3>1 DEF AloneInv
  <2>6. ContentInv(p)'
    <3> SUFFICES ASSUME Quiet(p)' PROVE ContentInv(p)'
      BY DEF ContentInv
    <3>1. Quiet(p) /\ p \notin met' /\ p \notin met /\ <<l, p>> \notin changed
      BY <1>2 DEF Quiet
    <3>2. Receiving(l, p)
      BY <1>1, <1>2 DEF Receiving
    <3>3. PICK a \in 1..Last(l) : Files[l][a] = p /\ BytesOf(inode[i], l, a, rx[l].k)
      BY <1>1, <3>1, <3>2 DEF PathInv, ContentInv, Part
    <3>4. rx[l].k = Size[p]
      <4>1. PICK b \in 1..Last(l) :
              /\ Files[l][b] = rx[l].path
              /\ b \in Good(l) => rx[l].k + rx[l].left = SizeOf(l, b)
        BY <1>2 DEF LinkInv, Reading
      <4>2. b \in Good(l) /\ SizeOf(l, b) = Size[p]
        BY <1>1, <3>1, <4>1 DEF Good, SizeOf
      <4>3. QED BY <1>2, <1>3, <4>1, <4>2, SizeAssumption DEF Rx
    <3>5. Part(l, p, inode[file[p]], Size[p])'
      <4>1. Last(l)' = Last(l) /\ inode'[file'[p]] = inode[i]
        BY <1>2, <2>1 DEF Last
      <4>2. QED BY <3>3, <3>4, <4>1 DEF Part
    <3>6. Owner(l, p)'
      <4>1. \A m \in Link : Recording(m, p)' => l = m
        BY <2>3, <3>1 DEF Recording
      <4>2. Recording(l, p)'
        BY <1>1 DEF Recording
      <4>3. QED BY <4>1, <4>2 DEF Owner
    <3>7. p \notin broken' /\ file'[p] # None
      BY <1>2, <2>1
    <3>8. QED BY <2>4, <3>1, <3>5, <3>6, <3>7 DEF ContentInv
  <2>7. QED BY <1>5, <2>2, <2>5, <2>6 DEF PathInv
<1>6. QED BY <1>4, <1>5

\* The entry is recorded that came with the file.
LEMMA PathRecord ==
  ASSUME Types, NEW l \in Link, NEW q \in Path,
         \A p \in Path : PathInv(p), Record(l)
  PROVE  PathInv(q)'
<1>1. /\ UNCHANGED <<file, tmp, inode, held, broken, met, changed>> /\ rx[l].pc = "record"
      /\ met \subseteq met' /\ changed \subseteq changed'
      /\ entry' = [entry EXCEPT ![rx[l].path] = l]
  BY DEF Record, sending, disk
<1>2. PICK p \in Path : p = rx[l].path
  BY LinkTypes DEF Rx
<1>3. entry \in [Path -> Link \cup {None}]
  BY DiskTypes
<1>4. /\ \A m \in Link : m # l => rx'[m] = rx[m]
      /\ rx'[l].pc \notin {"body", "write", "record"}
  BY GoTypes DEF Record, Ready
<1>5. CASE q # p
  BY <1>1, <1>2, <1>3, <1>4, <1>5, PathElse
<1>6. CASE q = p
  <2>1. /\ \A m \in Link : Receiving(m, p)' => Receiving(m, p) /\ rx'[m] = rx[m]
        /\ \A m \in Link : Putting(m, p)' <=> Putting(m, p)
        /\ \A m \in Link : Putting(m, p)' => rx'[m] = rx[m]
        /\ \A m \in Link : Recording(m, p)' => Recording(m, p) /\ m # l
        /\ Recording(l, p)
    BY <1>1, <1>2, <1>4 DEF Receiving, Putting, Recording
  <2>2. (\A m \in Active(p)' : m \in Active(p)) /\ (Exposed(p)' <=> Exposed(p))
    BY <1>1, <2>1, AtPath DEF Exposed
  <2>3. FilesInv(p)'
    <3>1. FilesInv(p)
      BY DEF PathInv
    <3>2. \A m \in Link : Receiving(m, p)' \/ Putting(m, p)' => rx'[m].at[2] = p
      BY <2>1, <3>1 DEF FilesInv
    <3>3. QED BY <1>1, <3>1, <3>2 DEF FilesInv
  <2>4. AloneInv(p)'
    <3>1. AloneInv(p)
      BY DEF PathInv
    <3>2. p \notin met' => \A m \in Link : Receiving(m, p)' => rx'[m].at = tmp'[p] /\ tmp'[p] # None
      BY <1>1, <2>1, <3>1 DEF AloneInv
    <3>3. p \notin met' => \A m \in Link : Putting(m, p)' => rx'[m].at = file'[p] /\ file'[p] # None
      BY <1>1, <2>1, <3>1 DEF AloneInv
    <3>4. p \notin met' => \A m1, m2 \in Active(p)' : m1 = m2
      BY <1>1, <2>2, <3>1 DEF AloneInv
    <3>5. QED BY <3>2, <3>3, <3>4 DEF AloneInv
  <2>5. ContentInv(p)'
    <3> SUFFICES ASSUME Quiet(p)' PROVE ContentInv(p)'
      BY DEF ContentInv
    <3>1. Quiet(p) /\ p \notin met
      BY <1>1, QuietBefore
    <3>2. \A m \in Link : ~Receiving(m, p) /\ ~Putting(m, p) /\ (Recording(m, p) => m = l)
      <4>1. \A m \in Link : Receiving(m, p) \/ Putting(m, p) \/ Recording(m, p) => m = l
        BY <2>1, <3>1, AtPath DEF PathInv, AloneInv
      <4>2. QED BY <1>1, <4>1 DEF Receiving, Putting
    <3>3. \A m \in Link : ~Receiving(m, p)' /\ ~Putting(m, p)' /\ ~Recording(m, p)'
      BY <2>1, <3>2
    <3>4. file[p] # None
      BY <2>1, <3>1 DEF PathInv, ContentInv
    <3>5. ASSUME ~Exposed(p)'
          PROVE  \E o \in Link : (Part(o, p, inode[file[p]], Size[p]) /\ Owner(o, p))'
      <4>1. PICK o \in Link : Part(o, p, inode[file[p]], Size[p]) /\ Owner(o, p)
        BY <2>2, <3>1, <3>4, <3>5 DEF PathInv, ContentInv
      <4>2. Part(o, p, inode[file[p]], Size[p])'
        <5>1. Last(o)' = Last(o)
          BY <1>1 DEF Last
        <5>2. QED BY <1>1, <4>1, <5>1 DEF Part
      <4>3. Owner(o, p)'
        <5>1. o = l
          BY <2>1, <4>1 DEF Owner
        <5>2. entry'[p] = l
          BY <1>1, <1>2, <1>3
        <5>3. QED BY <3>3, <5>1, <5>2 DEF Owner
      <4>4. QED BY <4>2, <4>3
    <3>6. file'[p] # None /\ (p \in broken' => Size[p] < Threshold)
      BY <1>1, <3>1, <3>4 DEF PathInv, ContentInv
    <3>7. QED BY <3>3, <3>5, <3>6 DEF ContentInv
  <2>6. QED BY <1>6, <2>3, <2>4, <2>5 DEF PathInv
<1>7. QED BY <1>5, <1>6

\* Every other step of a receiver writes nothing, and it may give up.
LEMMA PathRest ==
  ASSUME Types, NEW l \in Link, NEW q \in Path, \A p \in Path : PathInv(p), Receiver(l),
         ~ReadStream(l), ~ReadData(l), ~Body(l), ~Write(l), ~Written(l), ~DiskFull(l),
         ~Record(l), ~(Replace(l) /\ tmp[rx[l].path] # None)
  PROVE  PathInv(q)'
<1>1. /\ UNCHANGED <<file, tmp, inode, held, broken, entry, met, changed>>
      /\ rx[l].pc \notin {"write", "record"}
      /\ met \subseteq met' /\ changed \subseteq changed'
  BY DEF Receiver, Reply, Ask, RejectStream, RejectData, ReadAck, ReadJunk, ReadEnd, Drain,
     BodyEnds, Replace, ReplaceFails, sending, disk
<1>2. /\ \A m \in Link : m # l => rx'[m] = rx[m]
      /\ rx'[l].pc \notin {"body", "write", "record"}
  <2>1. CASE \E pc \in {"ask", "msg", "end"} : Go(l, pc)
    BY <2>1, GoTypes
  <2>2. CASE RejectStream(l)
    <3>1. PICK s : s = wire[l][1].size
      OBVIOUS
    <3>2. PICK r : r = [rx[l] EXCEPT !.pc = "drain", !.left = s]
      OBVIOUS
    <3>3. rx' = [rx EXCEPT ![l] = r] /\ rx[l] \in Rx /\ rx \in [Link -> Rx]
      BY <2>2, <3>1, <3>2, LinkTypes, DiskTypes DEF RejectStream
    <3>4. rx'[l] = r /\ r.pc = "drain"
      BY <3>2, <3>3 DEF Rx
    <3>5. QED BY <3>3, <3>4
  <2>3. CASE Drain(l) /\ rx[l].left # 1
    <3>1. rx[l].left > 0
      BY <2>3 DEF Drain, Types, PlaceInv
    <3>2. QED BY <2>3, <3>1, CountTypes DEF Drain
  <2>4. QED BY <2>1, <2>2, <2>3
        DEF Receiver, Reply, Ask, RejectData, ReadAck, ReadJunk, ReadEnd, Drain,
            BodyEnds, Replace, ReplaceFails, Finish, Ready
<1>3. QED BY <1>1, <1>2, PathElse

\* The process ends: nobody writes any more, what was being written in place is
\* known to be torn, and no entry is left.
LEMMA PathCrash ==
  ASSUME Types, NEW p \in Path, PathInv(p), Crash
  PROVE  PathInv(p)'
<1>1. \A m \in Link : rx'[m].pc = "end"
  BY CrashTypes
<1>2. \A m \in Link : ~Receiving(m, p)' /\ ~Putting(m, p)' /\ ~Recording(m, p)'
  BY <1>1 DEF Receiving, Putting, Recording
<1>3. /\ UNCHANGED <<inode, file, tmp, met, changed>> /\ entry'[p] = None
      /\ (p \in broken' <=> p \in broken \/ Writing(p))
  BY DEF Crash
<1>4. FilesInv(p)'
  BY <1>2, <1>3 DEF PathInv, FilesInv
<1>5. AloneInv(p)'
  <2>1. \A m1, m2 \in Active(p)' : m1 = m2
    BY <1>2, AtPath
  <2>2. QED BY <1>2, <2>1 DEF AloneInv
<1>6. ContentInv(p)'
  <2> SUFFICES ASSUME Quiet(p)' PROVE ContentInv(p)'
    BY DEF ContentInv
  <2>1. Quiet(p)
    BY <1>3 DEF Quiet
  <2>2. p \in broken' => Size[p] < Threshold
    BY <1>3, <2>1, AtPath DEF PathInv, ContentInv
  <2>3. ASSUME file'[p] # None, ~Exposed(p)'
        PROVE  \E o \in Link : (Part(o, p, inode[file[p]], Size[p]) /\ Owner(o, p))'
    <3>1. ~Exposed(p)
      BY <1>3, <2>3 DEF Exposed
    <3>2. PICK o \in Link : Part(o, p, inode[file[p]], Size[p])
      BY <1>3, <2>1, <2>3, <3>1 DEF PathInv, ContentInv
    <3>3. Part(o, p, inode[file[p]], Size[p])'
      <4>1. Last(o)' = Last(o)
        BY DEF Last
      <4>2. QED BY <1>3, <3>2, <4>1 DEF Part
    <3>4. Owner(o, p)'
      BY <1>2, <1>3 DEF Owner
    <3>5. QED BY <3>3, <3>4
  <2>4. QED BY <1>2, <1>3, <2>2, <2>3 DEF ContentInv
<1>7. QED BY <1>4, <1>5, <1>6 DEF PathInv

\* Every step keeps every path.
LEMMA PathStep ==
  ASSUME Types, \A l \in Link : LinkInv(l) /\ FreshInv(l), \A p \in Path : PathInv(p),
         [Next]_vars, NEW q \in Path
  PROVE  PathInv(q)'
<1>1. met \subseteq met' /\ changed \subseteq changed'
  BY Remembers
<1>2. CASE UNCHANGED <<file, tmp, inode, held, broken, entry, rx>>
  <2>1. /\ \A m \in Link : Receiving(m, q)' => Receiving(m, q) /\ rx'[m] = rx[m]
        /\ \A m \in Link : Putting(m, q)' <=> Putting(m, q)
        /\ \A m \in Link : Recording(m, q)' <=> Recording(m, q)
    BY <1>2 DEF Receiving, Putting, Recording
  <2>2. Exposed(q) => Exposed(q)'
    BY <1>2, <2>1, AtPath DEF Exposed
  <2>3. QED BY <1>1, <1>2, <2>1, <2>2, PathKept
<1>3. CASE UNCHANGED vars
  BY <1>2, <1>3 DEF vars, disk
<1>4. ASSUME NEW l \in Link, Sender(l) \/ Cut(l)
      PROVE  PathInv(q)'
  BY <1>2, <1>4 DEF Sender, Announce, Open, Chunk, Close, Cut, disk
<1>5. ASSUME NEW l \in Link, Receiver(l)
      PROVE  PathInv(q)'
  BY <1>5, PathReadStream, PathReadData, PathBody, PathWrite, PathWritten, PathDiskFull,
     PathReplace, PathRecord, PathRest
<1>6. ASSUME NEW l \in Link, NEW p \in Path, Edit(l, p) \/ Remove(l, p)
      PROVE  PathInv(q)'
  BY <1>2, <1>6 DEF Edit, Remove, disk
<1>7. CASE Crash
  BY <1>7, PathCrash
<1>8. QED BY <1>3, <1>4, <1>5, <1>6, <1>7 DEF Next

\* The receiver has no files at first.
LEMMA PathInit == Init => (\A l \in Link : FreshInv(l)) /\ \A p \in Path : PathInv(p)
<1> SUFFICES ASSUME Init PROVE (\A l \in Link : FreshInv(l)) /\ \A p \in Path : PathInv(p)
  OBVIOUS
<1>1. Types
  BY TypesInit
<1>2. ASSUME NEW l \in Link PROVE FreshInv(l)
  <2>1. \A n \in 1..Last(l) : Files[l][n] \in Path
    BY <1>1, LinkTypes
  <2>2. \A p \in Path : Free(l, p)
    BY NotNone DEF Init, Free
  <2>3. wire[l] = <<>> /\ Len(wire[l]) = 0
    BY DEF Init
  <2>4. QED BY <2>1, <2>2, <2>3 DEF FreshInv
<1>3. ASSUME NEW p \in Path PROVE PathInv(p)
  <2>1. \A m \in Link : rx[m].pc \notin {"body", "write", "record"}
    BY DEF Init, Waiting, Ready
  <2>2. \A m \in Link : ~Receiving(m, p) /\ ~Putting(m, p) /\ ~Recording(m, p)
    BY <2>1 DEF Receiving, Putting, Recording
  <2>3. Active(p) = {} /\ file[p] = None /\ tmp[p] = None /\ entry[p] = None /\ p \notin broken
    BY <2>1 DEF Active, Init
  <2>4. QED BY <2>2, <2>3 DEF PathInv, FilesInv, AloneInv, ContentInv
<1>4. QED BY <1>2, <1>3

-----------------------------------------------------------------------------
(* Theorems                                                                *)

\* The invariant of the specification.
LEMMA InvHolds == Spec => []IInv
<1>1. Init => IInv
  BY TypesInit, FrameInit, LinkInit, PathInit DEF IInv
<1>2. IInv /\ [Next]_vars => IInv'
  <2> SUFFICES ASSUME IInv, [Next]_vars PROVE IInv'
    OBVIOUS
  <2>1. Types /\ Types'
    BY TypesStep DEF IInv
  <2>2. \A l \in Link : FrameInv(l)'
    BY FrameStep DEF IInv
  <2>3. \A l \in Link : SourceInv(l)'
    BY SourceStep DEF IInv
  <2>4. \A l \in Link : LinkInv(l)'
    BY <2>1, LinkStep DEF IInv
  <2>5. \A l \in Link : FreshInv(l)'
    BY <2>1, FreshStep DEF IInv
  <2>6. \A p \in Path : PathInv(p)'
    BY PathStep DEF IInv
  <2>7. QED BY <2>1, <2>2, <2>3, <2>4, <2>5, <2>6 DEF IInv
<1>3. QED BY <1>1, <1>2, PTL DEF Spec

\* The state of every transfer has its type, the next file of a link, the bytes
\* of a stream still to come and the announcements on its way included.
THEOREM TypesHold == Spec => []TypeOK
<1>1. IInv => TypeOK
  BY TypesImply DEF IInv
<1>2. QED BY <1>1, InvHolds, PTL

\* A reader that awaits a message finds one, over any number of files of any
\* sizes, accepted, rejected or cut off: each stream is read or drained by
\* exactly the bytes it was announced with, unless it was sent at another size
\* (_apply_incoming_stream, read_message).
THEOREM StaysInFrame == Spec => []InFrame
<1>1. IInv => InFrame
  BY NoJunk DEF IInv, InFrame, Heads
<1>2. QED BY <1>1, InvHolds, PTL

\* A streamed file at the receiver is whole at any moment, and one that came in
\* a message whenever it is not being written and was not broken off, however
\* many other files change, go or are cut off, whenever the disk is full or the
\* process ends, and however often the renaming fails: only a change of this
\* file while it was sent or a second reception of it at once excuses it
\* (recv_stream_to_disk, protocol.py; apply_remote, file_index.py).
THEOREM DamageLocal == Spec => []DamageStaysLocal
<1>1. IInv => DamageStaysLocal
  <2> SUFFICES ASSUME IInv, NEW p \in Path, file[p] # None, ~Exposed(p), p \notin met,
                      \A l \in Link : <<l, p>> \notin changed
               PROVE  Whole(inode[file[p]])
    BY DEF DamageStaysLocal
  <2>0. PICK l \in Link : Part(l, p, inode[file[p]], Size[p])
    BY DEF IInv, PathInv, ContentInv, Quiet
  <2>1. PICK n \in 1..Last(l) : Files[l][n] = p /\ BytesOf(inode[file[p]], l, n, Size[p])
    BY <2>0 DEF Part
  <2>2. PICK s \in Seq(Unit) : s = inode[file[p]]
    <3>1. file[p] \in Id /\ inode \in [Id -> Seq(Unit)]
      BY DiskTypes DEF IInv
    <3>2. QED BY <3>1
  <2>3. PICK z \in Nat \ {0} : z = Size[p]
    BY SizeAssumption
  <2>4. Len(s) = z /\ \A j \in 1..z : s[j] = ByteOf(l, n, j)
    BY <2>1, <2>2, <2>3 DEF BytesOf
  <2>5. s # <<>> /\ s[1] = ByteOf(l, n, 1) /\ 1 \in 1..Len(s)
    BY <2>4, EmptySeq
  <2>6. PICK u \in Unit : u = s[1] /\ u.size = z
    <3>1. s[1] \in Unit /\ ByteOf(l, n, 1).size = z
      BY <2>1, <2>3, <2>5, ElementOfSeq DEF ByteOf, SizeOf
    <3>2. QED BY <2>5, <3>1
  <2>7. \A k \in 1..z : [u EXCEPT !.t = "byte", !.k = k] = s[k]
    <3>1. u = ByteOf(l, n, 1)
      BY <2>5, <2>6
    <3>2. \A k \in 1..z : ByteFrom(u, k) = ByteOf(l, n, k)
      BY <3>1 DEF ByteFrom, ByteOf
    <3>3. ASSUME NEW k \in 1..z PROVE [u EXCEPT !.t = "byte", !.k = k] = s[k]
      <4>1. [u EXCEPT !.t = "byte", !.k = k] = ByteFrom(u, k)
        BY SentByte
      <4>2. s[k] = ByteFrom(u, k)
        BY <2>4, <3>2
      <4>3. QED BY <4>1, <4>2
    <3>4. QED BY <3>3
  <2>8. s = [k \in 1..z |-> [u EXCEPT !.t = "byte", !.k = k]]
    <3>1. s \in [1..z -> Unit]
      BY <2>4, LenProperties
    <3>2. PICK t : t = [k \in 1..z |-> [u EXCEPT !.t = "byte", !.k = k]]
      OBVIOUS
    <3>3. t = [k \in 1..z |-> s[k]]
      BY <2>7, <3>2
    <3>4. s = [k \in 1..z |-> s[k]]
      BY <3>1
    <3>5. QED BY <3>2, <3>3, <3>4
  <2>9. QED BY <2>2, <2>5, <2>6, <2>8 DEF Whole
<1>2. QED BY <1>1, InvHolds, PTL

\* With the same exceptions the entry recorded last and the file on disk come
\* from the same link (apply_remote after recv_stream_to_disk, and with the
\* content).
THEOREM EntryIsFiles == Spec => []EntryOfFile
<1>1. IInv => EntryOfFile
  <2> SUFFICES ASSUME IInv, NEW p \in Path, entry[p] # None, Active(p) = {}, ~Exposed(p),
                      p \notin met, \A l \in Link : <<l, p>> \notin changed
               PROVE  file[p] # None /\ inode[file[p]][1].by = entry[p]
    BY DEF EntryOfFile
  <2>1. file[p] # None
    BY DEF IInv, PathInv, ContentInv, Quiet
  <2>2. PICK l \in Link : Part(l, p, inode[file[p]], Size[p]) /\ Owner(l, p)
    BY <2>1 DEF IInv, PathInv, ContentInv, Quiet
  <2>3. \A m \in Link : ~Recording(m, p)
    BY DEF Active, Recording
  <2>4. entry[p] = l
    BY <2>2, <2>3 DEF Owner
  <2>5. inode[file[p]][1].by = l
    <3>1. PICK n \in 1..Last(l) : BytesOf(inode[file[p]], l, n, Size[p])
      BY <2>2 DEF Part
    <3>2. inode[file[p]][1] = ByteOf(l, n, 1)
      BY <3>1, SizeAssumption DEF BytesOf
    <3>3. QED BY <3>2 DEF ByteOf
  <2>6. QED BY <2>1, <2>4, <2>5
<1>2. QED BY <1>1, InvHolds, PTL
=============================================================================
