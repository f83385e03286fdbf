---------------------------- MODULE VectorClock ----------------------------
(***************************************************************************)
(* The version stamps of syncd (syncd/sync/vector_clock.py).  The code     *)
(* keeps a dict from node id to counter and reads a missing key as 0; here *)
(* a clock is total on Node, which is the same thing for every comparison. *)
(***************************************************************************)
EXTENDS Naturals

CONSTANT Node           \* the ids of the nodes that share a sync pair

Clock == [Node -> Nat]

\* The clock of a path nobody has ever indexed: the empty dict.
ZeroClock == [n \in Node |-> 0]

\* A step backward (variant).
Decrement(c, n) == [c EXCEPT ![n] = @ - 1]

\* increment(): the node's own component, one step forward.
Increment(c, n) == [c EXCEPT ![n] = @ + 1]

\* update(): the receive rule of Bayou, a component-wise maximum.  No code
\* path of the daemon calls it.
Update(c, d) == [n \in Node |-> IF c[n] >= d[n] THEN c[n] ELSE d[n]]

\* c -> d: every component <=, at least one <.
HappensBefore(c, d) ==
    /\ \A n \in Node : c[n] <= d[n]
    /\ \E n \in Node : c[n] < d[n]

Equals(c, d) == \A n \in Node : c[n] = d[n]

ConcurrentWith(c, d) ==
    ~Equals(c, d) /\ ~HappensBefore(c, d) /\ ~HappensBefore(d, c)

\* d has seen all that c has.
AtMost(c, d) == \A n \in Node : c[n] <= d[n]
=============================================================================
