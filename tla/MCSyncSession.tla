--------------------------- MODULE MCSyncSession ---------------------------
(***************************************************************************)
(* Instances of SyncSession for TLC.                                       *)
(***************************************************************************)
EXTENDS SyncSession

CONSTANTS a, b

\* p2p: each node opens sessions with the other.
BothWays == {<<a, b>>, <<b, a>>}

\* client-server: a is the client of b.
ClientOnly == {<<a, b>>}
=============================================================================
