-------------------------- MODULE MCStreamTransfer --------------------------
(***************************************************************************)
(* Instances of StreamTransfer for TLC: one peer pushes files while others  *)
(* are pulled from a second, the same ones in the other order.             *)
(***************************************************************************)
EXTENDS StreamTransfer

CONSTANTS push, pull, one, two

Links == {push, pull}
Pulls == {pull}
Paths == {one, two}
Lists == [l \in Links |-> IF l = push THEN <<one, two>> ELSE <<two, one>>]

\* one is sent in a message, two is streamed.
Sizes == [p \in Paths |-> IF p = one THEN 1 ELSE 2]

Everything == EnvKinds
=============================================================================
