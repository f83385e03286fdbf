------------------------------ MODULE MCDaemon ------------------------------
(***************************************************************************)
(* Instances of Daemon for TLC: two pairs, configurations that add, keep   *)
(* and drop one of them.                                                   *)
(***************************************************************************)
EXTENDS Daemon

CONSTANTS p, q

Configs == {<<p, q>>, <<q>>}

\* Replacements one after the other, with every failure of a start.
SerialEnv == {"skip", "fail", "invalid"}
=============================================================================
