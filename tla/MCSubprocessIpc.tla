--------------------------- MODULE MCSubprocessIpc ---------------------------
(***************************************************************************)
(* Instances of SubprocessIpc for TLC.                                     *)
(***************************************************************************)
EXTENDS SubprocessIpc

CONSTANTS start, r1, r2, s1, s2

Requests == {r1, r2}
StopCalls == {s1, s2}

\* s2 is the stop of the shutdown, or of a SIGHUP.
InHandlers == {start, r1, r2, s1}

Everything == EnvKinds
=============================================================================
