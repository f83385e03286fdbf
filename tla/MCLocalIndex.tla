---------------------------- MODULE MCLocalIndex ----------------------------
(***************************************************************************)
(* Instances of LocalIndex for TLC: what the environment does in each run. *)
(***************************************************************************)
EXTENDS LocalIndex

\* Two paths, one of them in a directory, with restarts at any time.
WatchEnv ==
    {"write", "delete", "dir", "crash", "exclude", "learn", "peer", "pull"}

\* No restart and no crossing sessions, all the other races, and corruption.
HistoryEnv ==
    {"write", "delete", "early", "race", "learn", "peer", "pull", "rot", "verify"}

\* A user who edits while a daemon that had saved its index is down.
RestartEnv == {"write", "delete", "stop", "learn"}
=============================================================================
