----------------------------- MODULE MCProvider -----------------------------
(***************************************************************************)
(* Instances of Provider for TLC: a provider and its successor.            *)
(***************************************************************************)
EXTENDS Provider

Modes == {"p2p", "server", "client"}

Everything == EnvKinds
=============================================================================
