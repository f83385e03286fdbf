------------------------------ MODULE Exchange ------------------------------
(***************************************************************************)
(* What callers are promised of the channel to a provider binary           *)
(* (docs/provider-interface.md: "exactly one command at a time", "commands *)
(* are never pipelined"): one caller asks at a time and gets the answer to *)
(* its own command, or an error.  Only an abandoned command, whose answer  *)
(* is still to come, lets a later caller read another's answer.            *)
(***************************************************************************)
CONSTANT Call

VARIABLE phase

Phase == {"new", "asked", "answered", "misread", "failed", "abandoned"}

Become(c, p) == phase' = [phase EXCEPT ![c] = p]

Init == phase = [c \in Call |-> "new"]

Ask(c) ==
    /\ phase[c] = "new" /\ \A d \in Call : phase[d] # "asked"
    /\ Become(c, "asked")

Answer(c) == phase[c] = "asked" /\ Become(c, "answered")

Misread(c) ==
    /\ phase[c] = "asked" /\ \E d \in Call : phase[d] = "abandoned"
    /\ Become(c, "misread")

Fail(c) == phase[c] \in {"new", "asked"} /\ Become(c, "failed")

Abandon(c) == phase[c] = "asked" /\ Become(c, "abandoned")

Next == \E c \in Call : Ask(c) \/ Answer(c) \/ Misread(c) \/ Fail(c) \/ Abandon(c)

Spec == Init /\ [][Next]_phase
=============================================================================
