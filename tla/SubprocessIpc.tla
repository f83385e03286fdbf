--------------------------- MODULE SubprocessIpc ---------------------------
(***************************************************************************)
(* The subprocess provider (providers/subprocess.py): the calls of one     *)
(* provider, the lock that lets them use the pipes one at a time, and the  *)
(* binary at the other end, which answers each command with one line, may  *)
(* refuse it, answer nonsense, hang or exit.                               *)
(*                                                                         *)
(* A call stands for its command.  What pause, resume, trigger and status  *)
(* do with an answer, and the binary's stderr, are left out.               *)
(***************************************************************************)
EXTENDS Naturals, Sequences, SequencesExt

CONSTANTS
    Request,            \* calls of pause, resume, trigger and status by the API
    Start,              \* the call of start
    Stops,              \* calls of stop
    Handled,            \* calls made in a handler of the API; the others are
                        \* those of the start, of SIGHUP and of the shutdown
    Env                 \* what may happen, see EnvKinds

EnvKinds ==
    {"exit",            \* the binary exits, or cannot be run
     "hang",            \* it neither answers nor exits any more
     "no",              \* it refuses a command
     "junk",            \* it answers what is no JSON
     "cancel",          \* the API closes and cancels its handlers
     "twice"}           \* stop is called again before it has returned

ASSUME CallAssumption ==
    /\ Start \notin Request \cup Stops /\ Request \cap Stops = {}
    /\ Request \subseteq Handled /\ Handled \subseteq Request \cup Stops \cup {Start}
    /\ Env \subseteq EnvKinds

Call == Request \cup Stops \cup {Start}

VARIABLES
    life,               \* what the manager makes of the provider
    closing,            \* the API server is closing
    proc,               \* _proc is not None
    lock,               \* _lock: the holder and those who wait, in order
    pc,                 \* where each call is
    got,                \* what it got for its command
    cut,                \* the stops that were cancelled
    child,              \* the binary
    inbox,              \* its stdin: commands
    outbox,             \* its stdout: answers
    killed,             \* it was killed while it was alive
    junk                \* it has answered nonsense

calls == <<life, closing, proc, lock, pc, got, cut>>
pipes == <<inbox, outbox>>
vars == <<calls, child, pipes, killed, junk>>

Answers == [call : Call, kind : {"yes", "no", "junk"}]

TypeOK ==
    /\ life \in {"new", "starting", "run", "failed", "dropped"}
    /\ closing \in BOOLEAN /\ proc \in BOOLEAN
    /\ lock \in Seq(Call) /\ IsInjective(lock)
    /\ \A n \in DOMAIN lock : pc[lock[n]] \in {"lock", "asked"}
    /\ pc \in [Call -> {"idle", "lock", "asked", "exit", "kill", "end", "done"}]
    /\ got \in [Call -> {"none", "own", "other", "error", "abandoned"}]
    /\ cut \subseteq Stops
    /\ child \in {"none", "up", "hung", "leaving", "dead"}
    /\ inbox \in Seq(Call) /\ outbox \in Seq(Answers)
    /\ killed \in BOOLEAN /\ junk \in BOOLEAN

Init ==
    /\ life = "new" /\ closing = FALSE /\ proc = FALSE
    /\ lock = <<>>
    /\ pc = [c \in Call |-> "idle"]
    /\ got = [c \in Call |-> "none"] /\ cut = {}
    /\ child = "none" /\ inbox = <<>> /\ outbox = <<>>
    /\ killed = FALSE /\ junk = FALSE

-----------------------------------------------------------------------------
(* Calls                                                                   *)

\* The lock, when c lets go of it or no longer waits for it.
Without(c) == RemoveAt(lock, CHOOSE n \in DOMAIN lock : lock[n] = c)

Await(c) ==
    /\ pc' = [pc EXCEPT ![c] = "lock"]
    /\ lock' = Append(lock, c)

Spawn ==
    /\ life = "new"
    /\ life' = "starting" /\ proc' = TRUE /\ child' = "up"
    /\ Await(Start)
    /\ UNCHANGED <<closing, got, cut, pipes, killed, junk>>

SpawnFails ==
    /\ "exit" \in Env /\ life = "new"
    /\ life' = "failed"
    /\ UNCHANGED <<closing, proc, lock, pc, got, cut, child, pipes, killed, junk>>

Invoke(c) ==
    /\ life = "run" /\ ~closing /\ pc[c] = "idle"
    /\ Await(c)
    /\ UNCHANGED <<life, closing, proc, got, cut, child, pipes, killed, junk>>

\* stop_all, when a configuration is replaced or, the API having closed, at
\* the end.
Stop(s) ==
    /\ life = "run" /\ pc[s] = "idle"
    /\ closing => s \notin Handled
    /\ "twice" \in Env \/ \A t \in Stops : pc[t] \in {"idle", "done"}
    /\ IF proc THEN Await(s) ELSE pc' = [pc EXCEPT ![s] = "done"] /\ UNCHANGED lock
    /\ UNCHANGED <<life, closing, proc, got, cut, child, pipes, killed, junk>>

\* A variant: the lock is not released.
RaiseLocked(c) ==
    /\ pc' = [pc EXCEPT ![c] = IF c \in Stops THEN "kill" ELSE "done"]
    /\ got' = [got EXCEPT ![c] = "error"]
    /\ life' = IF c = Start THEN "failed" ELSE life
    /\ UNCHANGED lock

\* The exception leaves the lock; stop() catches it and kills.
Raise(c) ==
    /\ pc' = [pc EXCEPT ![c] = IF c \in Stops THEN "kill" ELSE "done"]
    /\ got' = [got EXCEPT ![c] = "error"]
    /\ life' = IF c = Start THEN "failed" ELSE life
    /\ lock' = Without(c)

\* A variant: no lock.
Enters(c) == pc[c] = "lock"
HasLock(c) == pc[c] = "lock" /\ Head(lock) = c

\* What a dead binary is sent is lost.
Send(c) ==
    /\ HasLock(c) /\ proc
    /\ pc' = [pc EXCEPT ![c] = "asked"]
    /\ inbox' = IF child = "dead" THEN inbox ELSE Append(inbox, c)
    /\ UNCHANGED <<life, closing, proc, lock, got, cut, child, outbox, killed, junk>>

\* There is no process, or the pipe is broken.
SendFails(c) ==
    /\ HasLock(c) /\ (~proc \/ child = "dead")
    /\ Raise(c)
    /\ UNCHANGED <<closing, proc, cut, child, pipes, killed, junk>>

\* A variant: stop() returns when its command is answered.
AfterStopSoon == "end"
\* A variant: and kills.
AfterStopHard == "kill"
\* It waits for the process, unless another stop has forgotten it: then the
\* wait raises, and so does the kill.
AfterStop == IF proc THEN "exit" ELSE "kill"

\* readline returns the next answer, whosever it is.  Only start looks at "ok".
Read(c) ==
    /\ pc[c] = "asked" /\ outbox # <<>>
    /\ outbox' = Tail(outbox)
    /\ IF Head(outbox).kind = "junk" \/ (c = Start /\ Head(outbox).kind = "no")
       THEN Raise(c)
       ELSE /\ pc' = [pc EXCEPT ![c] = IF c \in Stops THEN AfterStop ELSE "done"]
            /\ got' = [got EXCEPT ![c] = IF Head(outbox).call = c THEN "own" ELSE "other"]
            /\ life' = IF c = Start THEN "run" ELSE life
            /\ lock' = Without(c)
    /\ UNCHANGED <<closing, proc, cut, child, inbox, killed, junk>>

ReadFails(c) ==
    /\ pc[c] = "asked" /\ outbox = <<>> /\ child = "dead"
    /\ Raise(c)
    /\ UNCHANGED <<closing, proc, cut, child, pipes, killed, junk>>

\* stop() goes on: the process has exited, or is killed, and is forgotten.
Exited(s) ==
    /\ pc[s] = "exit" /\ child = "dead"
    /\ pc' = [pc EXCEPT ![s] = "end"]
    /\ UNCHANGED <<life, closing, proc, lock, got, cut, child, pipes, killed, junk>>

Kill(s) ==
    /\ pc[s] = "kill"
    /\ pc' = [pc EXCEPT ![s] = "end"]
    /\ IF proc THEN child' = "dead" /\ inbox' = <<>> ELSE UNCHANGED <<child, inbox>>
    /\ killed' = (killed \/ (proc /\ child # "dead"))
    /\ UNCHANGED <<life, closing, proc, lock, got, cut, outbox, junk>>

Forget(s) ==
    /\ pc[s] = "end"
    /\ pc' = [pc EXCEPT ![s] = "done"]
    /\ proc' = FALSE
    /\ UNCHANGED <<life, closing, lock, got, cut, child, pipes, killed, junk>>

\* stop_all clears its list, unless it was cancelled.
Drop ==
    /\ life = "run" /\ \E s \in Stops \ cut : pc[s] = "done"
    /\ life' = "dropped"
    /\ UNCHANGED <<closing, proc, lock, pc, got, cut, child, pipes, killed, junk>>

Close ==
    /\ "cancel" \in Env /\ life \in {"starting", "run"} /\ ~closing
    /\ closing' = TRUE
    /\ UNCHANGED <<life, proc, lock, pc, got, cut, child, pipes, killed, junk>>

\* The CancelledError leaves the lock.  It is no Exception: stop() neither
\* waits nor kills, but forgets the process, and start_all drops the provider.
Cancel(c) ==
    /\ closing
    /\ pc[c] \in {"lock", "asked"} \/ (c \in Stops /\ pc[c] = "exit")
    /\ pc' = [pc EXCEPT ![c] = IF c \in Stops THEN "end" ELSE "done"]
    /\ got' = [got EXCEPT ![c] = CASE pc[c] = "asked" -> "abandoned"
                                   [] pc[c] = "lock" -> "error"
                                   [] OTHER -> @]
    /\ lock' = IF pc[c] = "exit" THEN lock ELSE Without(c)
    /\ cut' = cut \cup (Stops \cap {c})
    /\ life' = IF c = Start THEN "failed" ELSE life
    /\ UNCHANGED <<closing, proc, child, pipes, killed, junk>>

-----------------------------------------------------------------------------
(* The binary                                                              *)

\* It answers its next command; told to stop it leaves, whatever it answers.
Reply(kind) ==
    /\ child = "up" /\ inbox # <<>>
    /\ inbox' = Tail(inbox)
    /\ outbox' = Append(outbox, [call |-> Head(inbox), kind |-> kind])
    /\ child' = IF Head(inbox) \in Stops THEN "leaving" ELSE child
    /\ junk' = (junk \/ kind = "junk")
    /\ UNCHANGED <<calls, killed>>

Refuse == "no" \in Env /\ inbox # <<>> /\ Head(inbox) \notin Stops /\ Reply("no")
Babble == "junk" \in Env /\ Reply("junk")

Exit ==
    /\ child = "leaving" \/ ("exit" \in Env /\ child = "up")
    /\ child' = "dead" /\ inbox' = <<>>
    /\ UNCHANGED <<calls, outbox, killed, junk>>

Hang ==
    /\ "hang" \in Env /\ child \in {"up", "leaving"}
    /\ child' = "hung"
    /\ UNCHANGED <<calls, pipes, killed, junk>>

-----------------------------------------------------------------------------
Goes(c) == Send(c) \/ SendFails(c) \/ Read(c) \/ ReadFails(c)

Ends(s) == Exited(s) \/ Kill(s) \/ Forget(s)

Next ==
    \/ Spawn \/ SpawnFails
    \/ \E c \in Request : Invoke(c)
    \/ \E c \in Handled : Cancel(c)
    \/ \E s \in Stops : Stop(s) \/ Ends(s)
    \/ \E c \in Call : Goes(c)
    \/ Drop \/ Close
    \/ Reply("yes") \/ Refuse \/ Babble \/ Exit \/ Hang

Spec == Init /\ [][Next]_vars

\* The event loop goes on with each call that can; a binary that does not hang
\* answers, and exits when it has been told to.
Fairness ==
    /\ \A c \in Call : WF_vars(Goes(c))
    /\ \A s \in Stops : WF_vars(Ends(s))
    /\ WF_vars(Reply("yes"))
    /\ WF_vars(child = "leaving" /\ Exit)

FairSpec == Spec /\ Fairness

-----------------------------------------------------------------------------
(* Properties                                                              *)

PhaseOf(c) ==
    CASE got[c] = "own" -> "answered"
      [] got[c] = "other" -> "misread"
      [] got[c] = "error" -> "failed"
      [] got[c] = "abandoned" -> "abandoned"
      [] got[c] = "none" -> IF pc[c] = "asked" THEN "asked" ELSE "new"

E == INSTANCE Exchange WITH phase <- [c \in Call |-> PhaseOf(c)]

\* The calls implement Exchange: however they cross with each other, with a
\* stop and with the end of the binary, one command is out at a time and each
\* caller gets the answer to its own, unless a call was cancelled (_send).
Exclusive == E!Spec

\* The binary has been told to stop.
Told ==
    \/ child \in {"leaving", "hung"}
    \/ \E n \in DOMAIN inbox : inbox[n] \in Stops

\* When stop() has returned there is no process left, also when two of them
\* crossed, the binary had exited before or answered nonsense.  Only a stop()
\* that was cancelled in its handler leaves one: it forgets a living process,
\* which no later stop() waits for or kills.  That one has at least been told
\* to leave, unless the stop() was still waiting for the lock (stop).
StopLeavesNone ==
    (child # "dead" /\ \E s \in Stops : pc[s] = "done") =>
        cut # {} /\ (Told \/ \E s \in cut : got[s] = "error")

\* stop() kills no binary that keeps to the protocol: one that is still
\* flushing its state is waited for, also when the answer stop() read was
\* another's or a second stop() meets the binary already leaving (stop).
KilledForJunk == killed => junk

\* Every call comes to an end, unless the binary hangs: then the lock stays
\* with the call that waits for its answer, and stop() waits behind it.
CallsEnd == \A c \in Call : pc[c] # "idle" ~> (pc[c] = "done" \/ child = "hung")
=============================================================================
