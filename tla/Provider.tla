------------------------------ MODULE Provider ------------------------------
(***************************************************************************)
(* The life of the built-in providers of one pair (providers/_common.py,   *)
(* p2p.py, client_server.py) and the index file they share                 *)
(* (FileIndex.load and save): start, pause, resume, trigger, stop, crash   *)
(* and the start of the next provider.                                     *)
(*                                                                         *)
(* A provider is a number, in the order of their making.  Its coroutines   *)
(* are the task of its loop, the watch and the verify task, which stop()   *)
(* knows, and the rounds of trigger() and the handlers of connections,     *)
(* which nobody knows.  A save is a job of a worker thread: it goes on     *)
(* when the coroutine that asked for it is cancelled.                      *)
(***************************************************************************)
EXTENDS Naturals, Sequences, FiniteSetsExt

CONSTANTS
    Mode,               \* some of "p2p", "server", "client"
    MaxInstance,        \* how many providers are made
    MaxImage,           \* how often the index changes
    MaxCalls,           \* triggered rounds and connections, together
    Parts,              \* in how many writes an index is saved
    Env                 \* what may happen, see EnvKinds

EnvKinds ==
    {"bind",            \* the port is taken
     "grow",            \* save() meets a dict that is growing and raises
     "watch",           \* the watch loop raises
     "crash"}

ASSUME ConstantsAssumption ==
    /\ Mode \subseteq {"p2p", "server", "client"} /\ Mode # {}
    /\ MaxInstance \in Nat \ {0} /\ MaxImage \in Nat /\ MaxCalls \in Nat
    /\ Parts \in Nat \ {0, 1}
    /\ Env \subseteq EnvKinds

Instance == 1..MaxInstance
Image == 0..MaxImage                \* 0 is an empty index
TasksOfP2P == <<"loop", "watch">>   \* a variant without the verify loop
Tasks == <<"loop", "watch", "verify">>
Round == {"loop", "extra"}          \* what opens sessions
Saver == {"init", "loop", "watch", "extra", "conn"}
Coroutine == Saver \cup {"verify"}

Hole == MaxImage + 1                \* never written, or of no image
NoJob == [at |-> "none", image |-> 0, done |-> 0, met |-> FALSE]

VARIABLES
    mode,               \* the role of the pair's providers
    life,               \* where start() and stop() of each provider are
    next,               \* the task stop() cancels next, as an index of Tasks
    calls,              \* how many calls there have been
    listed,             \* the provider the manager knows, or 0
    state,              \* _state
    paused,             \* ~_paused.is_set()
    since,              \* rounds the loop began since the pause
    open,               \* _server is not None
    co,                 \* what each coroutine does
    memory,             \* _index._entries
    job,                \* the save of each coroutine
    file,               \* .synak/index.json
    last,               \* how many images there have been
    spoilt              \* saves have met, failed or died since the last good one

procs == <<life, next, calls, listed, state, paused, since, open, co>>
store == <<memory, job, file, last, spoilt>>
vars == <<mode, procs, store>>

TypeOK ==
    /\ mode \in Mode
    /\ life \in [Instance -> {"none", "load", "save", "bind", "run", "close",
                              "cancel", "stopped", "failed", "gone"}]
    /\ next \in [Instance -> 1..(Len(Tasks) + 1)]
    /\ listed \in 0..MaxInstance /\ calls \in 0..MaxCalls
    /\ state \in [Instance -> {"stopped", "idle", "syncing", "paused", "error"}]
    /\ paused \in [Instance -> BOOLEAN]
    /\ since \in [Instance -> Nat]
    /\ open \in [Instance -> BOOLEAN]
    /\ co \in [Instance -> [Coroutine -> {"none", "ready", "park", "busy", "save", "saved",
                                          "close", "sleep", "end", "dead"}]]
    /\ memory \in [Instance -> Image]
    /\ job \in [Instance -> [Saver -> [at : {"none", "open", "dump"},
                                       image : Image, done : 0..Parts, met : BOOLEAN]]]
    /\ file \in [there : BOOLEAN, data : Seq(0..Hole)] /\ Len(file.data) <= Parts
    /\ last \in Image
    /\ spoilt \in BOOLEAN

Init ==
    /\ mode \in Mode
    /\ life = [i \in Instance |-> "none"]
    /\ next = [i \in Instance |-> 1]
    /\ listed = 0 /\ calls = 0
    /\ state = [i \in Instance |-> "stopped"]
    /\ paused = [i \in Instance |-> FALSE]
    /\ since = [i \in Instance |-> 0]
    /\ open = [i \in Instance |-> FALSE]
    /\ co = [i \in Instance |-> [c \in Coroutine |-> "none"]]
    /\ memory = [i \in Instance |-> 0]
    /\ job = [i \in Instance |-> [c \in Saver |-> NoJob]]
    /\ file = [there |-> FALSE, data |-> <<>>]
    /\ last = 0
    /\ spoilt = FALSE

Alive(i, c) == co[i][c] \notin {"none", "end", "dead"}
Saving == {s \in Instance \X Saver : job[s[1]][s[2]].at # "none"}

-----------------------------------------------------------------------------
(* FileIndex.save, in a worker thread                                      *)

\* open(..., "w") truncates the file; the entries are copied afterwards.
Truncate(i, c) ==
    /\ job' = [k \in Instance |-> [d \in Saver |->
                 IF k = i /\ d = c
                 THEN [NoJob EXCEPT !.at = "open", !.met = (Saving # {})]
                 ELSE IF job[k][d].at = "none" THEN NoJob
                 ELSE [job[k][d] EXCEPT !.met = TRUE]]]
    /\ file' = [there |-> TRUE, data |-> <<>>]

\* The coroutine c begins a save, of the index as it will be found.
BeginSave(i, c) ==
    /\ c \in Saver \ {"watch"} /\ co[i][c] = "busy"
    /\ co' = [co EXCEPT ![i][c] = "save"]
    /\ Truncate(i, c)
    /\ UNCHANGED <<mode, calls, life, next, listed, state, paused, since, open,
                   memory, last, spoilt>>

\* A p2p round goes on with its next peer.
Saved(i, c) ==
    /\ co' = IF co[i][c] # "save" THEN co
             ELSE [co EXCEPT ![i][c] = CASE c = "init" -> "none"
                                         [] c = "watch" -> "ready"
                                         [] c \in Round /\ mode = "p2p" -> "busy"
                                         [] OTHER -> "saved"]
    /\ life' = IF c = "init" /\ life[i] = "save" THEN [life EXCEPT ![i] = "bind"]
               ELSE life

\* Each thread writes where its own file handle stands, not at the end (variant).
PutLast(data, k, x) == Append(data, x)
Put(data, k, x) ==
    [n \in 1..Max({Len(data), k}) |->
        IF n = k THEN x ELSE IF n <= Len(data) THEN data[n] ELSE Hole]

Copy(i, c) ==
    /\ job[i][c].at = "open"
    /\ job' = [job EXCEPT ![i][c] = [@ EXCEPT !.at = "dump", !.done = 1,
                                             !.image = memory[i]]]
    /\ file' = [file EXCEPT !.data = Put(@, 1, memory[i])]
    /\ UNCHANGED <<mode, procs, memory, last, spoilt>>

\* A variant: the entries are read while they are written.
ImageLive(i, c) == memory[i]
ImageOf(i, c) == job[i][c].image

\* The next part.  After the last the coroutine, if it still waits, goes on;
\* a save that met no other leaves a good file.
Write(i, c) ==
    /\ job[i][c].at = "dump"
    /\ LET k == job[i][c].done + 1 IN
       /\ file' = [file EXCEPT !.data = Put(@, k, ImageOf(i, c))]
       /\ IF k < Parts
          THEN /\ job' = [job EXCEPT ![i][c].done = k]
               /\ UNCHANGED <<spoilt, co, life>>
          ELSE /\ job' = [job EXCEPT ![i][c] = NoJob]
               /\ spoilt' = job[i][c].met
               /\ Saved(i, c)
    /\ UNCHANGED <<mode, calls, next, listed, state, paused, since, open,
                   memory, last>>

-----------------------------------------------------------------------------
(* Rounds: _run_sync_round, _run_client_session                            *)

\* pc of a round that is over
Over(c) == IF c = "loop" THEN "sleep" ELSE "none"

\* "close": it is cancelled, and awaits the end of its connection.
InRound(i, c) == co[i][c] \in {"busy", "save", "saved", "close"}

BeginRound(i, c) ==
    /\ co' = [co EXCEPT ![i][c] = "busy"]
    /\ state' = [state EXCEPT ![i] = "syncing"]
    /\ since' = IF c = "loop" /\ paused[i] THEN [since EXCEPT ![i] = @ + 1] ELSE since

\* A variant: the loop waits before its first round only.
LoopTurnOnce(i) ==
    /\ co[i]["loop"] \in {"ready", "sleep"}
    /\ BeginRound(i, "loop")
    /\ UNCHANGED <<mode, calls, life, next, listed, paused, open, store>>

\* A turn of the loop, which waits for _paused before every round.  A loop
\* that was waiting when resume() came goes on whatever happens meanwhile.
LoopTurn(i) ==
    /\ co[i]["loop"] \in {"ready", "sleep"}
    /\ IF co[i]["loop"] = "sleep" /\ paused[i]
       THEN co' = [co EXCEPT ![i]["loop"] = "park"] /\ UNCHANGED <<state, since>>
       ELSE BeginRound(i, "loop")
    /\ UNCHANGED <<mode, calls, life, next, listed, paused, open, store>>

ExtraRound(i) ==
    /\ co[i]["extra"] = "ready"
    /\ BeginRound(i, "extra")
    /\ UNCHANGED <<mode, calls, life, next, listed, paused, open, store>>

\* A variant: a round leaves the state as it is.
EndRoundSilently(i, c) ==
    /\ c \in Round /\ co[i][c] \in {"busy", "saved"}
    /\ co' = [co EXCEPT ![i][c] = Over(c)]
    /\ UNCHANGED <<mode, calls, life, next, listed, paused, state, since, open,
                   store>>

\* A session of a client that gets no HELLO returns without setting the state.
EndRound(i, c) ==
    /\ c \in Round /\ co[i][c] \in {"busy", "saved"}
    /\ co' = [co EXCEPT ![i][c] = Over(c)]
    /\ \/ state' = [state EXCEPT ![i] = "idle"]
       \/ mode = "client" /\ state' = [state EXCEPT ![i] = "error"]
       \/ mode = "client" /\ co[i][c] = "busy" /\ UNCHANGED state
    /\ UNCHANGED <<mode, calls, life, next, listed, paused, since, open, store>>

\* A session learns something, and so does a handler.
Learn(i, c) ==
    /\ c \in Round \cup {"conn"} /\ co[i][c] = "busy" /\ last < MaxImage
    /\ last' = last + 1
    /\ memory' = [memory EXCEPT ![i] = last']
    /\ UNCHANGED <<mode, procs, job, file, spoilt>>

\* save() raises before it has written anything.  A p2p round goes on with
\* its next peer all the same; nothing catches the exception of the watch loop.
SaveFails(i, c) ==
    /\ "grow" \in Env /\ c # "init" /\ job[i][c].at = "open"
    /\ job' = [job EXCEPT ![i][c] = NoJob]
    /\ spoilt' = TRUE
    /\ IF co[i][c] # "save" THEN UNCHANGED <<co, state>>
       ELSE IF c \in Round /\ mode = "client"
       THEN /\ co' = [co EXCEPT ![i][c] = Over(c)]
            /\ state' = [state EXCEPT ![i] = "error"]
       ELSE /\ co' = [co EXCEPT ![i][c] = CASE c = "watch" -> "dead"
                                            [] c = "conn" -> "none"
                                            [] OTHER -> "busy"]
            /\ UNCHANGED state
    /\ UNCHANGED <<mode, calls, life, next, listed, paused, since, open,
                   memory, file, last>>

-----------------------------------------------------------------------------
(* The other coroutines                                                    *)

\* A batch of the watch loop changes the index and asks for a save.
Batch(i) ==
    /\ co[i]["watch"] = "ready" /\ last < MaxImage
    /\ last' = last + 1
    /\ memory' = [memory EXCEPT ![i] = last']
    /\ co' = [co EXCEPT ![i]["watch"] = "save"]
    /\ Truncate(i, "watch")
    /\ UNCHANGED <<mode, calls, life, next, listed, state, paused, since, open,
                   spoilt>>

\* A file vanishes or cannot be read: nothing catches it.
WatchFails(i) ==
    /\ "watch" \in Env /\ co[i]["watch"] = "ready"
    /\ co' = [co EXCEPT ![i]["watch"] = "dead"]
    /\ UNCHANGED <<mode, calls, life, next, listed, state, paused, since, open,
                   store>>

Accept(i) ==
    /\ open[i] /\ ~Alive(i, "conn")
    /\ calls < MaxCalls /\ calls' = calls + 1
    /\ co' = [co EXCEPT ![i]["conn"] = "busy"]
    /\ UNCHANGED <<mode, life, next, listed, state, paused, since, open,
                   store>>

EndConn(i) ==
    /\ co[i]["conn"] \in {"busy", "saved"}
    /\ co' = [co EXCEPT ![i]["conn"] = "none"]
    /\ UNCHANGED <<mode, calls, life, next, listed, state, paused, since, open,
                   store>>

-----------------------------------------------------------------------------
(* start()                                                                 *)

Whole(data) == Len(data) = Parts /\ \E x \in Image : \A n \in 1..Parts : data[n] = x

\* apply_config and the start of the daemon come here when the provider
\* before this one has stopped, failed or died.
Begin(i) ==
    /\ life[i] = "none" /\ listed = 0
    /\ \A k \in 1..(i - 1) : life[k] \in {"stopped", "failed", "gone"}
    /\ life' = [life EXCEPT ![i] = "load"]
    /\ UNCHANGED <<mode, calls, next, listed, state, paused, since, open, co,
                   store>>

\* _init_index: load, and a scan that may find changes.
Load(i) ==
    /\ life[i] = "load"
    /\ \/ ~file.there /\ memory' = [memory EXCEPT ![i] = 0] /\ last' = last
       \/ /\ file.there /\ Whole(file.data)
          /\ memory' = [memory EXCEPT ![i] = file.data[1]] /\ last' = last
       \/ /\ file.there => Whole(file.data)
          /\ last < MaxImage /\ last' = last + 1
          /\ memory' = [memory EXCEPT ![i] = last']
    /\ life' = [life EXCEPT ![i] = "save"]
    /\ co' = [co EXCEPT ![i]["init"] = "busy"]
    /\ UNCHANGED <<mode, calls, next, listed, state, paused, since, open, job,
                   file, spoilt>>

\* json.load raises: the manager logs it and drops the provider.
LoadFails(i) ==
    /\ life[i] = "load" /\ file.there /\ ~Whole(file.data)
    /\ life' = [life EXCEPT ![i] = "failed"]
    /\ UNCHANGED <<mode, calls, next, listed, state, paused, since, open, co,
                   store>>

\* The tasks created by start().  The loop of a server only waits for its
\* server to be closed.
Created(i, some) ==
    [co EXCEPT ![i] = [c \in Coroutine |->
        IF c \notin some THEN @[c] ELSE IF c = "watch" THEN "ready" ELSE "sleep"]]

WatchAndVerify == {"watch", "verify"}
AllTasks == IF mode = "server" THEN WatchAndVerify ELSE WatchAndVerify \cup {"loop"}

\* The port is bound, or none is needed, and the manager lists the provider.
Bind(i) ==
    /\ life[i] = "bind"
    /\ life' = [life EXCEPT ![i] = "run"]
    /\ listed' = i
    /\ open' = [open EXCEPT ![i] = mode # "client"]
    /\ state' = [state EXCEPT ![i] = "idle"]
    /\ co' = Created(i, AllTasks)
    /\ UNCHANGED <<mode, calls, next, paused, since, store>>

\* A server is idle and has its watch and verify tasks before it binds.
BindFails(i) ==
    /\ "bind" \in Env /\ life[i] = "bind" /\ mode # "client"
    /\ life' = [life EXCEPT ![i] = "failed"]
    /\ IF mode = "server"
       THEN /\ co' = Created(i, WatchAndVerify)
            /\ state' = [state EXCEPT ![i] = "idle"]
       ELSE UNCHANGED <<co, state>>
    /\ UNCHANGED <<mode, calls, next, listed, paused, since, open, store>>

-----------------------------------------------------------------------------
(* pause(), resume(), trigger() of the provider the manager lists          *)

Pause(i) ==
    /\ listed = i
    /\ paused' = [paused EXCEPT ![i] = TRUE]
    /\ state' = [state EXCEPT ![i] = "paused"]
    /\ UNCHANGED <<mode, calls, life, next, listed, since, open, co, store>>

\* A variant: the flag is set and no waiter woken.
WokenNot(i) == co

\* Event.set() makes every waiter runnable.
Woken(i) == [co EXCEPT ![i] = [c \in Coroutine |->
                                IF @[c] = "park" THEN "ready" ELSE @[c]]]

Resume(i) ==
    /\ listed = i
    /\ paused' = [paused EXCEPT ![i] = FALSE]
    /\ since' = [since EXCEPT ![i] = 0]
    /\ state' = [state EXCEPT ![i] = "idle"]
    /\ co' = Woken(i)
    /\ UNCHANGED <<mode, calls, life, next, listed, open, store>>

Trigger(i) ==
    /\ listed = i /\ mode # "server" /\ ~Alive(i, "extra")
    /\ calls < MaxCalls /\ calls' = calls + 1
    /\ co' = [co EXCEPT ![i]["extra"] = "ready"]
    /\ UNCHANGED <<mode, life, next, listed, state, paused, since, open,
                   store>>

-----------------------------------------------------------------------------
(* stop()                                                                  *)

Stop(i) ==
    /\ life[i] = "run"
    /\ life' = [life EXCEPT ![i] = "close"]
    /\ state' = [state EXCEPT ![i] = "stopped"]
    /\ open' = [open EXCEPT ![i] = FALSE]
    /\ UNCHANGED <<mode, calls, next, listed, paused, since, co, store>>

\* wait_closed returns: at once up to Python 3.11, later when the connections
\* have ended (Drained).
Drained(i) == ~Alive(i, "conn")

Closed(i) ==
    /\ life[i] = "close"
    /\ life' = [life EXCEPT ![i] = "cancel"]
    /\ UNCHANGED <<mode, calls, next, listed, state, paused, since, open, co,
                   store>>

\* A variant: a task is awaited without having been cancelled.
EndedAlone(i, t) == co[i][t] \in {"none", "end"}
EndedCancelled(i, t) == TRUE

\* One task is cancelled and awaited.  A round that is cut short in a session
\* awaits wait_closed in its finally before it ends, and then sets the state; a
\* task that had died raises its exception out of stop().
Cancel(i) ==
    /\ life[i] = "cancel" /\ next[i] <= Len(Tasks)
    /\ EndedCancelled(i, Tasks[next[i]])
    /\ LET t == Tasks[next[i]] IN
       IF co[i][t] = "dead"
       THEN /\ life' = [life EXCEPT ![i] = "stopped"]
            /\ UNCHANGED <<next, co, state>>
       ELSE \/ /\ next' = [next EXCEPT ![i] = @ + 1]
               /\ co' = [co EXCEPT ![i][t] = IF @ = "none" THEN @ ELSE "end"]
               /\ state' = IF t = "loop" /\ InRound(i, t)
                           THEN [state EXCEPT ![i] = "stopped"] ELSE state
               /\ UNCHANGED life
            \/ /\ t = "loop" /\ InRound(i, t) /\ co[i][t] # "close"
               /\ co' = [co EXCEPT ![i][t] = "close"]
               /\ UNCHANGED <<life, next, state>>
    /\ UNCHANGED <<mode, calls, listed, paused, since, open, store>>

Cancelled(i) ==
    /\ life[i] = "cancel" /\ next[i] > Len(Tasks)
    /\ life' = [life EXCEPT ![i] = "stopped"]
    /\ UNCHANGED <<mode, calls, next, listed, state, paused, since, open, co,
                   store>>

\* stop_all drops its providers when the last of them has stopped.
Drop(i) ==
    /\ listed = i /\ life[i] = "stopped"
    /\ listed' = 0
    /\ UNCHANGED <<mode, calls, life, next, state, paused, since, open, co, store>>

Crash ==
    /\ "crash" \in Env /\ life[1] # "none" /\ life[MaxInstance] = "none"
    /\ life' = [i \in Instance |-> IF life[i] = "none" THEN "none" ELSE "gone"]
    /\ listed' = 0
    /\ open' = [i \in Instance |-> FALSE]
    /\ co' = [i \in Instance |-> [c \in Coroutine |-> "none"]]
    /\ state' = [i \in Instance |-> "stopped"]
    /\ job' = [i \in Instance |-> [c \in Saver |-> NoJob]]
    /\ spoilt' = (spoilt \/ Saving # {})
    /\ next' = [i \in Instance |-> 1]
    /\ paused' = [i \in Instance |-> FALSE]
    /\ since' = [i \in Instance |-> 0]
    /\ memory' = [i \in Instance |-> 0]
    /\ UNCHANGED <<mode, calls, file, last>>

-----------------------------------------------------------------------------
Save(i, c) == Copy(i, c) \/ Write(i, c) \/ SaveFails(i, c)

Session(i, c) == BeginSave(i, c) \/ Learn(i, c) \/ EndRound(i, c)

Starting(i) == Load(i) \/ LoadFails(i) \/ Bind(i) \/ BindFails(i)
Stopping(i) == Closed(i) \/ Cancel(i) \/ Cancelled(i)

Requests(i) == Pause(i) \/ Resume(i) \/ Trigger(i) \/ Stop(i) \/ Drop(i)

\* A bound: of the last provider only the start is looked at.
Life(i) ==
    \/ Requests(i) \/ Stopping(i)
    \/ LoopTurn(i) \/ ExtraRound(i) \/ (\E c \in Saver : Session(i, c))
    \/ Batch(i) \/ WatchFails(i)
    \/ Accept(i) \/ EndConn(i)

Next ==
    \/ \E i \in Instance : Begin(i) \/ Starting(i) \/ BeginSave(i, "init")
    \/ \E i \in Instance, c \in Saver : Save(i, c)
    \/ \E i \in 1..(MaxInstance - 1) : Life(i)
    \/ Crash

Spec == Init /\ [][Next]_vars

\* The event loop goes on with the loop, with stop() and with connections, which
\* end (the one of a cancelled round is flushed or lost); a worker thread goes on
\* with its save.  Nothing else owes anything.
Turn(i, c) ==
    \/ Save(i, c)
    \/ c = "loop" /\ (LoopTurn(i) \/ EndRound(i, c))
    \/ c = "conn" /\ EndConn(i)

Fairness ==
    \A i \in 1..(MaxInstance - 1) :
        /\ WF_vars(Stopping(i) /\ Drained(i))
        /\ WF_vars(Turn(i, "loop")) /\ WF_vars(Turn(i, "conn"))

FairSpec == Spec /\ Fairness

-----------------------------------------------------------------------------
(* Properties                                                              *)

\* What a provider leaves behind that nobody can reach any more.  stop() ends
\* its tasks and its server, but for the verify loop when the watch loop had
\* died; rounds of trigger() survive it, and connections may.  A start() that
\* fails leaves nothing, but for the watch and verify loops of a server
\* (stop, start).
Remains ==
    \A i \in Instance :
        /\ life[i] = "stopped" =>
            /\ ~open[i] /\ ~Alive(i, "loop") /\ ~Alive(i, "watch")
            /\ Alive(i, "verify") => co[i]["watch"] = "dead"
        /\ life[i] = "failed" =>
            /\ ~open[i] /\ ~Alive(i, "loop")
            /\ Alive(i, "watch") \/ Alive(i, "verify") => mode = "server"

\* A round of the loop that begins while the provider is paused is the one
\* that the last resume() had let through: there is never a second one
\* (_sync_loop, _client_loop; pause, "must not initiate new outgoing sessions
\* while paused", docs/provider-interface.md).
PauseHolds == \A i \in Instance : since[i] <= 1

\* The state "syncing" of a p2p provider is never left behind by a round that
\* is over, whichever rounds, pauses and stops cross (_run_sync_round).
SyncingIsReal ==
    mode = "p2p" => \A i \in Instance :
        state[i] = "syncing" => InRound(i, "loop") \/ InRound(i, "extra")

\* The stored index can only be unreadable while it is being written, or after
\* two saves have met, one has raised or the process died in one: in
\* particular neither a cancelled coroutine nor the next provider's start
\* alone can do it (save, _init_index).
StoreWhole ==
    Saving = {} /\ file.there /\ ~spoilt => Whole(file.data)

\* stop() returns, also when a round, a save or a connection is going on.
StopReturns ==
    \A i \in Instance :
        life[i] \in {"close", "cancel"} ~> life[i] \in {"stopped", "gone"}

\* A provider that runs and is not paused comes to a round of its loop.
ResumeSyncs ==
    \A i \in 1..(MaxInstance - 1) :
        (life[i] = "run" /\ ~paused[i] /\ mode # "server")
            ~> (InRound(i, "loop") \/ paused[i] \/ life[i] # "run")
=============================================================================
