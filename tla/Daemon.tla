------------------------------- MODULE Daemon -------------------------------
(***************************************************************************)
(* The daemon (syncd/daemon.py), its sync manager (syncd/sync/manager.py)  *)
(* and the requests of the HTTP API and of SIGHUP that change them: start, *)
(* replacement of the configuration while the daemon runs, shutdown.       *)
(*                                                                         *)
(* Every replacement is a task of the event loop with an await at the start*)
(* and the stop of each provider; nothing keeps two of them apart.  A task *)
(* makes one manager, which is named after it.  A provider is the k-th pair*)
(* of the manager's configuration: <<manager, k>>.                         *)
(***************************************************************************)
EXTENDS Naturals, Sequences, Functions

CONSTANTS
    PairId,
    Config,             \* the configurations, as sequences of pair ids
    MaxPairs,           \* the length of the longest
    Boot, Halt,         \* the start-up and the shutdown of run()
    Request,            \* the calls of apply_config, by the API or by SIGHUP
    Env                 \* what may happen, see EnvKinds

EnvKinds ==
    {"skip",            \* a pair has an unknown mode
     "fail",            \* a provider fails to start
     "invalid",         \* a pair's provider configuration is invalid
     "overlap"}         \* a request or a shutdown may come while one is served

Task == Request \cup {Boot, Halt}

ASSUME TaskAssumption ==
    /\ Boot # Halt /\ Boot \notin Request /\ Halt \notin Request
ASSUME ConfigAssumption ==
    /\ MaxPairs \in Nat
    /\ Config # {}
    /\ \A c \in Config : c \in Seq(PairId) /\ Len(c) <= MaxPairs
    /\ Env \subseteq EnvKinds

Provider == Task \X (1..MaxPairs)
None == <<>>            \* no provider

VARIABLES
    run,                \* where run() is
    task,               \* the coroutine of each task
    owns,               \* manager -> pair id -> provider: SyncManager._providers
    life,               \* what has become of each provider
    current,            \* Daemon._manager
    config,             \* Daemon._config
    shown               \* _app_state: what the API handlers use

vars == <<run, task, owns, life, current, config, shown>>

\* What a task is doing; `next` is the pair to start, `victims` are the
\* providers of the manager `of` still to be stopped, `at` the one it awaits.
Coroutine ==
    [pc : {"idle", "stop", "stopping", "start", "starting", "done", "failed"},
     config : Config, next : 1..(MaxPairs + 1),
     victims : SUBSET Provider, of : Task, at : Provider \cup {None}]

TypeOK ==
    /\ run \in {"booting", "serving", "closing", "ending", "ended"}
    /\ task \in [Task -> Coroutine]
    /\ owns \in [Task -> [PairId -> Provider \cup {None}]]
    /\ life \in [Provider -> {"none", "starting", "running", "stopping",
                              "stopped", "failed"}]
    /\ current \in Task
    /\ config \in Config
    /\ shown \in [config : Config, manager : Task]

Empty == [p \in PairId |-> None]

Init ==
    /\ run = "booting"
    /\ config \in Config
    /\ task = [t \in Task |->
                 [pc |-> IF t = Boot THEN "start" ELSE "idle", config |-> config,
                  next |-> 1, victims |-> {}, of |-> Boot, at |-> None]]
    /\ owns = [t \in Task |-> Empty]
    /\ life = [i \in Provider |-> "none"]
    /\ current = Boot
    /\ shown = [config |-> config, manager |-> Boot]

Active(t) == task[t].pc \notin {"idle", "done", "failed"}

\* Nothing else is being served, or it does not matter.
Alone == "overlap" \in Env \/ \A t \in Task : ~Active(t)

Running(t, label) == run # "ended" /\ task[t].pc = label

-----------------------------------------------------------------------------
(* SyncManager.start_all                                                   *)

\* _start_pair may skip a pair or reject it before it starts anything.
SkipPair(t) ==
    /\ "skip" \in Env
    /\ Running(t, "start") /\ task[t].next <= Len(task[t].config)
    /\ task' = [task EXCEPT ![t].next = @ + 1]
    /\ UNCHANGED <<run, owns, life, current, config, shown>>

\* ProviderConfigError leaves start_all: no pair after this one is started,
\* those before it run on.  At start-up it ends the daemon.
Abort(t) ==
    /\ task' = [task EXCEPT ![t].pc = "failed", ![t].at = None]
    /\ run' = IF t = Boot THEN "closing" ELSE run
    /\ UNCHANGED <<owns, current, config, shown>>

RejectPair(t) ==
    /\ "invalid" \in Env
    /\ Running(t, "start") /\ task[t].next <= Len(task[t].config)
    /\ Abort(t)
    /\ UNCHANGED life

BeginStart(t) ==
    /\ Running(t, "start") /\ task[t].next <= Len(task[t].config)
    /\ LET i == <<t, task[t].next>> IN
       /\ task' = [task EXCEPT ![t].pc = "starting", ![t].at = i]
       /\ life' = [life EXCEPT ![i] = "starting"]
    /\ UNCHANGED <<run, owns, current, config, shown>>

\* Variants of Enrol and Passed: the provider is not listed; its pair is
\* listed in its place; the same pair is tried again.
EnrolNot(t) == owns
EnrolPair(t) ==
    LET pair == task[t].config[task[t].next] IN [owns EXCEPT ![t][pair] = pair]
PassedNot(t) == [task EXCEPT ![t].pc = "start", ![t].at = None]

Enrol(t) == [owns EXCEPT ![t][task[t].config[task[t].next]] = task[t].at]
Passed(t) == [task EXCEPT ![t].pc = "start", ![t].at = None, ![t].next = @ + 1]

Started(t) ==
    /\ Running(t, "starting")
    /\ life' = [life EXCEPT ![task[t].at] = "running"]
    /\ owns' = Enrol(t)
    /\ task' = Passed(t)
    /\ UNCHANGED <<run, current, config, shown>>

\* Any exception but ValueError is logged and the provider forgotten.
StartFails(t) ==
    /\ "fail" \in Env
    /\ Running(t, "starting")
    /\ life' = [life EXCEPT ![task[t].at] = "failed"]
    /\ task' = Passed(t)
    /\ UNCHANGED <<run, owns, current, config, shown>>

\* ValueError becomes a ProviderConfigError.
StartRejects(t) ==
    /\ "invalid" \in Env
    /\ Running(t, "starting")
    /\ life' = [life EXCEPT ![task[t].at] = "failed"]
    /\ Abort(t)

-----------------------------------------------------------------------------
(* SyncManager.stop_all                                                    *)

\* A variant: a manager whose start was aborted is left alone.
VictimsOfDone(m) ==
    IF task[m].pc = "done" THEN Range(owns[m]) \ {None} ELSE {}

\* The copy of _providers that stop_all iterates over.
Victims(m) == Range(owns[m]) \ {None}

BeginStopAll(t, c) ==
    task' = [task EXCEPT ![t] = [@ EXCEPT !.pc = "stop", !.config = c,
                                          !.of = current,
                                          !.victims = Victims(current)]]

\* In the order in which they were started.
BeginStop(t, i) ==
    /\ Running(t, "stop") /\ i \in task[t].victims
    /\ \A j \in task[t].victims : i[2] <= j[2]
    /\ task' = [task EXCEPT ![t].pc = "stopping", ![t].at = i]
    /\ life' = [life EXCEPT ![i] = IF @ = "running" THEN "stopping" ELSE @]
    /\ UNCHANGED <<run, owns, current, config, shown>>

\* stop() returns, or raises what stop_all logs.
Stopped(t) ==
    /\ Running(t, "stopping")
    /\ LET i == task[t].at IN
       /\ life' = [life EXCEPT ![i] = "stopped"]
       /\ task' = [task EXCEPT ![t].pc = "stop", ![t].at = None,
                               ![t].victims = @ \ {i}]
    /\ UNCHANGED <<run, owns, current, config, shown>>

AllStopped(t) == Running(t, "stop") /\ task[t].victims = {}

-----------------------------------------------------------------------------
(* Daemon                                                                  *)

\* apply_config begins with stop_all.  It is called by POST /config/apply,
\* and by _reload_config once the file has been read.
Apply(t, c) ==
    /\ run = "serving" /\ Alone
    /\ t \in Request /\ task[t].pc = "idle"
    /\ BeginStopAll(t, c)
    /\ UNCHANGED <<run, owns, life, current, config, shown>>

\* ... goes on with a new manager
Replace(t) ==
    /\ t \in Request /\ AllStopped(t)
    /\ owns' = [owns EXCEPT ![task[t].of] = Empty]
    /\ current' = t
    /\ task' = [task EXCEPT ![t].pc = "start"]
    /\ UNCHANGED <<run, life, config, shown>>

\* The API keeps the manager it had (variant).
PublishConfig(t) == [shown EXCEPT !.config = task[t].config]

Publish(t) == [config |-> task[t].config, manager |-> current]

\* ... and ends with the assignments; _startup ends the same way and the API
\* opens.
Finish(t) ==
    /\ Running(t, "start") /\ task[t].next > Len(task[t].config)
    /\ task' = [task EXCEPT ![t].pc = "done"]
    /\ config' = task[t].config
    /\ shown' = Publish(t)
    /\ run' = IF t = Boot THEN "serving" ELSE run
    /\ UNCHANGED <<owns, life, current>>

\* SIGTERM or POST /shutdown.
Shutdown ==
    /\ run = "serving" /\ Alone
    /\ run' = "closing"
    /\ UNCHANGED <<task, owns, life, current, config, shown>>

\* _shutdown: the API closes, then the manager of this moment stops all.
CloseApi ==
    /\ run = "closing"
    /\ run' = "ending"
    /\ BeginStopAll(Halt, config)
    /\ UNCHANGED <<owns, life, current, config, shown>>

End ==
    /\ AllStopped(Halt)
    /\ owns' = [owns EXCEPT ![task[Halt].of] = Empty]
    /\ task' = [task EXCEPT ![Halt].pc = "done"]
    /\ run' = "ended"
    /\ UNCHANGED <<life, current, config, shown>>

-----------------------------------------------------------------------------
Start(t) ==
    \/ SkipPair(t)
    \/ RejectPair(t)
    \/ BeginStart(t)
    \/ Started(t)
    \/ StartFails(t)
    \/ StartRejects(t)

Stop(t) == (\E i \in Provider : BeginStop(t, i)) \/ Stopped(t)

Step(t) == Start(t) \/ Stop(t) \/ Replace(t) \/ Finish(t)

Next ==
    \/ \E t \in Task : Step(t)
    \/ \E t \in Request, c \in Config : Apply(t, c)
    \/ Shutdown
    \/ CloseApi
    \/ End

Spec == Init /\ [][Next]_vars

\* The event loop goes on with every task that can; providers answer a start
\* and a stop in the end.  Requests and signals need not come.
Fairness ==
    /\ \A t \in Task : WF_vars(Step(t))
    /\ WF_vars(CloseApi) /\ WF_vars(End)

FairSpec == Spec /\ Fairness

-----------------------------------------------------------------------------
(* Properties                                                              *)

PairOf(i) == task[i[1]].config[i[2]]

Alive(i) == life[i] \in {"starting", "running", "stopping"}

\* A pair never has two live providers: they would keep two indexes of one
\* directory and save them over each other ("Each pair runs its own provider
\* instance", docs/config.md).
OneInstance ==
    \A i, j \in Provider : Alive(i) /\ Alive(j) /\ PairOf(i) = PairOf(j) => i = j

\* A running provider can be reached through the daemon's manager: otherwise
\* no request, reload or shutdown ever stops it (apply_config, stop_all).
Owned ==
    \A i \in Provider : life[i] = "running" => owns[current][PairOf(i)] = i

\* When nothing is being applied and the last change succeeded, the API shows
\* the manager that runs, with the configuration it was made from, and every
\* provider that runs belongs to that configuration (apply_config).
ShownIsServed ==
    (run = "serving" /\ task[current].pc = "done" /\ \A t \in Task : ~Active(t)) =>
        /\ shown = [config |-> task[current].config, manager |-> current]
        /\ config = task[current].config
        /\ \A i \in Provider : life[i] = "running" => i[1] = current

\* Every start, replacement and shutdown comes to an end.
TasksEnd ==
    \A t \in Task : Active(t) ~> (~Active(t) \/ run = "ended")

\* A daemon that has ended has stopped every provider it had running.
EndsStopped ==
    run = "ended" => \A i \in Provider : life[i] \notin {"running", "stopping"}
=============================================================================
