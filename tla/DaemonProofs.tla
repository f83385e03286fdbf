---------------------------- MODULE DaemonProofs ----------------------------
(***************************************************************************)
(* What holds of Daemon for every set of pairs, configurations and         *)
(* requests.                                                               *)
(***************************************************************************)
EXTENDS Daemon, TLAPS

-----------------------------------------------------------------------------
(* Type correctness                                                        *)

\* A task that awaits start() awaits it of the pair whose turn it is.
StartsNext ==
    \A t \in Task : task[t].pc = "starting" =>
        /\ task[t].next \in 1..Len(task[t].config)
        /\ task[t].at = <<t, task[t].next>>

TypeInv == TypeOK /\ StartsNext

\* What one task does, it does to its own coroutine.
LEMMA OneTask ==
  ASSUME NEW t \in Task, NEW k \in Coroutine, TypeInv,
         task' = [task EXCEPT ![t] = k],
         k.pc = "starting" => /\ k.next \in 1..Len(k.config)
                              /\ k.at = <<t, k.next>>
  PROVE  task' \in [Task -> Coroutine] /\ StartsNext'
  BY DEF TypeInv, TypeOK, StartsNext

\* start_all keeps the state well typed.
LEMMA StartType ==
  ASSUME NEW t \in Task, TypeInv, Start(t)
  PROVE  TypeInv'
<1> DEFINE k == task'[t]
<1>0. task[t] \in Coroutine /\ task = [s \in Task |-> task[s]]
  BY DEF TypeInv, TypeOK
<1>1. task[t].next \in Nat /\ task[t].config \in Seq(PairId)
      /\ Len(task[t].config) \in Nat /\ Len(task[t].config) <= MaxPairs
      /\ MaxPairs \in Nat
  BY <1>0, ConfigAssumption DEF Coroutine
<1>2. CASE SkipPair(t)
  <2>1. k = [task[t] EXCEPT !.next = @ + 1] /\ k.pc = "start"
    BY <1>0, <1>2 DEF SkipPair, Running, Coroutine
  <2>2. k \in Coroutine
    BY <1>0, <1>1, <1>2, <2>1 DEF SkipPair, Coroutine
  <2>3. task' = [task EXCEPT ![t] = k]
    BY <1>0, <1>2 DEF SkipPair
  <2>4. QED BY <1>2, <2>1, <2>2, <2>3, OneTask DEF SkipPair, TypeInv, TypeOK
<1>3. ASSUME Abort(t)
      PROVE  /\ task' \in [Task -> Coroutine] /\ StartsNext'
             /\ run' \in {"booting", "serving", "closing", "ending", "ended"}
  <2>1. k = [task[t] EXCEPT !.pc = "failed", !.at = None] /\ k.pc = "failed"
    BY <1>0, <1>3 DEF Abort, Coroutine
  <2>2. k \in Coroutine
    BY <1>0, <2>1 DEF Coroutine
  <2>3. task' = [task EXCEPT ![t] = k]
    BY <1>0, <1>3 DEF Abort
  <2>4. QED BY <1>3, <2>1, <2>2, <2>3, OneTask DEF Abort, TypeInv, TypeOK
<1>4. CASE RejectPair(t)
  BY <1>3, <1>4 DEF RejectPair, Abort, TypeInv, TypeOK
<1>5. CASE StartRejects(t)
  BY <1>3, <1>5 DEF StartRejects, Abort, TypeInv, TypeOK
<1>6. CASE BeginStart(t)
  <2>1. /\ k = [task[t] EXCEPT !.pc = "starting", !.at = <<t, task[t].next>>]
        /\ k.pc = "starting" /\ k.at = <<t, task[t].next>>
        /\ k.next = task[t].next /\ k.config = task[t].config
    BY <1>0, <1>6 DEF BeginStart, Coroutine
  <2>2. task[t].next \in 1..Len(task[t].config) /\ <<t, task[t].next>> \in Provider
    BY <1>0, <1>1, <1>6 DEF BeginStart, Coroutine, Provider
  <2>3. k \in Coroutine
    BY <1>0, <2>1, <2>2 DEF Coroutine
  <2>4. task' = [task EXCEPT ![t] = k]
    BY <1>0, <1>6 DEF BeginStart
  <2>5. life' \in [Provider -> {"none", "starting", "running", "stopping",
                                "stopped", "failed"}]
    BY <1>6 DEF BeginStart, TypeInv, TypeOK
  <2>6. task' \in [Task -> Coroutine] /\ StartsNext'
    BY <2>1, <2>2, <2>3, <2>4, OneTask
  <2>7. QED BY <1>6, <2>5, <2>6 DEF BeginStart, TypeInv, TypeOK
<1>7. ASSUME Running(t, "starting"), task' = Passed(t)
      PROVE  task' \in [Task -> Coroutine] /\ StartsNext'
  <2>1. /\ k = [task[t] EXCEPT !.pc = "start", !.at = None, !.next = @ + 1]
        /\ k.pc = "start"
    BY <1>0, <1>7 DEF Passed, Coroutine
  <2>2. task[t].next \in 1..Len(task[t].config)
    BY <1>7 DEF Running, TypeInv, StartsNext
  <2>3. task[t].next + 1 \in 1..(MaxPairs + 1)
    BY <1>1, <2>2
  <2>4. k \in Coroutine
    BY <1>0, <2>1, <2>3 DEF Coroutine
  <2>5. task' = [task EXCEPT ![t] = k]
    BY <1>0, <1>7 DEF Passed
  <2>6. QED BY <2>1, <2>4, <2>5, OneTask
<1>8. CASE Started(t)
  <2>1. life' \in [Provider -> {"none", "starting", "running", "stopping",
                                "stopped", "failed"}]
    BY <1>8 DEF Started, TypeInv, TypeOK
  <2>2. task[t].at \in Provider \cup {None}
    BY <1>0 DEF Coroutine
  <2>3. owns' \in [Task -> [PairId -> Provider \cup {None}]]
    BY <1>8, <2>2 DEF Started, Enrol, TypeInv, TypeOK
  <2>4. QED BY <1>7, <1>8, <2>1, <2>3 DEF Started, TypeInv, TypeOK
<1>9. CASE StartFails(t)
  BY <1>7, <1>9 DEF StartFails, TypeInv, TypeOK
<1>10. QED BY <1>2, <1>4, <1>5, <1>6, <1>8, <1>9 DEF Start

\* stop_all keeps the state well typed.
LEMMA StopType ==
  ASSUME NEW t \in Task, TypeInv, Stop(t)
  PROVE  TypeInv'
<1> DEFINE k == task'[t]
<1>0. task[t] \in Coroutine /\ task = [s \in Task |-> task[s]]
  BY DEF TypeInv, TypeOK
<1>1. ASSUME NEW i \in Provider, BeginStop(t, i)
      PROVE  TypeInv'
  <2>1. k = [task[t] EXCEPT !.pc = "stopping", !.at = i] /\ k.pc = "stopping"
    BY <1>0, <1>1 DEF BeginStop, Coroutine
  <2>2. k \in Coroutine
    BY <1>0, <2>1 DEF Coroutine
  <2>3. task' = [task EXCEPT ![t] = k]
    BY <1>0, <1>1 DEF BeginStop
  <2>4. task' \in [Task -> Coroutine] /\ StartsNext'
    BY <2>1, <2>2, <2>3, OneTask
  <2>5. life' \in [Provider -> {"none", "starting", "running", "stopping",
                                "stopped", "failed"}]
    BY <1>1 DEF BeginStop, TypeInv, TypeOK
  <2>6. QED BY <1>1, <2>4, <2>5 DEF BeginStop, TypeInv, TypeOK
<1>2. CASE Stopped(t)
  <2>1. /\ k = [task[t] EXCEPT !.pc = "stop", !.at = None,
                              !.victims = @ \ {task[t].at}]
        /\ k.pc = "stop"
    BY <1>0, <1>2 DEF Stopped, Coroutine
  <2>2. k \in Coroutine
    BY <1>0, <2>1 DEF Coroutine
  <2>3. task' = [task EXCEPT ![t] = k]
    BY <1>0, <1>2 DEF Stopped
  <2>4. task' \in [Task -> Coroutine] /\ StartsNext'
    BY <2>1, <2>2, <2>3, OneTask
  <2>5. life' \in [Provider -> {"none", "starting", "running", "stopping",
                                "stopped", "failed"}]
    BY <1>2 DEF Stopped, TypeInv, TypeOK
  <2>6. QED BY <1>2, <2>4, <2>5 DEF Stopped, TypeInv, TypeOK
<1>3. QED BY <1>1, <1>2 DEF Stop

\* What stop_all iterates over are providers.
LEMMA VictimsType ==
  ASSUME NEW m \in Task, TypeInv
  PROVE  Victims(m) \subseteq Provider
  BY DEF Victims, Range, TypeInv, TypeOK

\* A task that begins with stop_all is well typed.
LEMMA BeginStopAllType ==
  ASSUME NEW t \in Task, NEW c \in Config, TypeInv, BeginStopAll(t, c)
  PROVE  task' \in [Task -> Coroutine] /\ StartsNext'
<1> DEFINE k == task'[t]
<1>1. task[t] \in Coroutine /\ current \in Task
  BY DEF TypeInv, TypeOK
<1>2. /\ k = [task[t] EXCEPT !.pc = "stop", !.config = c, !.of = current,
                            !.victims = Victims(current)]
      /\ k.pc = "stop"
  BY <1>1 DEF BeginStopAll, TypeInv, TypeOK, Coroutine
<1>3. k \in Coroutine
  BY <1>1, <1>2, VictimsType DEF Coroutine
<1>4. task' = [task EXCEPT ![t] = k]
  BY <1>1 DEF BeginStopAll, TypeInv, TypeOK
<1>5. QED BY <1>2, <1>3, <1>4, OneTask

\* The daemon's own steps keep the state well typed.
LEMMA DaemonType ==
  ASSUME TypeInv,
         \/ \E t \in Task : Replace(t) \/ Finish(t)
         \/ \E t \in Request, c \in Config : Apply(t, c)
         \/ Shutdown \/ CloseApi \/ End
  PROVE  TypeInv'
<1>0. /\ \A t \in Task : task[t] \in Coroutine
      /\ Empty \in [PairId -> Provider \cup {None}]
  BY DEF TypeInv, TypeOK, Empty
<1>1. ASSUME NEW t \in Task, NEW l \in {"start", "done"}, task' = [task EXCEPT ![t].pc = l]
      PROVE  task' \in [Task -> Coroutine] /\ StartsNext'
  <2>1. task'[t] = [task[t] EXCEPT !.pc = l] /\ task'[t].pc = l
    BY <1>0, <1>1 DEF Coroutine, TypeInv, TypeOK
  <2>2. task'[t] \in Coroutine
    BY <1>0, <2>1 DEF Coroutine
  <2>3. task' = [task EXCEPT ![t] = task'[t]]
    BY <1>1, <2>1 DEF TypeInv, TypeOK
  <2>4. QED BY <2>1, <2>2, <2>3, OneTask
<1>2. ASSUME NEW t \in Task, Replace(t)
      PROVE  TypeInv'
  <2>1. task' \in [Task -> Coroutine] /\ StartsNext'
    BY <1>1, <1>2 DEF Replace
  <2>2. owns' \in [Task -> [PairId -> Provider \cup {None}]]
    BY <1>0, <1>2 DEF Replace, TypeInv, TypeOK
  <2>3. QED BY <1>2, <2>1, <2>2 DEF Replace, TypeInv, TypeOK
<1>3. ASSUME NEW t \in Task, Finish(t)
      PROVE  TypeInv'
  <2>1. task' \in [Task -> Coroutine] /\ StartsNext'
    BY <1>1, <1>3 DEF Finish
  <2>2. task[t].config \in Config
    BY <1>0 DEF Coroutine
  <2>3. Publish(t) \in [config : Config, manager : Task]
    BY <2>2 DEF Publish, TypeInv, TypeOK
  <2>4. QED BY <1>3, <2>1, <2>2, <2>3 DEF Finish, TypeInv, TypeOK
<1>4. ASSUME NEW t \in Request, NEW c \in Config, Apply(t, c)
      PROVE  TypeInv'
  <2>1. task' \in [Task -> Coroutine] /\ StartsNext'
    BY <1>4, BeginStopAllType DEF Apply, Task
  <2>2. QED BY <1>4, <2>1 DEF Apply, TypeInv, TypeOK
<1>5. CASE Shutdown
  BY <1>5 DEF Shutdown, TypeInv, TypeOK, StartsNext
<1>6. CASE CloseApi
  <2>1. task' \in [Task -> Coroutine] /\ StartsNext'
    BY <1>6, BeginStopAllType DEF CloseApi, Task, TypeInv, TypeOK
  <2>2. QED BY <1>6, <2>1 DEF CloseApi, TypeInv, TypeOK
<1>7. CASE End
  <2>1. task' \in [Task -> Coroutine] /\ StartsNext'
    BY <1>1, <1>7 DEF End, Task
  <2>2. owns' \in [Task -> [PairId -> Provider \cup {None}]]
    BY <1>0, <1>7 DEF End, TypeInv, TypeOK
  <2>3. QED BY <1>7, <2>1, <2>2 DEF End, TypeInv, TypeOK
<1>8. QED BY <1>2, <1>3, <1>4, <1>5, <1>6, <1>7

\* The daemon starts well typed (Daemon.__init__).
LEMMA DaemonInitType == Init => TypeInv
<1> SUFFICES ASSUME Init PROVE TypeInv
  OBVIOUS
<1>1. Boot \in Task /\ config \in Config /\ 1 \in 1..(MaxPairs + 1)
  BY ConfigAssumption DEF Init, Task
<1>2. task \in [Task -> Coroutine]
  BY <1>1 DEF Init, Coroutine
<1>3. QED BY <1>1, <1>2 DEF Init, TypeInv, TypeOK, StartsNext, Empty

\* Every step keeps the state well typed.
LEMMA DaemonStepType == TypeInv /\ [Next]_vars => TypeInv'
<1>1. ASSUME TypeInv, UNCHANGED vars PROVE TypeInv'
  BY <1>1 DEF TypeInv, TypeOK, StartsNext, vars
<1>2. QED BY <1>1, StartType, StopType, DaemonType DEF Next, Step

\* Type correctness: every variable of the daemon keeps its type, for all pairs,
\* configurations and requests, also when they overlap (Daemon, SyncManager).
THEOREM DaemonTypeCorrect == Spec => []TypeOK
<1>1. TypeInv => TypeOK
  BY DEF TypeInv
<1>2. QED BY <1>1, DaemonInitType, DaemonStepType, PTL DEF Spec

-----------------------------------------------------------------------------
(* One change at a time                                                    *)

\* Requests, reloads and the shutdown come one after the other.
Serial == "overlap" \notin Env

\* No configuration names a pair twice ("required, unique", docs/config.md).
UniqueIds ==
    \A c \in Config : \A m, n \in 1..Len(c) : c[m] = c[n] => m = n

\* One task at a time changes the providers, the one whose turn it is.
Turn ==
    /\ \A s, t \in Task : Active(s) /\ Active(t) => s = t
    /\ \A t \in Task : Active(t) =>
          \/ t = Boot /\ run = "booting"
          \/ t \in Request /\ run = "serving"
          \/ t = Halt /\ run = "ending"
    /\ run \in {"booting", "serving", "closing"} => task[Halt].pc = "idle"

\* The manager that is being filled is the daemon's, and not the shutdown's.
Filling ==
    \A t \in Task : task[t].pc \in {"start", "starting"} => current = t /\ t # Halt

\* stop_all has every provider that runs still before it, and no provider that
\* was never started.
Emptying ==
    \A t \in Task : task[t].pc \in {"stop", "stopping"} =>
        /\ task[t].of = current
        /\ task[t].pc = "stopping" => task[t].at \in task[t].victims
        /\ \A i \in Provider : life[i] = "running" => i \in task[t].victims
        /\ \A i \in task[t].victims : life[i] # "none"

\* A provider exists once its pair has had its turn, and is started or stopped
\* while a task awaits it.
Lives ==
    \A i \in Provider :
        /\ life[i] # "none" => /\ task[i[1]].pc \in {"start", "starting", "done", "failed"}
                              /\ i[2] \in 1..Len(task[i[1]].config)
        /\ life[i] # "none" /\ task[i[1]].pc = "start" => i[2] < task[i[1]].next
        /\ life[i] # "none" /\ task[i[1]].pc = "starting" => i[2] <= task[i[1]].next
        /\ life[i] = "starting" => task[i[1]].pc = "starting" /\ i = task[i[1]].at
        /\ life[i] = "stopping" =>
              \E t \in Task : task[t].pc = "stopping" /\ task[t].at = i

\* A manager lists providers of its own, once they have been started.
Listing ==
    \A m \in Task, p \in PairId :
        owns[m][p] # None => owns[m][p][1] = m /\ life[owns[m][p]] # "none"

\* Owned, also while a provider is being stopped.
OwnedToTheEnd ==
    \A i \in Provider :
        life[i] \in {"running", "stopping"} => owns[current][PairOf(i)] = i

SerialInv ==
    /\ TypeInv /\ Turn /\ Filling /\ Emptying /\ Lives /\ Listing
    /\ OwnedToTheEnd /\ EndsStopped

\* A provider is a pair, and no provider is not.
LEMMA ProviderShape ==
  ASSUME NEW i \in Provider
  PROVE  i = <<i[1], i[2]>> /\ i[1] \in Task /\ i[2] \in 1..MaxPairs /\ i # None
<1>1. i = <<i[1], i[2]>> /\ i[1] \in Task /\ i[2] \in 1..MaxPairs
  BY DEF Provider
<1>2. i # None
  BY <1>1 DEF None
<1>3. QED BY <1>1, <1>2

\* A provider that exists is of a pair.
LEMMA PairOfType ==
  ASSUME SerialInv, NEW i \in Provider, life[i] # "none"
  PROVE  PairOf(i) \in PairId
<1>1. task[i[1]].config \in Seq(PairId)
  BY ProviderShape, ConfigAssumption DEF SerialInv, TypeInv, TypeOK, Coroutine
<1>2. i[2] \in 1..Len(task[i[1]].config)
  BY DEF SerialInv, Lives
<1>3. QED BY <1>1, <1>2 DEF PairOf

\* In a manager that is being filled a pair belongs to its own provider only.
LEMMA Distinct ==
  ASSUME UniqueIds, SerialInv, NEW t \in Task, current = t,
         NEW i \in Provider, life[i] \in {"running", "stopping"},
         NEW n \in 1..Len(task[t].config), PairOf(i) = task[t].config[n]
  PROVE  i = <<t, n>>
<1>1. task[t].config \in Config /\ task[t].config \in Seq(PairId)
  BY ConfigAssumption DEF SerialInv, TypeInv, TypeOK, Coroutine
<1>2. PairOf(i) \in PairId
  BY <1>1
<1>3. owns[t][PairOf(i)] = i
  BY DEF SerialInv, OwnedToTheEnd
<1>4. i[1] = t
  BY <1>2, <1>3, ProviderShape DEF SerialInv, Listing
<1>5. i[2] \in 1..Len(task[t].config)
  BY <1>4 DEF SerialInv, Lives
<1>6. task[t].config[i[2]] = task[t].config[n]
  BY <1>4 DEF PairOf
<1>7. i[2] = n
  BY <1>1, <1>5, <1>6 DEF UniqueIds
<1>8. QED BY <1>4, <1>7, ProviderShape

\* Under the invariant no pair has two providers: those that run are listed in
\* one manager under their pair, and the one being started is of another pair.
LEMMA SerialOneInstance ==
  ASSUME UniqueIds, SerialInv
  PROVE  OneInstance
<1> SUFFICES ASSUME NEW i \in Provider, NEW j \in Provider, Alive(i), Alive(j),
                    PairOf(i) = PairOf(j)
             PROVE  i = j
  BY DEF OneInstance
<1>1. ASSUME NEW h \in Provider, life[h] = "starting"
      PROVE  /\ h[1] \in Task /\ Active(h[1]) /\ current = h[1]
             /\ h = task[h[1]].at /\ h[2] \in 1..Len(task[h[1]].config)
             /\ h = <<h[1], h[2]>>
  <2>1. h[1] \in Task /\ h = <<h[1], h[2]>>
    BY ProviderShape
  <2>2. QED BY <1>1, <2>1 DEF SerialInv, Lives, Filling, Active
<1>2. CASE life[i] = "starting" /\ life[j] = "starting"
  BY <1>1, <1>2 DEF SerialInv, Turn
<1>3. ASSUME NEW g \in Provider, NEW h \in Provider, PairOf(g) = PairOf(h),
             life[h] = "starting", life[g] \in {"running", "stopping"}
      PROVE  g = h
  <2>1. PairOf(g) = task[h[1]].config[h[2]]
    BY <1>3 DEF PairOf
  <2>2. QED BY <1>1, <1>3, <2>1, Distinct
<1>4. CASE life[i] \in {"running", "stopping"} /\ life[j] \in {"running", "stopping"}
  BY <1>4 DEF SerialInv, OwnedToTheEnd
<1>5. QED BY <1>2, <1>3, <1>4 DEF Alive

\* Nothing runs before the first start (Daemon.__init__, _startup).
LEMMA SerialInit == Init => SerialInv
<1> SUFFICES ASSUME Init PROVE SerialInv
  OBVIOUS
<1>0. Boot \in Task /\ Halt \in Task /\ Boot # Halt
  BY TaskAssumption DEF Task
<1>1. \A t \in Task : task[t].pc = IF t = Boot THEN "start" ELSE "idle"
  BY DEF Init
<1>2. Turn
  BY <1>0, <1>1 DEF Init, Turn, Active
<1>3. Filling /\ Emptying
  BY <1>0, <1>1 DEF Init, Filling, Emptying
<1>4. Lives /\ OwnedToTheEnd
  BY DEF Init, Lives, OwnedToTheEnd
<1>5. Listing
  BY DEF Init, Listing, Empty
<1>6. EndsStopped
  BY DEF Init, EndsStopped
<1>7. QED BY <1>2, <1>3, <1>4, <1>5, <1>6, DaemonInitType DEF SerialInv

\* A manager's list stays right as long as no provider is forgotten.
LEMMA ListingKept ==
  ASSUME SerialInv, UNCHANGED owns,
         \A j \in Provider : life[j] # "none" => life'[j] # "none"
  PROVE  Listing'
<1>1. ASSUME NEW m \in Task, NEW p \in PairId, owns[m][p] # None
      PROVE  owns[m][p] \in Provider
  BY <1>1 DEF SerialInv, TypeInv, TypeOK
<1>2. QED BY <1>1 DEF SerialInv, Listing

\* The steps of start_all: what a task does to its own coroutine, and to the
\* provider whose turn it is.
LEMMA SerialStart ==
  ASSUME UniqueIds, SerialInv, NEW t \in Task, Start(t)
  PROVE  SerialInv'
<1> DEFINE i == <<t, task[t].next>>
           Moves(l) == /\ \A s \in Task : s # t => task'[s] = task[s]
                       /\ task'[t].pc = l
                       /\ task'[t].config = task[t].config
<1>0. TypeInv'
  BY StartType DEF SerialInv
<1>1. /\ task[t] \in Coroutine /\ task \in [Task -> Coroutine]
      /\ task[t].next \in 1..(MaxPairs + 1) /\ MaxPairs \in Nat
      /\ Len(task[t].config) \in Nat /\ Len(task[t].config) <= MaxPairs
  BY ConfigAssumption DEF SerialInv, TypeInv, TypeOK, Coroutine
<1>2. /\ task[t].pc \in {"start", "starting"} /\ run # "ended"
      /\ Active(t) /\ current = t /\ current' = t /\ UNCHANGED <<config, shown>>
  BY DEF Start, SkipPair, RejectPair, BeginStart, Started, StartFails, StartRejects,
         Running, Active, Abort, SerialInv, Filling
<1>3. t # Halt /\ run \in {"booting", "serving"} /\ (t = Boot <=> run = "booting")
  BY <1>2, TaskAssumption DEF SerialInv, Turn, Filling
<1>4. \A s \in Task : s # t => ~Active(s)
  BY <1>2 DEF SerialInv, Turn
<1>5. \A s \in Task : task[s].pc \notin {"stop", "stopping"}
  BY <1>2, <1>4 DEF Active
<1>6. \A j \in Provider : life[j] # "stopping"
  BY <1>5 DEF SerialInv, Lives
<1>7. ASSUME NEW l \in {"start", "starting"}, Moves(l), run' = run
      PROVE  Turn' /\ Filling' /\ Emptying' /\ EndsStopped'
  <2>1. \A s \in Task : Active(s)' => s = t
    BY <1>4, <1>7 DEF Active
  <2>2. \A s \in Task : task'[s].pc \notin {"stop", "stopping"}
    BY <1>5, <1>7
  <2>3. task'[Halt] = task[Halt]
    BY <1>3, <1>7 DEF Task
  <2>4. Turn'
    BY <1>2, <1>3, <1>7, <2>1, <2>3 DEF SerialInv, Turn
  <2>5. Filling'
    BY <1>2, <1>3, <1>4, <1>7 DEF SerialInv, Filling, Active
  <2>6. QED BY <1>3, <1>7, <2>2, <2>4, <2>5 DEF Emptying, EndsStopped
<1>8. ASSUME Moves("failed"), run' = IF t = Boot THEN "closing" ELSE run
      PROVE  Turn' /\ Filling' /\ Emptying' /\ EndsStopped'
  <2>1. \A s \in Task : ~Active(s)' /\ task'[s].pc \notin {"start", "starting"}
    BY <1>4, <1>8 DEF Active
  <2>2. \A s \in Task : task'[s].pc \notin {"stop", "stopping"}
    BY <1>5, <1>8
  <2>3. task'[Halt] = task[Halt]
    BY <1>3, <1>8 DEF Task
  <2>4. Turn'
    BY <1>3, <1>8, <2>1, <2>3 DEF SerialInv, Turn
  <2>5. QED BY <1>3, <1>8, <2>1, <2>2, <2>4 DEF Filling, Emptying, EndsStopped
<1>9. ASSUME NEW l, Moves(l)
      PROVE  \A j \in Provider : PairOf(j)' = PairOf(j)
  BY <1>9, ProviderShape DEF PairOf
<1>10. CASE SkipPair(t)
  <2>1. Moves("start") /\ task'[t].next = task[t].next + 1 /\ task[t].pc = "start"
    BY <1>1, <1>10 DEF SkipPair, Running, Coroutine
  <2>2. Lives'
    BY <1>1, <1>6, <1>10, <2>1, ProviderShape DEF SkipPair, SerialInv, Lives
  <2>3. Listing' /\ OwnedToTheEnd'
    BY <1>2, <1>9, <1>10, <2>1, ListingKept DEF SkipPair, SerialInv, OwnedToTheEnd
  <2>4. QED BY <1>0, <1>7, <1>10, <2>1, <2>2, <2>3 DEF SkipPair, SerialInv
<1>11. CASE RejectPair(t)
  <2>1. Moves("failed") /\ task[t].pc = "start"
    BY <1>1, <1>11 DEF RejectPair, Abort, Running, Coroutine
  <2>2. Lives'
    BY <1>6, <1>11, <2>1, ProviderShape DEF RejectPair, SerialInv, Lives
  <2>3. Listing' /\ OwnedToTheEnd'
    BY <1>2, <1>9, <1>11, <2>1, ListingKept
       DEF RejectPair, Abort, SerialInv, OwnedToTheEnd
  <2>4. QED BY <1>0, <1>8, <1>11, <2>1, <2>2, <2>3 DEF RejectPair, Abort, SerialInv
<1>12. CASE BeginStart(t)
  <2>1. /\ Moves("starting") /\ task'[t].next = task[t].next /\ task'[t].at = i
        /\ task[t].pc = "start" /\ i[2] \in 1..Len(task[t].config)
        /\ i \in Provider
    BY <1>1, <1>12 DEF BeginStart, Running, Coroutine, Provider
  <2>2. life' = [life EXCEPT ![i] = "starting"] /\ UNCHANGED <<run, owns>>
    BY <1>12 DEF BeginStart
  <2>3. /\ life'[i] = "starting"
        /\ \A j \in Provider : j # i => life'[j] = life[j]
    BY <2>1, <2>2 DEF SerialInv, TypeInv, TypeOK
  <2>4. Lives'
    BY <1>1, <1>6, <2>1, <2>3, ProviderShape DEF SerialInv, Lives
  <2>5. Listing' /\ OwnedToTheEnd'
    BY <1>2, <1>9, <2>1, <2>2, <2>3, ListingKept DEF SerialInv, OwnedToTheEnd
  <2>6. QED BY <1>0, <1>7, <2>1, <2>2, <2>4, <2>5 DEF SerialInv
<1>13. ASSUME Running(t, "starting")
       PROVE  task[t].at = i /\ i \in Provider /\ i[2] \in 1..Len(task[t].config)
              /\ task[t].next \in 1..Len(task[t].config)
  BY <1>1, <1>13 DEF SerialInv, TypeInv, StartsNext, Running, Provider
<1>14. ASSUME Running(t, "starting"), task' = Passed(t), NEW v \in {"running", "failed"},
              life' = [life EXCEPT ![task[t].at] = v]
       PROVE  /\ Moves("start") /\ Lives'
              /\ life'[i] = v /\ \A j \in Provider : j # i => life'[j] = life[j]
  <2>1. Moves("start") /\ task'[t].next = task[t].next + 1 /\ task[t].pc = "starting"
    BY <1>1, <1>14 DEF Passed, Running, Coroutine
  <2>2. life'[i] = v /\ \A j \in Provider : j # i => life'[j] = life[j]
    BY <1>13, <1>14 DEF SerialInv, TypeInv, TypeOK
  <2>3. Lives'
    BY <1>1, <1>6, <1>13, <1>14, <2>1, <2>2, ProviderShape DEF SerialInv, Lives
  <2>4. QED BY <2>1, <2>2, <2>3
<1>15. CASE Started(t)
  <2>1. Running(t, "starting") /\ task' = Passed(t) /\ run' = run /\ owns' = Enrol(t)
    BY <1>15 DEF Started
  <2>2. /\ Moves("start") /\ Lives'
        /\ life'[i] = "running" /\ \A j \in Provider : j # i => life'[j] = life[j]
    BY <1>14, <1>15, <2>1 DEF Started
  <2>3. i \in Provider /\ task[t].next \in 1..Len(task[t].config) /\ task[t].at = i
    BY <1>13, <2>1
  <2>4. task[t].config[task[t].next] \in PairId
    BY <1>1, <2>3, ConfigAssumption DEF Coroutine
  <2>5. /\ \A m \in Task : m # t => owns'[m] = owns[m]
        /\ \A p \in PairId : p # task[t].config[task[t].next] => owns'[t][p] = owns[t][p]
        /\ owns'[t][task[t].config[task[t].next]] = i
    BY <2>1, <2>3, <2>4 DEF Enrol, SerialInv, TypeInv, TypeOK
  <2>6. Listing'
    <3>1. ASSUME NEW m \in Task, NEW p \in PairId, owns[m][p] # None
          PROVE  life'[owns[m][p]] # "none"
      <4>1. owns[m][p] \in Provider
        BY <3>1 DEF SerialInv, TypeInv, TypeOK
      <4>2. life[owns[m][p]] # "none"
        BY <3>1 DEF SerialInv, Listing
      <4>3. QED BY <2>2, <4>1, <4>2
    <3>2. QED BY <2>2, <2>5, <3>1 DEF SerialInv, Listing
  <2>7. ASSUME NEW j \in Provider, life'[j] \in {"running", "stopping"}
        PROVE  owns'[t][PairOf(j)'] = j
    <3>1. PairOf(j)' = PairOf(j)
      BY <1>9, <2>2
    <3>2. CASE j = i
      BY <2>5, <3>1, <3>2 DEF PairOf
    <3>3. CASE j # i
      <4>1. life[j] \in {"running", "stopping"} /\ owns[t][PairOf(j)] = j
        BY <1>2, <2>2, <2>7, <3>3 DEF SerialInv, OwnedToTheEnd
      <4>2. PairOf(j) # task[t].config[task[t].next]
        BY <1>2, <2>3, <3>3, <4>1, Distinct
      <4>3. PairOf(j) \in PairId
        BY <4>1, PairOfType
      <4>4. QED BY <2>5, <3>1, <4>1, <4>2, <4>3
    <3>4. QED BY <3>2, <3>3
  <2>8. OwnedToTheEnd'
    BY <1>2, <2>7 DEF OwnedToTheEnd
  <2>9. QED BY <1>0, <1>7, <2>1, <2>2, <2>6, <2>8 DEF SerialInv
<1>16. CASE StartFails(t)
  <2>1. /\ Moves("start") /\ Lives' /\ UNCHANGED <<run, owns>>
        /\ life'[i] = "failed" /\ \A j \in Provider : j # i => life'[j] = life[j]
    BY <1>14, <1>16 DEF StartFails
  <2>2. Listing' /\ OwnedToTheEnd'
    BY <1>2, <1>9, <2>1, ListingKept DEF SerialInv, OwnedToTheEnd
  <2>3. QED BY <1>0, <1>7, <2>1, <2>2 DEF SerialInv
<1>17. CASE StartRejects(t)
  <2>1. Moves("failed") /\ task[t].pc = "starting" /\ task'[t].next = task[t].next
    BY <1>1, <1>17 DEF StartRejects, Abort, Running, Coroutine
  <2>2. task[t].at = i /\ i \in Provider /\ UNCHANGED owns
    BY <1>13, <1>17 DEF StartRejects, Abort
  <2>3. life'[i] = "failed" /\ \A j \in Provider : j # i => life'[j] = life[j]
    BY <1>17, <2>2 DEF StartRejects, SerialInv, TypeInv, TypeOK
  <2>4. Lives'
    BY <1>6, <1>13, <1>17, <2>1, <2>2, <2>3, ProviderShape
       DEF StartRejects, SerialInv, Lives
  <2>5. Listing' /\ OwnedToTheEnd'
    BY <1>2, <1>9, <2>1, <2>2, <2>3, ListingKept DEF SerialInv, OwnedToTheEnd
  <2>6. QED BY <1>0, <1>8, <1>17, <2>1, <2>4, <2>5 DEF StartRejects, Abort, SerialInv
<1>18. QED BY <1>10, <1>11, <1>12, <1>15, <1>16, <1>17 DEF Start

\* The steps of stop_all: a provider leaves the list of those still to be
\* stopped when it has stopped.
LEMMA SerialStop ==
  ASSUME SerialInv, NEW t \in Task, Stop(t)
  PROVE  SerialInv'
<1>0. TypeInv'
  BY StopType DEF SerialInv
<1>1. task[t] \in Coroutine /\ task \in [Task -> Coroutine]
  BY DEF SerialInv, TypeInv, TypeOK
<1>2. /\ task[t].pc \in {"stop", "stopping"} /\ run # "ended" /\ Active(t)
      /\ UNCHANGED <<run, owns, current, config, shown>>
  BY DEF Stop, BeginStop, Stopped, Running, Active
<1>3. \A s \in Task : s # t => ~Active(s)
  BY <1>2 DEF SerialInv, Turn
<1>4. ASSUME NEW l \in {"stop", "stopping"}, task'[t].pc = l,
             task'[t].config = task[t].config,
             \A s \in Task : s # t => task'[s] = task[s]
      PROVE  /\ Turn' /\ Filling' /\ EndsStopped'
             /\ \A j \in Provider : PairOf(j)' = PairOf(j)
  <2>1. \A s \in Task : Active(s)' => s = t
    BY <1>3, <1>4 DEF Active
  <2>2. Turn'
    BY <1>2, <1>4, <2>1 DEF SerialInv, Turn, Active, Task
  <2>3. Filling'
    BY <1>2, <1>4 DEF SerialInv, Filling
  <2>4. EndsStopped'
    BY <1>2 DEF EndsStopped
  <2>5. \A j \in Provider : PairOf(j)' = PairOf(j)
    BY <1>4, ProviderShape DEF PairOf
  <2>6. QED BY <2>2, <2>3, <2>4, <2>5
<1>5. \A j \in Provider : life[j] # "none" => j[1] # t /\ j[1] \in Task
  BY <1>2, ProviderShape DEF SerialInv, Lives
<1>6. task[t].victims \subseteq Provider
  BY <1>1 DEF Coroutine
<1>7. ASSUME NEW i \in Provider, BeginStop(t, i)
      PROVE  SerialInv'
  <2>1. /\ task'[t].pc = "stopping" /\ task'[t].at = i
        /\ task'[t].config = task[t].config /\ task'[t].of = task[t].of
        /\ task'[t].victims = task[t].victims /\ i \in task[t].victims
        /\ \A s \in Task : s # t => task'[s] = task[s]
        /\ task[t].pc = "stop"
    BY <1>1, <1>7 DEF BeginStop, Running, Coroutine
  <2>2. /\ life'[i] = IF life[i] = "running" THEN "stopping" ELSE life[i]
        /\ \A j \in Provider : j # i => life'[j] = life[j]
    BY <1>7 DEF BeginStop, SerialInv, TypeInv, TypeOK
  <2>3. /\ Turn' /\ Filling' /\ EndsStopped'
        /\ \A j \in Provider : PairOf(j)' = PairOf(j)
    BY <1>4, <2>1
  <2>4. Emptying'
    BY <1>2, <1>3, <1>6, <2>1, <2>2 DEF SerialInv, Emptying, Active
  <2>5. \A j \in Provider : life[j] \notin {"starting", "stopping"}
    BY <1>2, <1>3, <2>1, ProviderShape DEF SerialInv, Lives, Active
  <2>6. Lives'
    <3>1. life[i] # "none"
      BY <2>1 DEF SerialInv, Emptying
    <3>2. \A j \in Provider :
            /\ life'[j] # "none" => life[j] # "none" /\ task'[j[1]] = task[j[1]]
            /\ life'[j] # "starting"
            /\ life'[j] = "stopping" => j = i
      BY <1>5, <2>1, <2>2, <2>5, <3>1
    <3>3. QED BY <2>1, <3>2 DEF SerialInv, Lives
  <2>7. Listing' /\ OwnedToTheEnd'
    BY <1>2, <2>2, <2>3, ListingKept DEF SerialInv, OwnedToTheEnd
  <2>8. QED BY <1>0, <2>3, <2>4, <2>6, <2>7 DEF SerialInv
<1>8. CASE Stopped(t)
  <2> DEFINE i == task[t].at
  <2>1. /\ task'[t].pc = "stop" /\ task'[t].config = task[t].config
        /\ task'[t].of = task[t].of /\ task'[t].victims = task[t].victims \ {i}
        /\ \A s \in Task : s # t => task'[s] = task[s]
        /\ task[t].pc = "stopping"
    BY <1>1, <1>8 DEF Stopped, Running, Coroutine
  <2>2. i \in Provider
    BY <1>1, <2>1 DEF SerialInv, Emptying, Coroutine
  <2>3. life'[i] = "stopped" /\ \A j \in Provider : j # i => life'[j] = life[j]
    BY <1>8, <2>2 DEF Stopped, SerialInv, TypeInv, TypeOK
  <2>4. /\ Turn' /\ Filling' /\ EndsStopped'
        /\ \A j \in Provider : PairOf(j)' = PairOf(j)
    BY <1>4, <2>1
  <2>5. Emptying'
    BY <1>2, <1>3, <1>6, <2>1, <2>3 DEF SerialInv, Emptying, Active
  <2>6. \A j \in Provider : j # i => life[j] \notin {"starting", "stopping"}
    BY <1>2, <1>3, <2>1, ProviderShape DEF SerialInv, Lives, Active
  <2>7. life[i] # "none"
    BY <2>1 DEF SerialInv, Emptying
  <2>8. Lives'
    <3>1. \A j \in Provider :
            /\ life'[j] # "none" => life[j] # "none" /\ task'[j[1]] = task[j[1]]
            /\ life'[j] \notin {"starting", "stopping"}
      BY <1>5, <2>1, <2>3, <2>6, <2>7
    <3>2. QED BY <3>1 DEF SerialInv, Lives
  <2>9. Listing' /\ OwnedToTheEnd'
    BY <1>2, <2>3, <2>4, ListingKept DEF SerialInv, OwnedToTheEnd
  <2>10. QED BY <1>0, <2>4, <2>5, <2>8, <2>9 DEF SerialInv
<1>9. QED BY <1>7, <1>8 DEF Stop

\* The beginning of stop_all, when no task is at work: its list holds all that
\* runs.
LEMMA SerialBeginStopAll ==
  ASSUME SerialInv, TypeInv', NEW t \in Task, NEW c \in Config, t # Boot,
         task[t].pc = "idle", \A s \in Task : ~Active(s),
         BeginStopAll(t, c), UNCHANGED <<owns, life, current>>,
         \/ t \in Request /\ run = "serving" /\ run' = "serving"
         \/ t = Halt /\ run' = "ending"
  PROVE  SerialInv'
<1>1. task[t] \in Coroutine /\ task \in [Task -> Coroutine] /\ current \in Task
  BY DEF SerialInv, TypeInv, TypeOK
<1>2. /\ task'[t].pc = "stop" /\ task'[t].of = current
      /\ task'[t].victims = Victims(current)
      /\ \A s \in Task : s # t => task'[s] = task[s]
  BY <1>1 DEF BeginStopAll, Coroutine
<1>3. \A s \in Task : Active(s)' => s = t
  BY <1>2 DEF Active
<1>4. \A j \in Provider : life[j] # "none" =>
        /\ j[1] # t /\ j[1] \in Task /\ task'[j[1]] = task[j[1]]
        /\ PairOf(j)' = PairOf(j)
  BY <1>2, ProviderShape DEF SerialInv, Lives, PairOf
<1>5. Turn'
  BY <1>2, <1>3, TaskAssumption DEF SerialInv, Turn, Task
<1>6. Filling'
  BY <1>2, <1>3 DEF Filling, Active
<1>7. ASSUME NEW j \in Provider, life[j] = "running"
      PROVE  j \in Victims(current)
  <2>1. owns[current][PairOf(j)] = j /\ PairOf(j) \in PairId
    BY <1>7, PairOfType DEF SerialInv, OwnedToTheEnd
  <2>2. j # None
    BY ProviderShape
  <2>3. DOMAIN owns[current] = PairId
    BY <1>1 DEF SerialInv, TypeInv, TypeOK
  <2>4. QED BY <2>1, <2>2, <2>3 DEF Victims, Range
<1>8. ASSUME NEW j \in Victims(current)
      PROVE  life[j] # "none"
  <2>1. PICK p \in PairId : j = owns[current][p]
    BY <1>1 DEF Victims, Range, SerialInv, TypeInv, TypeOK
  <2>2. j # None
    BY DEF Victims
  <2>3. QED BY <1>1, <2>1, <2>2 DEF SerialInv, Listing
<1>9. Emptying'
  BY <1>2, <1>3, <1>7, <1>8 DEF Emptying, Active
<1>10. \A j \in Provider : life[j] \notin {"starting", "stopping"}
  BY ProviderShape DEF SerialInv, Lives, Active
<1>11. Lives'
  BY <1>4, <1>10 DEF SerialInv, Lives
<1>12. Listing' /\ OwnedToTheEnd'
  BY <1>4, ListingKept DEF SerialInv, OwnedToTheEnd
<1>13. EndsStopped'
  BY DEF EndsStopped
<1>14. QED BY <1>5, <1>6, <1>9, <1>11, <1>12, <1>13 DEF SerialInv

\* The daemon's steps: a manager is replaced, and the daemon ends, when
\* nothing of the old one is left.
LEMMA SerialDaemon ==
  ASSUME Serial, SerialInv,
         \/ \E t \in Task : Replace(t) \/ Finish(t)
         \/ \E t \in Request, c \in Config : Apply(t, c)
         \/ Shutdown \/ CloseApi \/ End
  PROVE  SerialInv'
<1>0. TypeInv'
  BY DaemonType DEF SerialInv
<1>1. task \in [Task -> Coroutine]
  BY DEF SerialInv, TypeInv, TypeOK
<1>2. ASSUME NEW t \in Task, NEW l, task' = [task EXCEPT ![t].pc = l]
      PROVE  /\ task'[t].pc = l /\ task'[t].config = task[t].config
             /\ task'[t].next = task[t].next /\ task'[t].at = task[t].at
             /\ \A s \in Task : s # t => task'[s] = task[s]
             /\ \A j \in Provider : PairOf(j)' = PairOf(j)
  BY <1>1, <1>2, ProviderShape DEF Coroutine, PairOf
<1>3. ASSUME NEW t \in Task, AllStopped(t)
      PROVE  /\ Active(t) /\ \A s \in Task : s # t => ~Active(s)
             /\ \A j \in Provider : life[j] \notin {"starting", "running", "stopping"}
             /\ \A j \in Provider : life[j] # "none" => j[1] # t /\ j[1] \in Task
             /\ task[t].of = current /\ task[t].pc = "stop"
  <2>1. task[t].pc = "stop" /\ Active(t) /\ \A s \in Task : s # t => ~Active(s)
    BY <1>3 DEF AllStopped, Running, Active, SerialInv, Turn
  <2>2. \A j \in Provider : life[j] # "running" /\ task[t].of = current
    BY <1>3, <2>1 DEF AllStopped, SerialInv, Emptying
  <2>3. \A j \in Provider : life[j] \notin {"starting", "stopping"}
    BY <2>1, ProviderShape DEF SerialInv, Lives, Active
  <2>4. \A j \in Provider : life[j] # "none" => j[1] # t /\ j[1] \in Task
    BY <2>1, ProviderShape DEF SerialInv, Lives
  <2>5. task[t].of = current
    BY <2>1 DEF SerialInv, Emptying
  <2>6. QED BY <2>1, <2>2, <2>3, <2>4, <2>5
<1>4. ASSUME UNCHANGED life, NEW m \in Task, owns' = [owns EXCEPT ![m] = Empty]
      PROVE  Listing'
  BY <1>4 DEF SerialInv, Listing, Empty, TypeInv, TypeOK
<1>5. ASSUME NEW t \in Task, Replace(t)
      PROVE  SerialInv'
  <2>1. /\ t \in Request /\ AllStopped(t) /\ UNCHANGED <<run, life>> /\ current' = t
        /\ task' = [task EXCEPT ![t].pc = "start"]
        /\ t # Halt /\ t # Boot
    BY <1>5, TaskAssumption DEF Replace
  <2>2. /\ task'[t].pc = "start"
        /\ \A s \in Task : s # t => task'[s] = task[s]
    BY <1>2, <2>1
  <2>3. \A s \in Task : Active(s)' => s = t
    BY <1>3, <2>1, <2>2 DEF Active
  <2>4. Turn'
    BY <1>3, <2>1, <2>2, <2>3 DEF SerialInv, Turn, Task
  <2>5. Filling' /\ Emptying'
    BY <2>1, <2>2, <2>3 DEF Filling, Emptying, Active
  <2>6. Lives'
    BY <1>3, <2>1, <2>2 DEF SerialInv, Lives
  <2>7. OwnedToTheEnd' /\ EndsStopped'
    BY <1>3, <2>1 DEF OwnedToTheEnd, EndsStopped
  <2>8. Listing'
    <3>1. task[t].of \in Task
      BY <1>1 DEF Coroutine
    <3>2. QED BY <1>4, <1>5, <3>1 DEF Replace
  <2>9. QED BY <1>0, <2>4, <2>5, <2>6, <2>7, <2>8 DEF SerialInv
<1>6. ASSUME NEW t \in Task, Finish(t)
      PROVE  SerialInv'
  <2>1. /\ task[t].pc = "start" /\ run # "ended" /\ Active(t)
        /\ UNCHANGED <<owns, life, current>>
        /\ task' = [task EXCEPT ![t].pc = "done"]
        /\ run' = IF t = Boot THEN "serving" ELSE run
    BY <1>6 DEF Finish, Running, Active
  <2>2. /\ task'[t].pc = "done" /\ task'[t].config = task[t].config
        /\ \A s \in Task : s # t => task'[s] = task[s]
        /\ \A j \in Provider : PairOf(j)' = PairOf(j)
    BY <1>2, <2>1
  <2>3. t # Halt /\ \A s \in Task : ~Active(s)'
    BY <2>1, <2>2 DEF SerialInv, Turn, Filling, Active
  <2>4. Turn' /\ EndsStopped'
    BY <2>1, <2>2, <2>3 DEF SerialInv, Turn, Task, EndsStopped
  <2>5. Filling' /\ Emptying'
    BY <2>3 DEF Filling, Emptying, Active
  <2>6. \A j \in Provider : life[j] # "stopping"
    BY <2>1 DEF SerialInv, Lives, Turn, Active
  <2>7. Lives'
    BY <2>1, <2>2, <2>6, ProviderShape DEF SerialInv, Lives
  <2>8. Listing' /\ OwnedToTheEnd'
    BY <2>1, <2>2, ListingKept DEF SerialInv, OwnedToTheEnd
  <2>9. QED BY <1>0, <2>4, <2>5, <2>7, <2>8 DEF SerialInv
<1>7. ASSUME NEW t \in Request, NEW c \in Config, Apply(t, c)
      PROVE  SerialInv'
  <2>1. t \in Task /\ t # Boot
    BY TaskAssumption DEF Task
  <2>2. QED BY <1>0, <1>7, <2>1, SerialBeginStopAll DEF Apply, Alone, Serial
<1>8. CASE Shutdown
  <2>1. /\ UNCHANGED <<task, owns, life, current>> /\ run = "serving"
        /\ run' = "closing" /\ \A s \in Task : ~Active(s)
    BY <1>8 DEF Shutdown, Alone, Serial
  <2>2. Turn' /\ Filling' /\ Emptying' /\ Lives' /\ Listing'
    BY <2>1 DEF SerialInv, Turn, Filling, Emptying, Lives, Listing, Active
  <2>3. OwnedToTheEnd' /\ EndsStopped'
    BY <2>1 DEF SerialInv, OwnedToTheEnd, PairOf, EndsStopped
  <2>4. QED BY <1>0, <2>2, <2>3 DEF SerialInv
<1>9. CASE CloseApi
  <2>1. /\ Halt \in Task /\ Halt # Boot /\ config \in Config /\ run = "closing"
        /\ task[Halt].pc = "idle"
    BY <1>9, TaskAssumption DEF Task, CloseApi, SerialInv, TypeInv, TypeOK, Turn
  <2>2. \A s \in Task : ~Active(s)
    BY <2>1 DEF SerialInv, Turn
  <2>3. QED BY <1>0, <1>9, <2>1, <2>2, SerialBeginStopAll DEF CloseApi
<1>10. CASE End
  <2>1. /\ Halt \in Task /\ AllStopped(Halt) /\ UNCHANGED <<life, current>>
        /\ run' = "ended" /\ task' = [task EXCEPT ![Halt].pc = "done"]
    BY <1>10 DEF End, Task
  <2>2. /\ task'[Halt].pc = "done"
        /\ \A s \in Task : s # Halt => task'[s] = task[s]
    BY <1>2, <2>1
  <2>3. \A s \in Task : ~Active(s)'
    BY <1>3, <2>1, <2>2 DEF Active
  <2>4. Turn' /\ Filling' /\ Emptying'
    BY <2>1, <2>3 DEF Turn, Filling, Emptying, Active
  <2>5. Lives'
    BY <1>3, <2>1, <2>2 DEF SerialInv, Lives
  <2>6. OwnedToTheEnd' /\ EndsStopped'
    BY <1>3, <2>1 DEF OwnedToTheEnd, EndsStopped
  <2>7. Listing'
    <3>1. task[Halt].of \in Task
      BY <1>1, <2>1 DEF Coroutine
    <3>2. QED BY <1>4, <1>10, <3>1 DEF End
  <2>8. QED BY <1>0, <2>4, <2>5, <2>6, <2>7 DEF SerialInv
<1>11. QED BY <1>5, <1>6, <1>7, <1>8, <1>9, <1>10

\* Every step keeps the invariant.
LEMMA SerialStep ==
  ASSUME Serial, UniqueIds
  PROVE  SerialInv /\ [Next]_vars => SerialInv'
<1>1. ASSUME SerialInv, UNCHANGED vars PROVE SerialInv'
  <2>1. TypeInv'
    BY <1>1, DaemonStepType DEF SerialInv
  <2>2. Turn' /\ Filling' /\ Emptying' /\ Lives' /\ Listing'
    BY <1>1 DEF vars, SerialInv, Turn, Filling, Emptying, Lives, Listing, Active
  <2>3. OwnedToTheEnd' /\ EndsStopped'
    BY <1>1 DEF vars, SerialInv, OwnedToTheEnd, PairOf, EndsStopped
  <2>4. QED BY <2>1, <2>2, <2>3 DEF SerialInv
<1>2. QED BY <1>1, SerialStart, SerialStop, SerialDaemon DEF Next, Step

\* As long as configurations are applied one after the other, no pair has two
\* live providers, whichever starts fail or abort (apply_config, start_all).
THEOREM OneInstanceAlways ==
  ASSUME Serial, UniqueIds
  PROVE  Spec => []OneInstance
<1>1. SerialInv => OneInstance
  BY SerialOneInstance
<1>2. QED BY <1>1, SerialInit, SerialStep, PTL DEF Spec

\* ... every provider that runs is listed by the daemon's manager, so that the
\* next change or the shutdown stops it (stop_all) ...
THEOREM OwnedAlways ==
  ASSUME Serial, UniqueIds
  PROVE  Spec => []Owned
<1>1. SerialInv => Owned
  BY DEF SerialInv, OwnedToTheEnd, Owned
<1>2. QED BY <1>1, SerialInit, SerialStep, PTL DEF Spec

\* ... and a daemon that has ended has left nothing running (_shutdown).
THEOREM EndsStoppedAlways ==
  ASSUME Serial, UniqueIds
  PROVE  Spec => []EndsStopped
<1>1. SerialInv => EndsStopped
  BY DEF SerialInv
<1>2. QED BY <1>1, SerialInit, SerialStep, PTL DEF Spec
-----------------------------------------------------------------------------
(* What the API shows                                                      *)

\* The manager that has been filled is the one the API has been given, with
\* the configuration it was filled from; the shutdown makes no manager.
Published ==
    /\ current # Halt
    /\ task[current].pc = "done" =>
          /\ shown = [config |-> task[current].config, manager |-> current]
          /\ config = task[current].config

\* Publication is kept by every step: only Finish says that a manager has been
\* filled, and that manager is the daemon's.
LEMMA PublishedStep ==
  ASSUME SerialInv, Published, [Next]_vars
  PROVE  Published'
<1>1. task \in [Task -> Coroutine] /\ current \in Task
  BY DEF SerialInv, TypeInv, TypeOK
<1>2. ASSUME UNCHANGED <<current, config, shown>>,
             \A s \in Task : task'[s].pc = "done" => task'[s] = task[s]
      PROVE  Published'
  BY <1>1, <1>2 DEF Published
<1>3. ASSUME NEW t \in Task, Start(t) \/ Stop(t)
      PROVE  Published'
  <2>1. UNCHANGED <<current, config, shown>>
    BY <1>3 DEF Start, SkipPair, RejectPair, BeginStart, Started, StartFails, StartRejects,
                Abort, Stop, BeginStop, Stopped
  <2>2. /\ \A s \in Task : s # t => task'[s] = task[s]
        /\ task'[t].pc \in {"start", "starting", "failed", "stop", "stopping"}
    BY <1>1, <1>3
    DEF Start, SkipPair, RejectPair, BeginStart, Started, StartFails, StartRejects,
        Abort, Passed, Stop, BeginStop, Stopped, Running, Coroutine
  <2>3. QED BY <1>2, <2>1, <2>2
<1>4. ASSUME NEW t \in Task, Replace(t)
      PROVE  Published'
  <2>1. current' = t /\ t # Halt /\ task' = [task EXCEPT ![t].pc = "start"]
    BY <1>4, TaskAssumption DEF Replace
  <2>2. task'[t].pc = "start"
    BY <1>1, <2>1 DEF Coroutine
  <2>3. QED BY <2>1, <2>2 DEF Published
<1>5. ASSUME NEW t \in Task, Finish(t)
      PROVE  Published'
  <2>1. /\ current = t /\ current' = t
        /\ task' = [task EXCEPT ![t].pc = "done"]
        /\ config' = task[t].config
        /\ shown' = [config |-> task[t].config, manager |-> t]
    BY <1>5 DEF Finish, Running, Publish, SerialInv, Filling
  <2>2. task'[t].config = task[t].config
    BY <1>1, <2>1 DEF Coroutine
  <2>3. QED BY <2>1, <2>2 DEF Published
<1>6. ASSUME NEW t \in Task, NEW c \in Config, BeginStopAll(t, c),
             UNCHANGED <<current, config, shown>>
      PROVE  Published'
  <2>1. \A s \in Task : s # t => task'[s] = task[s]
    BY <1>1, <1>6 DEF BeginStopAll
  <2>2. task'[t].pc = "stop"
    BY <1>1, <1>6 DEF BeginStopAll, Coroutine
  <2>3. QED BY <1>2, <1>6, <2>1, <2>2
<1>7. CASE \E t \in Request, c \in Config : Apply(t, c)
  BY <1>6, <1>7 DEF Apply, Task
<1>8. CASE CloseApi
  <2>1. Halt \in Task /\ config \in Config
    BY DEF Task, SerialInv, TypeInv, TypeOK
  <2>2. QED BY <1>6, <1>8, <2>1 DEF CloseApi
<1>9. CASE Shutdown \/ UNCHANGED vars
  BY <1>2, <1>9 DEF Shutdown, vars
<1>10. CASE End
  <2>1. UNCHANGED <<current, config, shown>> /\ task' = [task EXCEPT ![Halt].pc = "done"]
    BY <1>10 DEF End
  <2>2. task'[current] = task[current]
    BY <1>1, <2>1 DEF Published
  <2>3. QED BY <2>1, <2>2 DEF Published
<1>11. QED BY <1>3, <1>4, <1>5, <1>7, <1>8, <1>9, <1>10 DEF Next, Step

\* ... and between changes the API shows the manager that runs, with its
\* configuration, and every running provider is of that manager
\* (apply_config, _app_state).
THEOREM ShownIsServedAlways ==
  ASSUME Serial, UniqueIds
  PROVE  Spec => []ShownIsServed
<1>1. Init => Published
  <2>1. ASSUME Init PROVE Published
    <3>1. current = Boot /\ Boot # Halt /\ Boot \in Task
      BY <2>1, TaskAssumption DEF Init, Task
    <3>2. task[Boot].pc = "start"
      BY <2>1, <3>1 DEF Init
    <3>3. QED BY <3>1, <3>2 DEF Published
  <2>2. QED BY <2>1
<1>2. SerialInv /\ Published => ShownIsServed
  <2>1. ASSUME SerialInv, NEW i \in Provider, life[i] = "running"
        PROVE  i[1] = current
    <3>1. owns[current][PairOf(i)] = i /\ PairOf(i) \in PairId
      BY <2>1, PairOfType DEF SerialInv, OwnedToTheEnd
    <3>2. current \in Task /\ i # None
      BY <2>1, ProviderShape DEF SerialInv, TypeInv, TypeOK
    <3>3. QED BY <2>1, <3>1, <3>2 DEF SerialInv, Listing
  <2>2. QED BY <2>1 DEF Published, ShownIsServed
<1>3. SerialInv /\ Published /\ [Next]_vars => Published'
  BY PublishedStep
<1>4. QED BY <1>1, <1>2, <1>3, SerialInit, SerialStep, PTL DEF Spec
=============================================================================
