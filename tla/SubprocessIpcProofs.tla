------------------------ MODULE SubprocessIpcProofs ------------------------
(***************************************************************************)
(* What holds of SubprocessIpc for every set of calls and whatever may     *)
(* happen to the binary.                                                   *)
(***************************************************************************)
EXTENDS SubprocessIpc, SequenceTheorems, TLAPS

-----------------------------------------------------------------------------
(* The queue of the lock                                                   *)

Queued(q, d) == \E n \in DOMAIN q : q[n] = d

\* Without takes one call out of the queue and keeps the order of the others.
LEMMA WithoutOne ==
  ASSUME lock \in Seq(Call), IsInjective(lock), NEW c \in Call, Queued(lock, c)
  PROVE  /\ Without(c) \in Seq(Call) /\ IsInjective(Without(c))
         /\ \A d \in Call : Queued(Without(c), d) <=> d # c /\ Queued(lock, d)
         /\ lock[1] # c => Without(c)[1] = lock[1]
<1> DEFINE w == Without(c)
           k == CHOOSE n \in DOMAIN lock : lock[n] = c
           before == SubSeq(lock, 1, k - 1)
           after == SubSeq(lock, k + 1, Len(lock))
<1>1. /\ Len(lock) \in Nat /\ DOMAIN lock = 1 .. Len(lock)
      /\ \A n \in 1 .. Len(lock) : lock[n] \in Call
  BY LenProperties
<1>2. k \in 1 .. Len(lock) /\ lock[k] = c
  BY <1>1 DEF Queued
<1>3. w = before \o after
  BY DEF Without, RemoveAt
<1> HIDE DEF k
<1>4. /\ before \in Seq(Call) /\ Len(before) = k - 1
      /\ \A i \in 1 .. k - 1 : before[i] = lock[i]
  <2>1. 1 \in Int /\ k - 1 \in Int /\ \A i \in 1 .. k - 1 : lock[i] \in Call
    BY <1>1, <1>2
  <2>2. QED BY <1>1, <1>2, <2>1, SubSeqProperties
<1>5. /\ after \in Seq(Call) /\ Len(after) = Len(lock) - k
      /\ \A i \in 1 .. Len(lock) - k : after[i] = lock[k + i]
  <2>1. /\ k + 1 \in Int /\ Len(lock) \in Int
        /\ \A i \in k + 1 .. Len(lock) : lock[i] \in Call
    BY <1>1, <1>2
  <2>2. /\ after \in Seq(Call)
        /\ Len(after) = IF k + 1 <= Len(lock) THEN Len(lock) - (k + 1) + 1 ELSE 0
        /\ \A i \in 1 .. Len(lock) - (k + 1) + 1 : after[i] = lock[k + 1 + i - 1]
    BY <2>1, SubSeqProperties
  <2> HIDE DEF after
  <2>3. ASSUME NEW i \in 1 .. Len(lock) - k
        PROVE  after[i] = lock[k + i]
    <3>1. i \in 1 .. Len(lock) - (k + 1) + 1 /\ k + 1 + i - 1 = k + i
      BY <1>1, <1>2
    <3>2. after[i] = lock[k + 1 + i - 1]
      BY <2>2, <3>1
    <3>3. QED BY <3>1, <3>2
  <2>4. Len(after) = Len(lock) - k
    <3>1. k \in Int /\ Len(lock) \in Int /\ k <= Len(lock)
      BY <1>1, <1>2
    <3>2. CASE k < Len(lock)
      BY <2>2, <3>1, <3>2
    <3>3. CASE k = Len(lock)
      BY <2>2, <3>1, <3>3
    <3>4. QED BY <3>1, <3>2, <3>3
  <2>5. QED BY <2>2, <2>3, <2>4
<1>6. /\ w \in Seq(Call) /\ Len(w) = Len(lock) - 1 /\ DOMAIN w = 1 .. Len(lock) - 1
      /\ \A i \in 1 .. Len(lock) - 1 : w[i] = IF i < k THEN lock[i] ELSE lock[i + 1]
  <2> HIDE DEF w, before, after
  <2>1. /\ before \o after \in Seq(Call)
        /\ Len(before \o after) = Len(before) + Len(after)
        /\ \A i \in 1 .. Len(before) + Len(after) :
             (before \o after)[i] = IF i <= Len(before) THEN before[i]
                                    ELSE after[i - Len(before)]
    BY <1>4, <1>5, ConcatProperties
  <2>2. w \in Seq(Call) /\ Len(w) = Len(lock) - 1
    BY <1>1, <1>2, <1>3, <1>4, <1>5, <2>1
  <2>3. DOMAIN w = 1 .. Len(lock) - 1
    BY <2>2, LenProperties
  <2>4. ASSUME NEW i \in 1 .. Len(lock) - 1
        PROVE  w[i] = IF i < k THEN lock[i] ELSE lock[i + 1]
    <3>1. w[i] = IF i <= k - 1 THEN before[i] ELSE after[i - (k - 1)]
      BY <1>1, <1>2, <1>3, <1>4, <1>5, <2>1
    <3>2. CASE i < k
      BY <1>2, <1>4, <3>1, <3>2
    <3>3. CASE i >= k
      BY <1>1, <1>2, <1>5, <3>1, <3>3
    <3>4. QED BY <1>2, <3>2, <3>3
  <2>5. QED BY <2>2, <2>3, <2>4
<1> HIDE DEF w
<1>7. \A a, b \in 1 .. Len(lock) : lock[a] = lock[b] => a = b
  BY <1>1 DEF IsInjective
<1>8. IsInjective(w)
  BY <1>1, <1>2, <1>6, <1>7 DEF IsInjective
<1>9. ASSUME NEW d \in Call
      PROVE  Queued(w, d) <=> d # c /\ Queued(lock, d)
  <2>1. ASSUME NEW i \in 1 .. Len(lock) - 1, w[i] = d
        PROVE  d # c /\ Queued(lock, d)
    BY <1>1, <1>2, <1>6, <1>7, <2>1 DEF Queued
  <2>2. ASSUME NEW n \in 1 .. Len(lock), lock[n] = d, d # c
        PROVE  Queued(w, d)
    <3>1. CASE n < k
      BY <1>1, <1>2, <1>6, <2>2, <3>1 DEF Queued
    <3>2. CASE n > k
      <4>1. n - 1 \in 1 .. Len(lock) - 1 /\ w[n - 1] = d
        BY <1>1, <1>2, <1>6, <2>2, <3>2
      <4>2. QED BY <1>6, <4>1 DEF Queued
    <3>3. QED BY <1>2, <2>2, <3>1, <3>2
  <2>3. QED BY <1>1, <1>6, <2>1, <2>2 DEF Queued
<1>10. ASSUME lock[1] # c
       PROVE  w[1] = lock[1]
  BY <1>1, <1>2, <1>6, <1>10
<1>11. QED BY <1>6, <1>8, <1>9, <1>10 DEF w

\* Who begins to wait goes to the end of it.
LEMMA AppendOne ==
  ASSUME lock \in Seq(Call), IsInjective(lock), NEW c \in Call, ~Queued(lock, c)
  PROVE  /\ Append(lock, c) \in Seq(Call) /\ IsInjective(Append(lock, c))
         /\ \A d \in Call : Queued(Append(lock, c), d) <=> d = c \/ Queued(lock, d)
         /\ lock # <<>> => Append(lock, c)[1] = lock[1]
<1> DEFINE a == Append(lock, c)
<1>1. /\ Len(lock) \in Nat /\ DOMAIN lock = 1 .. Len(lock)
      /\ lock # <<>> => Len(lock) # 0
  BY LenProperties, EmptySeq
<1>2. /\ a \in Seq(Call) /\ Len(a) = Len(lock) + 1
      /\ \A i \in 1 .. Len(lock) : a[i] = lock[i]
      /\ a[Len(lock) + 1] = c
  BY AppendProperties
<1>3. DOMAIN a = 1 .. Len(lock) + 1
  BY <1>2, LenProperties
<1> HIDE DEF a
<1>4. IsInjective(a)
  BY <1>1, <1>2, <1>3 DEF IsInjective, Queued
<1>5. \A d \in Call : Queued(a, d) <=> d = c \/ Queued(lock, d)
  BY <1>1, <1>2, <1>3 DEF Queued
<1>6. lock # <<>> => a[1] = lock[1]
  BY <1>1, <1>2
<1>7. QED BY <1>2, <1>4, <1>5, <1>6 DEF a

-----------------------------------------------------------------------------
(* The inductive invariant                                                 *)

\* A call that waits or has asked is in the queue of the lock and has got
\* nothing; only the holder has asked.
Queue ==
    \A c \in Call :
        /\ pc[c] \in {"idle", "lock", "asked"} => got[c] = "none"
        /\ pc[c] \in {"lock", "asked"} => Queued(lock, c)
        /\ pc[c] = "asked" => lock[1] = c

SomeAbandoned == \E c \in Call : got[c] = "abandoned"

\* Unless a call was abandoned, nothing is in the pipes but the command of
\* the call that has asked, or its answer.
Pipes ==
    \/ SomeAbandoned
    \/ inbox = <<>> /\ outbox = <<>>
    \/ /\ Len(inbox) = 1 /\ outbox = <<>>
       /\ pc[inbox[1]] = "asked"
    \/ /\ inbox = <<>> /\ Len(outbox) = 1
       /\ pc[outbox[1].call] = "asked"

\* A dead binary has an empty stdin; an answer that is nonsense has been given.
Answered ==
    /\ child = "dead" => inbox = <<>>
    /\ \A n \in DOMAIN outbox : outbox[n].kind = "junk" => junk

\* The binary exists once it has been spawned, and is dead once forgotten,
\* unless a stop was cancelled; a stop that comes to its end finds it dead, one
\* that is about to kill it finds it dead or forgotten or has read nonsense.
Binary ==
    /\ child = "none" => life \in {"new", "failed"} /\ \A c \in Call : pc[c] = "idle"
    /\ life = "new" => child = "none"
    /\ ~proc => child \in {"none", "dead"} \/ cut # {}
    /\ \A s \in Stops :
        /\ pc[s] \in {"end", "done"} => child = "dead" \/ cut # {}
        /\ pc[s] = "kill" => child = "dead" \/ junk \/ ~proc
    /\ killed => junk

\* A stop whose command was written has told the binary, which leaves or dies;
\* one that was cancelled has got something for its command or failed.
Obeyed ==
    \A s \in Stops :
        /\ pc[s] = "asked" \/ got[s] \in {"own", "other", "abandoned"} =>
             Told \/ child = "dead"
        /\ pc[s] = "exit" => got[s] \in {"own", "other"}
        /\ s \in cut => pc[s] \in {"end", "done"} /\ got[s] # "none"

IInv == TypeOK /\ Queue /\ Pipes /\ Answered /\ Binary /\ Obeyed

\* What a step of a call may disturb of TypeOK, and Queue.
Callers ==
    /\ lock \in Seq(Call) /\ IsInjective(lock)
    /\ \A n \in DOMAIN lock : pc[lock[n]] \in {"lock", "asked"}
    /\ pc \in [Call -> {"idle", "lock", "asked", "exit", "kill", "end", "done"}]
    /\ got \in [Call -> {"none", "own", "other", "error", "abandoned"}]
    /\ Queue

\* Initially nothing is called and there is no binary.
LEMMA InitInv == Init => IInv
<1> SUFFICES ASSUME Init PROVE IInv
  OBVIOUS
<1>1. lock \in Seq(Call) /\ inbox \in Seq(Call) /\ outbox \in Seq(Answers)
      /\ DOMAIN lock = {} /\ DOMAIN outbox = {}
  BY EmptySeq, LenProperties DEF Init
<1>2. IsInjective(lock)
  BY <1>1 DEF IsInjective
<1>3. TypeOK
  BY <1>1, <1>2 DEF Init, TypeOK
<1>4. Start \notin Stops /\ Stops \subseteq Call
  BY CallAssumption DEF Call
<1>5. Queue /\ Pipes /\ Answered /\ Binary /\ Obeyed
  BY <1>1, <1>4 DEF Init, Queue, Pipes, Answered, Binary, Obeyed
<1>6. QED BY <1>3, <1>5 DEF IInv

\* A call that leaves the queue, with what it got.
LEMMA LeaveQueue ==
  ASSUME IInv, NEW c \in Call, pc[c] \in {"lock", "asked"},
         NEW p \in {"exit", "kill", "end", "done"},
         NEW g \in {"own", "other", "error", "abandoned"},
         pc' = [pc EXCEPT ![c] = p], got' = [got EXCEPT ![c] = g],
         lock' = Without(c)
  PROVE  Callers'
<1>1. /\ lock \in Seq(Call) /\ IsInjective(lock) /\ Queued(lock, c)
      /\ pc \in [Call -> {"idle", "lock", "asked", "exit", "kill", "end", "done"}]
      /\ got \in [Call -> {"none", "own", "other", "error", "abandoned"}]
      /\ \A n \in DOMAIN lock : pc[lock[n]] \in {"lock", "asked"}
  BY DEF IInv, TypeOK, Queue
<1>2. /\ lock' \in Seq(Call) /\ IsInjective(lock')
      /\ \A d \in Call : Queued(lock', d) <=> d # c /\ Queued(lock, d)
      /\ lock[1] # c => lock'[1] = lock[1]
  BY <1>1, WithoutOne
<1>3. \A n \in DOMAIN lock' : lock'[n] \in Call
  BY <1>2, LenProperties
<1>4. \A n \in DOMAIN lock' : pc'[lock'[n]] \in {"lock", "asked"}
  BY <1>1, <1>2, <1>3 DEF Queued
<1>5. Queue'
  <2> SUFFICES ASSUME NEW d \in Call
               PROVE  /\ pc'[d] \in {"idle", "lock", "asked"} => got'[d] = "none"
                      /\ pc'[d] \in {"lock", "asked"} => Queued(lock', d)
                      /\ pc'[d] = "asked" => lock'[1] = d
    BY DEF Queue, Queued
  <2>1. CASE d = c
    BY <1>1, <2>1
  <2>2. CASE d # c
    BY <1>1, <1>2, <2>2 DEF IInv, Queue
  <2>3. QED BY <2>1, <2>2
<1>6. QED BY <1>1, <1>2, <1>4, <1>5 DEF Callers

\* A call that begins to wait.
LEMMA JoinQueue ==
  ASSUME IInv, NEW c \in Call, pc[c] = "idle", Await(c), UNCHANGED got
  PROVE  Callers'
<1>1. /\ lock \in Seq(Call) /\ IsInjective(lock)
      /\ pc \in [Call -> {"idle", "lock", "asked", "exit", "kill", "end", "done"}]
      /\ got \in [Call -> {"none", "own", "other", "error", "abandoned"}]
      /\ \A n \in DOMAIN lock : pc[lock[n]] \in {"lock", "asked"}
  BY DEF IInv, TypeOK
<1>2. ~Queued(lock, c)
  BY <1>1 DEF Queued
<1>3. /\ lock' \in Seq(Call) /\ IsInjective(lock')
      /\ \A d \in Call : Queued(lock', d) <=> d = c \/ Queued(lock, d)
      /\ lock # <<>> => lock'[1] = lock[1]
  BY <1>1, <1>2, AppendOne DEF Await
<1>4. \A n \in DOMAIN lock' : lock'[n] \in Call
  BY <1>3, LenProperties
<1>5. pc' = [pc EXCEPT ![c] = "lock"]
  BY DEF Await
<1>6. \A n \in DOMAIN lock' : pc'[lock'[n]] \in {"lock", "asked"}
  BY <1>1, <1>3, <1>4, <1>5 DEF Queued
<1>7. Queue'
  <2> SUFFICES ASSUME NEW d \in Call
               PROVE  /\ pc'[d] \in {"idle", "lock", "asked"} => got'[d] = "none"
                      /\ pc'[d] \in {"lock", "asked"} => Queued(lock', d)
                      /\ pc'[d] = "asked" => lock'[1] = d
    BY DEF Queue, Queued
  <2>1. lock # <<>> \/ ~Queued(lock, d)
    BY <1>1, EmptySeq, LenProperties DEF Queued
  <2>2. QED BY <1>1, <1>3, <1>5, <2>1 DEF IInv, Queue
<1>8. QED BY <1>1, <1>3, <1>5, <1>6, <1>7 DEF Callers

\* A step of a call that is not in the queue.
LEMMA OutOfQueue ==
  ASSUME IInv, NEW c \in Call, pc[c] \notin {"lock", "asked"},
         NEW p \in {"end", "done"}, pc' = [pc EXCEPT ![c] = p], UNCHANGED <<lock, got>>
  PROVE  Callers'
<1>1. /\ lock \in Seq(Call) /\ IsInjective(lock)
      /\ pc \in [Call -> {"idle", "lock", "asked", "exit", "kill", "end", "done"}]
      /\ got \in [Call -> {"none", "own", "other", "error", "abandoned"}]
      /\ \A n \in DOMAIN lock : pc[lock[n]] \in {"lock", "asked"}
  BY DEF IInv, TypeOK
<1>2. \A n \in DOMAIN lock : lock[n] \in Call
  BY <1>1, LenProperties
<1>3. \A n \in DOMAIN lock' : pc'[lock'[n]] \in {"lock", "asked"}
  BY <1>1, <1>2
<1>4. Queue'
  BY <1>1 DEF IInv, Queue, Queued
<1>5. QED BY <1>1, <1>3, <1>4 DEF Callers

\* What the step of a call leaves to show.
LEMMA CallersStep ==
  ASSUME IInv, Callers',
         life' \in {"new", "starting", "run", "failed", "dropped"},
         child' \in {"none", "up", "hung", "leaving", "dead"},
         UNCHANGED <<closing, junk>>, proc' \in BOOLEAN, killed' \in BOOLEAN,
         inbox' \in Seq(Call), outbox' \in Seq(Answers),
         cut' \subseteq Stops, Pipes', Answered', Binary', Obeyed'
  PROVE  IInv'
  BY DEF IInv, TypeOK, Callers

\* Which calls there are.
LEMMA StopsAreCalls == Stops \subseteq Call /\ Start \in Call /\ Start \notin Stops
                       /\ Request \subseteq Call /\ Request \cap Stops = {}
                       /\ Handled \subseteq Call /\ Start \notin Request
  BY CallAssumption DEF Call

\* start, a call of the API, and stop_all begin: nothing goes into the pipes.
LEMMA BeginInv ==
  ASSUME IInv,
         \/ Spawn \/ SpawnFails \/ Drop \/ Close
         \/ \E c \in Request : Invoke(c)
         \/ \E s \in Stops : Stop(s)
  PROVE  IInv'
<1>1. CASE Spawn
  <2>1. child = "none" /\ pc[Start] = "idle" /\ \A c \in Call : pc[c] = "idle"
    BY <1>1, StopsAreCalls DEF Spawn, IInv, Binary
  <2>2. Callers'
    BY <1>1, <2>1, JoinQueue, StopsAreCalls DEF Spawn
  <2>3. pc' = [pc EXCEPT ![Start] = "lock"]
    BY <1>1 DEF Spawn, Await
  <2>4. Pipes' /\ Answered' /\ Binary' /\ Obeyed'
    BY <1>1, <2>1, <2>3, StopsAreCalls
    DEF Spawn, IInv, TypeOK, pipes, Pipes, SomeAbandoned, Answered, Binary, Obeyed, Told
  <2>5. QED BY <1>1, <2>2, <2>4, CallersStep DEF Spawn, IInv, TypeOK, pipes
<1>2. CASE SpawnFails \/ Drop \/ Close
  <2>1. /\ UNCHANGED <<proc, lock, pc, got, cut, child, inbox, outbox, killed, junk>>
        /\ life' \in {"failed", "starting", "run", "dropped"} /\ closing' \in BOOLEAN
        /\ life' = "failed" \/ child # "none"
    BY <1>2 DEF SpawnFails, Drop, Close, pipes, IInv, TypeOK, Binary
  <2>2. TypeOK'
    BY <2>1 DEF IInv, TypeOK
  <2>3. Queue' /\ Pipes' /\ Answered' /\ Binary' /\ Obeyed'
    BY <2>1 DEF IInv, Queue, Queued, Pipes, SomeAbandoned, Answered, Binary, Obeyed, Told
  <2>4. QED BY <2>2, <2>3 DEF IInv
<1>3. ASSUME NEW c \in Call, pc[c] = "idle", life = "run", Await(c),
             UNCHANGED <<life, closing, proc, got, cut, child, pipes, killed, junk>>
      PROVE  IInv'
  <2>1. Callers'
    BY <1>3, JoinQueue
  <2>2. pc' = [pc EXCEPT ![c] = "lock"] /\ child # "none"
    BY <1>3 DEF Await, IInv, Binary
  <2>3. Pipes'
    BY <1>3, <2>2, StopsAreCalls DEF IInv, TypeOK, pipes, Pipes, SomeAbandoned
  <2>4. Answered' /\ Binary' /\ Obeyed'
    BY <1>3, <2>2, StopsAreCalls DEF IInv, TypeOK, pipes, Answered, Binary, Obeyed, Told
  <2>5. QED BY <1>3, <2>1, <2>3, <2>4, CallersStep DEF IInv, TypeOK, pipes
<1>4. ASSUME NEW c \in Request, Invoke(c)
      PROVE  IInv'
  BY <1>3, <1>4, StopsAreCalls DEF Invoke
<1>5. ASSUME NEW s \in Stops, Stop(s)
      PROVE  IInv'
  <2>1. CASE proc
    BY <1>3, <1>5, <2>1, StopsAreCalls DEF Stop
  <2>2. CASE ~proc
    <3>1. /\ pc' = [pc EXCEPT ![s] = "done"] /\ UNCHANGED lock
          /\ child = "dead" \/ cut # {}
          /\ pc[s] = "idle" /\ life = "run" /\ got[s] = "none"
          /\ UNCHANGED <<life, closing, proc, got, cut, child, pipes, killed, junk>>
      BY <1>5, <2>2, StopsAreCalls DEF Stop, IInv, Binary, Queue
    <3>2. Callers'
      BY <3>1, OutOfQueue, StopsAreCalls
    <3>3. Pipes'
      BY <3>1, StopsAreCalls DEF IInv, TypeOK, pipes, Pipes, SomeAbandoned
    <3>4. Answered' /\ Binary' /\ Obeyed'
      BY <3>1, StopsAreCalls DEF IInv, TypeOK, pipes, Answered, Binary, Obeyed, Told
    <3>5. QED BY <3>1, <3>2, <3>3, <3>4, CallersStep DEF IInv, TypeOK, pipes
  <2>3. QED BY <2>1, <2>2 DEF IInv, TypeOK
<1>6. QED BY <1>1, <1>2, <1>4, <1>5

\* stop() comes to its end.
LEMMA EndsInv ==
  ASSUME IInv, NEW s \in Stops, Ends(s)
  PROVE  IInv'
<1>1. s \in Call /\ pc[s] \notin {"idle", "lock", "asked"} /\ child # "none"
  BY StopsAreCalls DEF Ends, Exited, Kill, Forget, IInv, Binary
<1>2. Callers'
  <2>1. PICK p \in {"end", "done"} : pc' = [pc EXCEPT ![s] = p]
    BY DEF Ends, Exited, Kill, Forget
  <2>2. UNCHANGED <<lock, got>>
    BY DEF Ends, Exited, Kill, Forget
  <2>3. QED BY <1>1, <2>1, <2>2, OutOfQueue
<1>3. CASE Exited(s)
  <2>1. Pipes'
    BY <1>1, <1>3 DEF Exited, IInv, TypeOK, pipes, Pipes, SomeAbandoned
  <2>2. Answered' /\ Binary' /\ Obeyed'
    BY <1>1, <1>3 DEF Exited, IInv, TypeOK, pipes, Answered, Binary, Obeyed, Told
  <2>3. QED BY <1>2, <1>3, <2>1, <2>2, CallersStep DEF Exited, IInv, TypeOK, pipes
<1>4. CASE Kill(s)
  <2>1. inbox' = <<>> \/ UNCHANGED inbox
    BY <1>4 DEF Kill
  <2>2. inbox' \in Seq(Call)
    <3>1. inbox \in Seq(Call) /\ <<>> \in Seq(Call)
      BY EmptySeq DEF IInv, TypeOK
    <3>2. QED BY <2>1, <3>1
  <2>3. Pipes'
    BY <1>1, <1>4, <2>1 DEF Kill, IInv, TypeOK, Pipes, SomeAbandoned
  <2>4. Answered' /\ Binary' /\ Obeyed'
    BY <1>1, <1>4, StopsAreCalls DEF Kill, IInv, TypeOK, Answered, Binary, Obeyed, Told
  <2>5. QED BY <1>2, <1>4, <2>2, <2>3, <2>4, CallersStep DEF Kill, IInv, TypeOK
<1>5. CASE Forget(s)
  <2>1. Pipes'
    BY <1>1, <1>5 DEF Forget, IInv, TypeOK, pipes, Pipes, SomeAbandoned
  <2>2. Answered' /\ Binary' /\ Obeyed'
    BY <1>1, <1>5 DEF Forget, IInv, TypeOK, pipes, Answered, Binary, Obeyed, Told
  <2>3. QED BY <1>2, <1>5, <2>1, <2>2, CallersStep DEF Forget, IInv, TypeOK, pipes
<1>6. QED BY <1>3, <1>4, <1>5 DEF Ends

\* A handler is cancelled; what it had asked stays in the pipes, and the
\* process a stop was to end is forgotten.
LEMMA CancelInv ==
  ASSUME IInv, NEW c \in Handled, Cancel(c)
  PROVE  IInv'
<1> DEFINE g == CASE pc[c] = "asked" -> "abandoned"
                  [] pc[c] = "lock" -> "error"
                  [] OTHER -> got[c]
           p == IF c \in Stops THEN "end" ELSE "done"
<1>1. /\ c \in Call /\ TypeOK
      /\ pc' = [pc EXCEPT ![c] = p] /\ got' = [got EXCEPT ![c] = g]
      /\ pc \in [Call -> {"idle", "lock", "asked", "exit", "kill", "end", "done"}]
      /\ got \in [Call -> {"none", "own", "other", "error", "abandoned"}]
      /\ pc[c] \in {"lock", "asked"} => got[c] = "none"
      /\ cut' = cut \cup (Stops \cap {c}) /\ life' \in {life, "failed"}
      /\ UNCHANGED <<closing, proc, child, inbox, outbox, killed, junk>>
  BY StopsAreCalls DEF Cancel, IInv, TypeOK, Queue, pipes
<1>2. pc[c] \in {"lock", "asked"} \/ (c \in Stops /\ pc[c] = "exit")
  BY DEF Cancel
<1>3. Callers'
  <2>1. CASE pc[c] \in {"lock", "asked"}
    BY <1>1, <2>1, LeaveQueue DEF Cancel
  <2>2. CASE c \in Stops /\ pc[c] = "exit"
    <3>1. UNCHANGED <<lock, got>>
      BY <1>1, <2>2 DEF Cancel
    <3>2. QED BY <1>1, <2>2, <3>1, OutOfQueue
  <2>3. QED BY <1>2, <2>1, <2>2
<1>4. Pipes'
  <2>1. CASE pc[c] = "asked"
    BY <1>1, <2>1 DEF Pipes, SomeAbandoned
  <2>2. CASE SomeAbandoned /\ pc[c] # "asked"
    <3>1. PICK d \in Call : got[d] = "abandoned"
      BY <2>2 DEF SomeAbandoned
    <3>2. got'[d] = "abandoned"
      BY <1>1, <1>2, <2>2, <3>1
    <3>3. QED BY <3>2 DEF Pipes, SomeAbandoned
  <2>3. CASE ~SomeAbandoned /\ pc[c] # "asked"
    BY <1>1, <1>2, <2>3 DEF IInv, Pipes
  <2>4. QED BY <2>1, <2>2, <2>3
<1>5. child # "none" /\ life' # "new"
  BY <1>1, <1>2 DEF IInv, Binary
<1>6. Answered' /\ Binary'
  BY <1>1, <1>5, StopsAreCalls DEF IInv, Answered, Binary
<1>7. Obeyed'
  <2> SUFFICES ASSUME NEW s \in Stops
               PROVE  /\ pc'[s] = "asked" \/ got'[s] \in {"own", "other", "abandoned"} =>
                           Told \/ child = "dead"
                      /\ pc'[s] = "exit" => got'[s] \in {"own", "other"}
                      /\ s \in cut' => pc'[s] \in {"end", "done"} /\ got'[s] # "none"
    BY <1>1 DEF Obeyed, Told
  <2>1. CASE s # c
    <3>1. pc'[s] = pc[s] /\ got'[s] = got[s] /\ (s \in cut' <=> s \in cut)
      BY <1>1, <2>1, StopsAreCalls
    <3>2. QED BY <3>1 DEF IInv, Obeyed
  <2>2. CASE s = c
    <3>1. pc'[c] = "end" /\ got'[c] = g
      BY <1>1, <2>2
    <3>2. g # "none" /\ (g \in {"own", "other", "abandoned"} => Told \/ child = "dead")
      BY <1>1, <1>2, <2>2 DEF IInv, Obeyed
    <3>3. QED BY <2>2, <3>1, <3>2
  <2>3. QED BY <2>1, <2>2
<1>8. cut' \subseteq Stops /\ life' \in {"new", "starting", "run", "failed", "dropped"}
  BY <1>1 DEF TypeOK
<1>9. QED BY <1>1, <1>3, <1>4, <1>6, <1>7, <1>8, CallersStep DEF IInv, TypeOK

\* The holder of the lock is the head of the queue, and it alone has asked.
LEMMA OneAsked ==
  ASSUME IInv, NEW c \in Call, HasLock(c) \/ pc[c] = "asked"
  PROVE  lock[1] = c /\ \A d \in Call : pc[d] = "asked" => d = c
<1>1. lock # <<>> /\ Head(lock) = lock[1]
  <2>1. Queued(lock, c)
    BY DEF HasLock, IInv, Queue
  <2>2. QED BY <2>1, EmptySeq, LenProperties DEF Queued, IInv, TypeOK
<1>2. QED BY <1>1 DEF HasLock, IInv, Queue

\* What the pipes carry is of calls.
LEMMA FirstCall ==
  ASSUME IInv
  PROVE  /\ Len(inbox) = 1 => inbox[1] \in Call
         /\ Len(outbox) = 1 => outbox[1].call \in Call
<1>1. ASSUME Len(inbox) = 1
      PROVE  inbox[1] \in Call
  <2>1. inbox \in Seq(Call) /\ 1 \in 1 .. Len(inbox)
    BY <1>1 DEF IInv, TypeOK
  <2>2. QED BY <2>1, ElementOfSeq
<1>2. ASSUME Len(outbox) = 1
      PROVE  outbox[1].call \in Call
  <2>1. outbox \in Seq(Answers) /\ 1 \in 1 .. Len(outbox)
    BY <1>2 DEF IInv, TypeOK
  <2>2. outbox[1] \in Answers
    BY <2>1, ElementOfSeq
  <2>3. QED BY <2>2 DEF Answers
<1>3. QED BY <1>1, <1>2

\* A command that is written goes behind those that wait to be read.
LEMMA AppendKeeps ==
  ASSUME inbox \in Seq(Call), NEW c \in Call
  PROVE  /\ \A n \in DOMAIN inbox :
              n \in DOMAIN Append(inbox, c) /\ Append(inbox, c)[n] = inbox[n]
         /\ \E n \in DOMAIN Append(inbox, c) : Append(inbox, c)[n] = c
<1> DEFINE a == Append(inbox, c)
<1>1. Len(inbox) \in Nat /\ DOMAIN inbox = 1 .. Len(inbox)
  BY LenProperties
<1>2. /\ a \in Seq(Call) /\ Len(a) = Len(inbox) + 1
      /\ \A n \in 1 .. Len(inbox) : a[n] = inbox[n]
      /\ a[Len(inbox) + 1] = c
  BY AppendProperties
<1>3. DOMAIN a = 1 .. Len(inbox) + 1
  BY <1>2, LenProperties
<1> HIDE DEF a
<1>4. Len(inbox) + 1 \in DOMAIN a /\ \A n \in DOMAIN inbox : n \in DOMAIN a
  BY <1>1, <1>3
<1>5. QED BY <1>1, <1>2, <1>4 DEF a

\* The holder of the lock writes its command.
LEMMA SendInv ==
  ASSUME IInv, NEW c \in Call, Send(c)
  PROVE  IInv'
<1>1. /\ pc' = [pc EXCEPT ![c] = "asked"] /\ pc[c] = "lock"
      /\ pc \in [Call -> {"idle", "lock", "asked", "exit", "kill", "end", "done"}]
      /\ UNCHANGED <<life, closing, proc, lock, got, cut, child, outbox, killed, junk>>
  BY DEF Send, HasLock, IInv, TypeOK
<1>2. lock[1] = c /\ \A d \in Call : pc[d] # "asked"
  BY <1>1, OneAsked DEF Send
<1>3. Callers'
  <2>1. \A n \in DOMAIN lock : lock[n] \in Call
    BY LenProperties DEF IInv, TypeOK
  <2>2. \A n \in DOMAIN lock' : pc'[lock'[n]] \in {"lock", "asked"}
    BY <1>1, <2>1 DEF IInv, TypeOK
  <2>3. Queue'
    BY <1>1, <1>2 DEF IInv, Queue, Queued
  <2>4. pc' \in [Call -> {"idle", "lock", "asked", "exit", "kill", "end", "done"}]
    BY <1>1
  <2>5. QED BY <1>1, <2>2, <2>3, <2>4 DEF IInv, TypeOK, Callers, IsInjective
<1>4. \/ inbox' = inbox
      \/ child # "dead" /\ inbox' = Append(inbox, c)
  BY DEF Send
<1>5. inbox' \in Seq(Call)
  <2>1. inbox \in Seq(Call)
    BY DEF IInv, TypeOK
  <2>2. QED BY <1>4, <2>1, AppendProperties
<1>6. Pipes'
  <2>1. CASE SomeAbandoned
    BY <1>1, <2>1 DEF Pipes, SomeAbandoned
  <2>2. CASE ~SomeAbandoned
    <3>1. inbox = <<>> /\ outbox = <<>>
      BY <1>2, <2>2, FirstCall DEF IInv, Pipes
    <3>2. \/ inbox' = <<>>
          \/ Len(inbox') = 1 /\ inbox'[1] = c
      BY <1>4, <3>1
    <3>3. QED BY <1>1, <3>1, <3>2 DEF Pipes
  <2>3. QED BY <2>1, <2>2
<1>7. Answered' /\ Binary'
  BY <1>1, <1>4, StopsAreCalls DEF IInv, Answered, Binary
<1>8. Obeyed'
  <2>1. ASSUME Told
        PROVE  Told'
    <3>1. CASE child \in {"leaving", "hung"}
      BY <1>1, <3>1 DEF Told
    <3>2. CASE child \notin {"leaving", "hung"}
      <4>1. PICK n \in DOMAIN inbox : inbox[n] \in Stops
        BY <2>1, <3>2 DEF Told
      <4>2. n \in DOMAIN inbox' /\ inbox'[n] = inbox[n]
        BY <1>4, <4>1, AppendKeeps DEF IInv, TypeOK
      <4>3. QED BY <4>1, <4>2 DEF Told
    <3>3. QED BY <3>1, <3>2
  <2>2. c \in Stops => Told' \/ child = "dead"
    <3>1. CASE child = "dead"
      BY <3>1
    <3>2. CASE child # "dead"
      BY <3>2, <1>1, AppendKeeps DEF Told, IInv, TypeOK, Send
    <3>3. QED BY <3>1, <3>2
  <2> SUFFICES ASSUME NEW s \in Stops
               PROVE  /\ pc'[s] = "asked" \/ got[s] \in {"own", "other", "abandoned"} =>
                           Told' \/ child = "dead"
                      /\ pc'[s] = "exit" => got[s] \in {"own", "other"}
                      /\ s \in cut => pc'[s] \in {"end", "done"} /\ got[s] # "none"
    BY <1>1 DEF Obeyed, Send
  <2>3. CASE s # c
    <3>1. pc'[s] = pc[s]
      BY <1>1, <2>3, StopsAreCalls
    <3>2. QED BY <3>1, <2>1 DEF IInv, Obeyed
  <2>4. CASE s = c
    <3>1. pc'[s] = "asked" /\ s \notin cut
      BY <1>1, <2>4 DEF IInv, Obeyed
    <3>2. QED BY <2>2, <2>4, <3>1
  <2>5. QED BY <2>3, <2>4
<1>9. QED BY <1>1, <1>3, <1>5, <1>6, <1>7, <1>8, CallersStep DEF IInv, TypeOK

\* A call fails without reading: nothing it asked is left in the pipes.
LEMMA FailsInv ==
  ASSUME IInv, NEW c \in Call, SendFails(c) \/ ReadFails(c)
  PROVE  IInv'
<1> DEFINE p == IF c \in Stops THEN "kill" ELSE "done"
<1>1. /\ pc' = [pc EXCEPT ![c] = p] /\ got' = [got EXCEPT ![c] = "error"]
      /\ pc[c] \in {"lock", "asked"} /\ lock' = Without(c)
      /\ life' = IF c = Start THEN "failed" ELSE life
      /\ UNCHANGED <<closing, proc, cut, child, inbox, outbox, killed, junk>>
      /\ pc \in [Call -> {"idle", "lock", "asked", "exit", "kill", "end", "done"}]
      /\ got \in [Call -> {"none", "own", "other", "error", "abandoned"}]
      /\ got[c] = "none"
  BY DEF SendFails, ReadFails, Raise, HasLock, pipes, IInv, TypeOK, Queue
<1>2. Callers'
  BY <1>1, LeaveQueue
<1>3. (child = "dead" \/ ~proc) /\ child # "none"
  BY <1>1 DEF SendFails, ReadFails, IInv, Binary
<1>4. Pipes'
  <2>1. CASE SomeAbandoned
    BY <1>1, <2>1 DEF Pipes, SomeAbandoned
  <2>2. CASE ~SomeAbandoned /\ SendFails(c)
    BY <1>1, <2>2 DEF SendFails, HasLock, IInv, Pipes
  <2>3. CASE ReadFails(c)
    BY <1>1, <2>3 DEF ReadFails, IInv, Pipes, Answered
  <2>4. QED BY <2>1, <2>2, <2>3
<1>5. Answered' /\ Binary' /\ Obeyed'
  BY <1>1, <1>3, StopsAreCalls DEF IInv, Answered, Binary, Obeyed, Told
<1>6. QED BY <1>1, <1>2, <1>4, <1>5, CallersStep DEF IInv, TypeOK

\* A call reads an answer: its own, unless one was abandoned.
LEMMA ReadOwn ==
  ASSUME IInv, NEW c \in Call, pc[c] = "asked", outbox # <<>>, ~SomeAbandoned
  PROVE  inbox = <<>> /\ Len(outbox) = 1 /\ outbox[1].call = c /\ Tail(outbox) = <<>>
<1>1. inbox = <<>> /\ Len(outbox) = 1 /\ pc[outbox[1].call] = "asked"
  BY DEF IInv, Pipes
<1>2. outbox[1].call \in Call
  BY <1>1, FirstCall
<1>3. outbox[1].call = c
  BY <1>1, <1>2, OneAsked
<1>4. Tail(outbox) = <<>>
  <2>1. outbox \in Seq(Answers)
    BY DEF IInv, TypeOK
  <2>2. Tail(outbox) \in Seq(Answers) /\ Len(Tail(outbox)) = 0
    BY <1>1, <2>1, HeadTailProperties
  <2>3. QED BY <2>2, EmptySeq
<1>5. QED BY <1>1, <1>3, <1>4

\* Reading, whatever is made of the answer.
LEMMA ReadInv ==
  ASSUME IInv, NEW c \in Call, Read(c)
  PROVE  IInv'
<1> DEFINE bad == Head(outbox).kind = "junk" \/ (c = Start /\ Head(outbox).kind = "no")
<1>1. /\ pc[c] = "asked" /\ outbox # <<>> /\ outbox' = Tail(outbox)
      /\ UNCHANGED <<closing, proc, cut, child, inbox, killed, junk>>
      /\ outbox \in Seq(Answers)
      /\ pc \in [Call -> {"idle", "lock", "asked", "exit", "kill", "end", "done"}]
      /\ got \in [Call -> {"none", "own", "other", "error", "abandoned"}]
      /\ got[c] = "none"
  BY DEF Read, IInv, TypeOK, Queue
<1>2. PICK p \in {"exit", "kill", "done"}, g \in {"own", "other", "error"} :
        /\ pc' = [pc EXCEPT ![c] = p] /\ got' = [got EXCEPT ![c] = g]
        /\ lock' = Without(c)
        /\ c \in Stops /\ p = "kill" => bad \/ ~proc
        /\ p = "exit" => g \in {"own", "other"}
        /\ c \in Stops => p # "done"
  BY DEF Read, Raise, AfterStop
<1>3. Callers'
  BY <1>1, <1>2, LeaveQueue
<1>4. /\ outbox' \in Seq(Answers) /\ Len(outbox') = Len(outbox) - 1
      /\ \A n \in 1 .. Len(outbox') : outbox'[n] = outbox[n + 1]
      /\ Len(outbox) \in Nat \ {0} /\ Head(outbox) = outbox[1]
      /\ DOMAIN outbox' = 1 .. Len(outbox') /\ DOMAIN outbox = 1 .. Len(outbox)
  BY <1>1, HeadTailProperties, EmptySeq, LenProperties
<1>5. Pipes'
  <2>1. CASE SomeAbandoned
    BY <1>1, <1>2, <2>1 DEF Pipes, SomeAbandoned
  <2>2. CASE ~SomeAbandoned
    BY <1>1, <2>2, ReadOwn DEF Pipes
  <2>3. QED BY <2>1, <2>2
<1>6. Head(outbox).kind = "junk" => junk
  BY <1>4 DEF IInv, Answered
<1>7. Answered'
  <2>1. \A n \in 1 .. Len(outbox') : n + 1 \in 1 .. Len(outbox)
    BY <1>4
  <2>2. QED BY <1>1, <1>4, <2>1 DEF IInv, Answered
<1>8. life' \in {"run", "failed", life}
  BY DEF Read, Raise
<1>9. Binary' /\ Obeyed'
  <2>1. bad /\ c \in Stops => junk
    BY <1>6, StopsAreCalls
  <2>2. Binary'
    BY <1>1, <1>2, <1>8, <2>1, StopsAreCalls DEF IInv, Binary
  <2>3. Obeyed'
    BY <1>1, <1>2, StopsAreCalls DEF IInv, Obeyed, Told
  <2>4. QED BY <2>2, <2>3
<1>10. life' \in {"new", "starting", "run", "failed", "dropped"}
  BY <1>8 DEF IInv, TypeOK
<1>11. QED BY <1>1, <1>3, <1>4, <1>5, <1>7, <1>9, <1>10, CallersStep DEF IInv, TypeOK

\* The binary answers, exits or hangs.
LEMMA BinaryInv ==
  ASSUME IInv,
         (\E kind \in {"yes", "no", "junk"} : Reply(kind)) \/ Exit \/ Hang
  PROVE  IInv'
<1>1. ASSUME NEW kind \in {"yes", "no", "junk"}, Reply(kind)
      PROVE  IInv'
  <2> DEFINE a == [call |-> Head(inbox), kind |-> kind]
  <2>1. /\ inbox # <<>> /\ inbox' = Tail(inbox) /\ outbox' = Append(outbox, a)
        /\ child = "up" /\ child' \in {"up", "leaving"}
        /\ junk' = (junk \/ kind = "junk")
        /\ UNCHANGED <<life, closing, proc, lock, pc, got, cut, killed>>
    BY <1>1 DEF Reply, calls
  <2>2. /\ inbox' \in Seq(Call) /\ Len(inbox') = Len(inbox) - 1
        /\ Head(inbox) \in Call /\ Head(inbox) = inbox[1]
    BY <2>1, HeadTailProperties DEF IInv, TypeOK
  <2>3. a \in Answers /\ a.kind = kind /\ a.call = inbox[1]
    BY <2>2 DEF Answers
  <2> HIDE DEF a
  <2>4. /\ outbox' \in Seq(Answers) /\ Len(outbox') = Len(outbox) + 1
        /\ \A n \in 1 .. Len(outbox) : outbox'[n] = outbox[n]
        /\ outbox'[Len(outbox) + 1] = a
        /\ DOMAIN outbox' = 1 .. Len(outbox') /\ DOMAIN outbox = 1 .. Len(outbox)
        /\ Len(outbox) \in Nat
    <3>1. outbox \in Seq(Answers)
      BY DEF IInv, TypeOK
    <3>2. outbox' \in Seq(Answers)
      BY <2>1, <2>3, <3>1, AppendProperties
    <3>3. QED BY <2>1, <2>3, <3>1, <3>2, AppendProperties, LenProperties
  <2>5. TypeOK'
    BY <2>1, <2>2, <2>4 DEF IInv, TypeOK
  <2>6. Queue'
    BY <2>1 DEF IInv, Queue, Queued
  <2>7. Pipes'
    <3>1. CASE SomeAbandoned
      BY <2>1, <3>1 DEF Pipes, SomeAbandoned
    <3>2. CASE ~SomeAbandoned
      <4>1. Len(inbox) = 1 /\ outbox = <<>> /\ pc[inbox[1]] = "asked"
        BY <2>1, <3>2 DEF IInv, Pipes
      <4>2. Len(outbox) = 0
        BY <4>1
      <4>3. inbox' = <<>>
        BY <2>2, <4>1, EmptySeq
      <4>4. Len(outbox') = 1 /\ outbox'[1].call = inbox[1]
        BY <2>3, <2>4, <4>2
      <4>5. QED BY <2>1, <4>1, <4>3, <4>4 DEF Pipes
    <3>3. QED BY <3>1, <3>2
  <2>8. Answered'
    <3>1. \A n \in DOMAIN outbox' : n \in DOMAIN outbox \/ n = Len(outbox) + 1
      BY <2>4
    <3>2. QED BY <2>1, <2>3, <2>4, <3>1 DEF IInv, Answered
  <2>9. Binary' /\ Obeyed'
    <3>1. ASSUME Told
          PROVE  Told'
      <4>1. CASE inbox[1] \in Stops
        BY <1>1, <2>2, <4>1 DEF Reply, Told
      <4>2. CASE inbox[1] \notin Stops
        <5>1. PICK n \in DOMAIN inbox : inbox[n] \in Stops
          BY <2>1, <3>1 DEF Told
        <5>2. /\ Len(inbox) \in Nat /\ DOMAIN inbox = 1 .. Len(inbox)
              /\ DOMAIN inbox' = 1 .. Len(inbox')
              /\ \A m \in 1 .. Len(inbox') : inbox'[m] = inbox[m + 1]
          BY <2>1, <2>2, HeadTailProperties, LenProperties DEF IInv, TypeOK
        <5>3. n - 1 \in DOMAIN inbox' /\ inbox'[n - 1] = inbox[n]
          BY <2>2, <4>2, <5>1, <5>2
        <5>4. QED BY <5>1, <5>3 DEF Told
      <4>3. QED BY <4>1, <4>2
    <3>2. Binary'
      BY <2>1 DEF IInv, Binary
    <3>3. Obeyed'
      BY <2>1, <3>1 DEF IInv, Obeyed
    <3>4. QED BY <3>2, <3>3
  <2>10. QED BY <2>5, <2>6, <2>7, <2>8, <2>9 DEF IInv
<1>2. CASE Exit
  <2>1. inbox' = <<>> /\ inbox' \in Seq(Call)
    BY <1>2, EmptySeq DEF Exit
  <2>2. UNCHANGED <<life, closing, proc, lock, pc, got, cut, outbox, killed, junk>>
        /\ child \in {"up", "leaving"} /\ child' = "dead"
    BY <1>2 DEF Exit, calls
  <2>3. TypeOK' /\ Queue' /\ Answered' /\ Binary' /\ Obeyed'
    BY <2>1, <2>2 DEF IInv, TypeOK, Queue, Queued, Answered, Binary, Obeyed, Told
  <2>4. Pipes'
    BY <2>1, <2>2 DEF IInv, Pipes, SomeAbandoned
  <2>5. QED BY <2>3, <2>4 DEF IInv
<1>3. CASE Hang
  <2>1. UNCHANGED <<life, closing, proc, lock, pc, got, cut, inbox, outbox, killed, junk>>
        /\ child \in {"up", "leaving"} /\ child' = "hung"
    BY <1>3 DEF Hang, calls, pipes
  <2>2. TypeOK' /\ Queue' /\ Answered' /\ Binary' /\ Obeyed' /\ Pipes'
    BY <2>1 DEF IInv, TypeOK, Queue, Queued, Answered, Binary, Obeyed, Told, Pipes, SomeAbandoned
  <2>3. QED BY <2>2 DEF IInv
<1>4. QED BY <1>1, <1>2, <1>3

\* Every step keeps the invariant.
LEMMA StepInv == IInv /\ [Next]_vars => IInv'
<1> SUFFICES ASSUME IInv, [Next]_vars PROVE IInv'
  OBVIOUS
<1>1. CASE \/ Spawn \/ SpawnFails \/ Drop \/ Close
           \/ \E c \in Request : Invoke(c)
           \/ \E s \in Stops : Stop(s)
  BY <1>1, BeginInv
<1>2. CASE \E c \in Handled : Cancel(c)
  BY <1>2, CancelInv
<1>3. CASE \E s \in Stops : Ends(s)
  BY <1>3, EndsInv
<1>4. CASE \E c \in Call : Goes(c)
  BY <1>4, SendInv, FailsInv, ReadInv DEF Goes
<1>5. CASE Reply("yes") \/ Refuse \/ Babble \/ Exit \/ Hang
  BY <1>5, BinaryInv DEF Refuse, Babble
<1>6. CASE UNCHANGED vars
  BY <1>6 DEF vars, calls, pipes, IInv, TypeOK, Queue, Queued, Pipes, SomeAbandoned,
              Answered, Binary, Obeyed, Told, IsInjective
<1>7. QED BY <1>1, <1>2, <1>3, <1>4, <1>5, <1>6 DEF Next

\* The invariant, of every behaviour.
LEMMA Invariant == Spec => []IInv
<1>1. QED BY InitInv, StepInv, PTL DEF Spec

\* The variables keep their types and the queue of the lock holds no call
\* twice, and only calls that wait for it or have asked (_lock, _send).
THEOREM TypesHold == Spec => []TypeOK
<1>1. IInv => TypeOK
  BY DEF IInv
<1>2. QED BY <1>1, Invariant, PTL

\* When stop() has returned there is no process left, however many stops
\* cross and however the binary ended; only a stop() that was cancelled leaves
\* one, told to leave unless it was still waiting for the lock (stop).
THEOREM StoppedIsDead == Spec => []StopLeavesNone
<1>1. ASSUME IInv, child # "dead", NEW s \in Stops, pc[s] = "done"
      PROVE  cut # {} /\ (Told \/ \E t \in cut : got[t] = "error")
  <2>1. cut # {}
    BY <1>1 DEF IInv, Binary
  <2>2. PICK t \in cut : t \in Stops /\ t \in Call
    BY <1>1, <2>1, StopsAreCalls DEF IInv, TypeOK
  <2>3. got[t] \in {"own", "other", "error", "abandoned"}
    BY <1>1, <2>2 DEF IInv, TypeOK, Obeyed
  <2>4. QED BY <1>1, <2>1, <2>2, <2>3 DEF IInv, Obeyed
<1>2. IInv => StopLeavesNone
  BY <1>1 DEF StopLeavesNone
<1>3. QED BY <1>2, Invariant, PTL

\* stop() kills no binary that keeps to the protocol (stop).
THEOREM KillsForJunkOnly == Spec => []KilledForJunk
<1>1. IInv => KilledForJunk
  BY DEF IInv, Binary, KilledForJunk
<1>2. QED BY <1>1, Invariant, PTL

-----------------------------------------------------------------------------
(* The calls implement Exchange                                            *)

Phases == [c \in Call |-> PhaseOf(c)]

\* A step that leaves the others' pc and got as they are moves one call from
\* its phase to another, or none.
LEMMA OnePhase ==
  ASSUME TypeOK, NEW c \in Call, NEW p, NEW g,
         pc' = [pc EXCEPT ![c] = p], got' = [got EXCEPT ![c] = g]
  PROVE  Phases' = [Phases EXCEPT ![c] = PhaseOf(c)']
<1>1. /\ pc \in [Call -> {"idle", "lock", "asked", "exit", "kill", "end", "done"}]
      /\ got \in [Call -> {"none", "own", "other", "error", "abandoned"}]
  BY DEF TypeOK
<1>2. \A d \in Call : d # c => pc'[d] = pc[d] /\ got'[d] = got[d]
  BY <1>1
<1>3. \A d \in Call : d # c => PhaseOf(d)' = PhaseOf(d)
  BY <1>2 DEF PhaseOf
<1>4. QED BY <1>3 DEF Phases

\* Who waits for the lock is new to Exchange, and who has asked has asked.
LEMMA PhaseIs ==
  ASSUME IInv, NEW c \in Call
  PROVE  /\ PhaseOf(c) \in E!Phase
         /\ pc[c] \in {"idle", "lock"} => PhaseOf(c) = "new"
         /\ pc[c] = "asked" <=> PhaseOf(c) = "asked"
         /\ got[c] = "abandoned" <=> PhaseOf(c) = "abandoned"
<1>1. got[c] \in {"none", "own", "other", "error", "abandoned"}
  BY DEF IInv, TypeOK
<1>2. pc[c] \in {"idle", "lock", "asked"} => got[c] = "none"
  BY DEF IInv, Queue
<1>3. QED BY <1>1, <1>2 DEF PhaseOf, E!Phase

\* A step of a call that neither asks nor gets leaves the phases of all calls as they are.
LEMMA OthersStutter ==
  ASSUME IInv, NEW c \in Call,
         \/ UNCHANGED <<pc, got>>
         \/ UNCHANGED got /\ \E p \in {"lock", "end", "done"} : pc' = [pc EXCEPT ![c] = p],
         pc[c] # "asked"
  PROVE  UNCHANGED Phases
<1>1. /\ pc \in [Call -> {"idle", "lock", "asked", "exit", "kill", "end", "done"}]
      /\ got \in [Call -> {"none", "own", "other", "error", "abandoned"}]
  BY DEF IInv, TypeOK
<1>2. ASSUME NEW d \in Call
      PROVE  PhaseOf(d)' = PhaseOf(d)
  <2>1. got'[d] = got[d] /\ (pc'[d] = "asked" <=> pc[d] = "asked")
    BY <1>1
  <2>2. QED BY <2>1 DEF PhaseOf
<1>3. QED BY <1>2 DEF Phases

\* The step of a call is a step of Exchange: it asks, is answered, misreads,
\* fails or is abandoned; cancelled when it had its answer it changes nothing.
LEMMA GoesRefines ==
  ASSUME IInv, NEW c \in Call, Goes(c) \/ (c \in Handled /\ Cancel(c))
  PROVE  E!Next \/ UNCHANGED Phases
<1>1. /\ pc \in [Call -> {"idle", "lock", "asked", "exit", "kill", "end", "done"}]
      /\ got \in [Call -> {"none", "own", "other", "error", "abandoned"}]
      /\ TypeOK
  BY DEF IInv, TypeOK
<1>2. \A d \in Call : Phases[d] = PhaseOf(d)
  BY DEF Phases
<1>3. CASE Send(c)
  <2>1. /\ pc' = [pc EXCEPT ![c] = "asked"] /\ got' = [got EXCEPT ![c] = got[c]]
        /\ pc[c] = "lock" /\ got[c] = "none"
    BY <1>1, <1>3 DEF Send, HasLock, IInv, Queue
  <2>2. PhaseOf(c)' = "asked"
    BY <1>1, <2>1 DEF PhaseOf
  <2>3. Phases' = [Phases EXCEPT ![c] = "asked"]
    BY <1>1, <2>1, <2>2, OnePhase
  <2>4. \A d \in Call : PhaseOf(d) # "asked"
    BY <1>3, <2>1, OneAsked, PhaseIs DEF Send
  <2>5. PhaseOf(c) = "new"
    BY <2>1, PhaseIs
  <2>6. E!Ask(c)
    BY <1>2, <2>3, <2>4, <2>5 DEF E!Ask, E!Become, Phases
  <2>7. QED BY <2>6 DEF E!Next
<1>4. ASSUME Raise(c), pc[c] \in {"lock", "asked"}
      PROVE  E!Next
  <2>1. PICK p : pc' = [pc EXCEPT ![c] = p]
    BY <1>4 DEF Raise
  <2>2. got' = [got EXCEPT ![c] = "error"]
    BY <1>4 DEF Raise
  <2>3. PhaseOf(c)' = "failed"
    BY <1>1, <2>2 DEF PhaseOf
  <2>4. Phases' = [Phases EXCEPT ![c] = "failed"]
    BY <1>1, <2>1, <2>2, <2>3, OnePhase
  <2>5. PhaseOf(c) \in {"new", "asked"}
    BY <1>4, PhaseIs
  <2>6. E!Fail(c)
    BY <1>2, <2>4, <2>5 DEF E!Fail, E!Become, Phases
  <2>7. QED BY <2>6 DEF E!Next
<1>5. CASE SendFails(c) \/ ReadFails(c)
  BY <1>4, <1>5 DEF SendFails, ReadFails, HasLock
<1>6. CASE Read(c)
  <2>1. pc[c] = "asked" /\ outbox # <<>> /\ PhaseOf(c) = "asked"
    BY <1>6, PhaseIs DEF Read
  <2>2. CASE Raise(c)
    BY <1>4, <2>1, <2>2
  <2>3. CASE ~Raise(c)
    <3>1. PICK p : pc' = [pc EXCEPT ![c] = p]
      BY <1>6, <2>3 DEF Read
    <3> DEFINE g == IF Head(outbox).call = c THEN "own" ELSE "other"
    <3>2. got' = [got EXCEPT ![c] = g]
      BY <1>6, <2>3 DEF Read
    <3>3. PhaseOf(c)' = IF Head(outbox).call = c THEN "answered" ELSE "misread"
      BY <1>1, <3>2 DEF PhaseOf
    <3>4. Phases' = [Phases EXCEPT ![c] = PhaseOf(c)']
      BY <1>1, <3>1, <3>2, OnePhase
    <3>5. CASE Head(outbox).call = c
      <4>1. E!Answer(c)
        BY <1>2, <2>1, <3>3, <3>4, <3>5 DEF E!Answer, E!Become, Phases
      <4>2. QED BY <4>1 DEF E!Next
    <3>6. CASE Head(outbox).call # c
      <4>1. SomeAbandoned
        BY <2>1, <3>6, ReadOwn
      <4>2. \E d \in Call : PhaseOf(d) = "abandoned"
        BY <4>1, PhaseIs DEF SomeAbandoned
      <4>3. E!Misread(c)
        BY <1>2, <2>1, <3>3, <3>4, <3>6, <4>2 DEF E!Misread, E!Become, Phases
      <4>4. QED BY <4>3 DEF E!Next
    <3>7. QED BY <3>5, <3>6
  <2>4. QED BY <2>2, <2>3
<1>7. CASE Cancel(c) /\ pc[c] \in {"lock", "asked"}
  <2> DEFINE g == IF pc[c] = "asked" THEN "abandoned" ELSE "error"
             p == IF c \in Stops THEN "end" ELSE "done"
  <2>1. pc' = [pc EXCEPT ![c] = p] /\ got' = [got EXCEPT ![c] = g]
    BY <1>7 DEF Cancel
  <2>2. PhaseOf(c)' = IF pc[c] = "asked" THEN "abandoned" ELSE "failed"
    BY <1>1, <2>1 DEF PhaseOf
  <2>3. Phases' = [Phases EXCEPT ![c] = PhaseOf(c)']
    BY <1>1, <2>1, OnePhase
  <2>4. CASE pc[c] = "asked"
    <3>1. E!Abandon(c)
      BY <1>2, <2>2, <2>3, <2>4, PhaseIs DEF E!Abandon, E!Become, Phases
    <3>2. QED BY <3>1 DEF E!Next
  <2>5. CASE pc[c] # "asked"
    <3>1. PhaseOf(c) = "new"
      BY <1>7, <2>5, PhaseIs
    <3>2. E!Fail(c)
      BY <1>2, <2>2, <2>3, <2>5, <3>1 DEF E!Fail, E!Become, Phases
    <3>3. QED BY <3>2 DEF E!Next
  <2>6. QED BY <2>4, <2>5
<1>8. CASE Cancel(c) /\ pc[c] = "exit"
  <2>1. UNCHANGED got /\ pc' = [pc EXCEPT ![c] = "end"]
    BY <1>1, <1>8 DEF Cancel
  <2>2. QED BY <1>8, <2>1, OthersStutter
<1>9. QED BY <1>3, <1>5, <1>6, <1>7, <1>8 DEF Goes, Cancel

\* Every step is a step of Exchange, or changes nothing there.
LEMMA StepRefines == IInv /\ [Next]_vars => [E!Next]_Phases
<1> SUFFICES ASSUME IInv, [Next]_vars PROVE E!Next \/ UNCHANGED Phases
  OBVIOUS
<1>1. CASE \/ \E c \in Call : Goes(c)
           \/ \E c \in Handled : Cancel(c)
  BY <1>1, GoesRefines, StopsAreCalls
<1>2. ASSUME UNCHANGED <<pc, got>>
      PROVE  UNCHANGED Phases
  BY <1>2 DEF Phases, PhaseOf
<1>3. CASE SpawnFails \/ Drop \/ Close
  BY <1>2, <1>3 DEF SpawnFails, Drop, Close
<1>4. CASE Reply("yes") \/ Refuse \/ Babble \/ Exit \/ Hang
  BY <1>2, <1>4 DEF Refuse, Babble, Reply, Exit, Hang, calls
<1>5. CASE UNCHANGED vars
  BY <1>2, <1>5 DEF vars, calls
<1>6. CASE Spawn
  <2>1. pc[Start] = "idle" /\ UNCHANGED got /\ pc' = [pc EXCEPT ![Start] = "lock"]
    BY <1>6, StopsAreCalls DEF Spawn, Await, IInv, Binary
  <2>2. QED BY <2>1, OthersStutter, StopsAreCalls
<1>7. ASSUME NEW c \in Request, Invoke(c)
      PROVE  UNCHANGED Phases
  <2>1. pc[c] = "idle" /\ UNCHANGED got /\ pc' = [pc EXCEPT ![c] = "lock"]
    BY <1>7 DEF Invoke, Await
  <2>2. QED BY <2>1, OthersStutter, StopsAreCalls
<1>8. ASSUME NEW s \in Stops, Stop(s) \/ Ends(s)
      PROVE  UNCHANGED Phases
  <2>1. /\ pc[s] # "asked" /\ UNCHANGED got
        /\ \E p \in {"lock", "end", "done"} : pc' = [pc EXCEPT ![s] = p]
    BY <1>8 DEF Stop, Await, Ends, Exited, Kill, Forget
  <2>2. QED BY <2>1, OthersStutter, StopsAreCalls
<1>9. QED BY <1>1, <1>3, <1>4, <1>5, <1>6, <1>7, <1>8 DEF Next

\* The calls implement Exchange: one command is out at a time and each
\* caller gets the answer to its own, unless a call was cancelled, for every
\* set of calls and whatever the binary does (_send).
THEOREM CallsExclusive == Spec => Exclusive
<1>1. Init => E!Init
  <2> SUFFICES ASSUME Init PROVE E!Init
    OBVIOUS
  <2>1. \A c \in Call : PhaseOf(c) = "new"
    BY DEF Init, PhaseOf
  <2>2. QED BY <2>1 DEF E!Init
<1>2. IInv /\ [Next]_vars => [E!Next]_[c \in Call |-> PhaseOf(c)]
  BY StepRefines DEF Phases
<1>3. QED BY <1>1, <1>2, Invariant, PTL DEF Spec, Exclusive, E!Spec
=============================================================================
