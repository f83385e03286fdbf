--------------------------- MODULE ProviderProofs ---------------------------
(***************************************************************************)
(* What holds of Provider for every number of providers, images, calls and *)
(* parts, and whatever may happen.                                         *)
(***************************************************************************)
EXTENDS Provider, SequenceTheorems, TLAPS

-----------------------------------------------------------------------------
(* The inductive invariant                                                 *)

\* A save that has written a part has one more to write, and some image.
JobInv ==
    \A i \in Instance, c \in Saver :
        job[i][c].at = "dump" => job[i][c].done \in 1 .. Parts - 1

Known == {"loop", "watch", "verify"}        \* the tasks stop() knows

\* Tasks exist once a provider is bound; stop() has ended those it is past;
\* only the watch loop dies of an exception.
LifeInv ==
    \A i \in Instance :
        /\ life[i] \in {"none", "load", "save", "bind", "run", "close"} => next[i] = 1
        /\ life[i] \in {"none", "load", "save", "bind"} => \A t \in Known : co[i][t] = "none"
        /\ open[i] => life[i] = "run"
        /\ co[i]["loop"] # "dead" /\ co[i]["verify"] # "dead"
        /\ life[i] = "cancel" => \A n \in 1 .. next[i] - 1 : ~Alive(i, Tasks[n])

\* A loop that resume() has woken has yet to begin its round.
PauseInv ==
    \A i \in Instance :
        since[i] <= 1 /\ (co[i]["loop"] = "ready" => since[i] = 0)

\* A save that met no other is alone, and the file is what it has written.
StoreInv ==
    \A i \in Instance, c \in Saver :
        job[i][c].at # "none" /\ ~job[i][c].met =>
            /\ \A k \in Instance, d \in Saver :
                 job[k][d].at # "none" => k = i /\ d = c
            /\ job[i][c].at = "open" => file.data = <<>>
            /\ job[i][c].at = "dump" =>
                 /\ Len(file.data) = job[i][c].done
                 /\ \A n \in 1 .. job[i][c].done : file.data[n] = job[i][c].image

IInv ==
    TypeOK /\ JobInv /\ LifeInv /\ Remains /\ PauseInv /\ SyncingIsReal /\ StoreInv /\ StoreWhole

-----------------------------------------------------------------------------
(* Writes of the file                                                      *)

\* A function from 1..n is a sequence of length n.
LEMMA FunctionIsSeq ==
  ASSUME NEW S, NEW n \in Nat, NEW f \in [1 .. n -> S]
  PROVE  f \in Seq(S) /\ Len(f) = n
<1>1. f \in Seq(S)
  BY SeqDef
<1>2. Len(f) \in Nat /\ 1 .. Len(f) = 1 .. n
  BY <1>1, LenProperties
<1>3. QED BY <1>1, <1>2

\* Put writes one part, and leaves a hole before it if need be.
LEMMA PutPart ==
  ASSUME NEW data \in Seq(0 .. Hole), NEW k \in Nat \ {0}, NEW x \in 0 .. Hole
  PROVE  /\ Put(data, k, x) \in Seq(0 .. Hole)
         /\ Len(Put(data, k, x)) = IF Len(data) >= k THEN Len(data) ELSE k
         /\ Put(data, k, x)[k] = x
         /\ \A n \in 1 .. Len(data) : n # k => Put(data, k, x)[n] = data[n]
<1> DEFINE m == Max({Len(data), k})
           put == [n \in 1 .. m |->
                     IF n = k THEN x ELSE IF n <= Len(data) THEN data[n] ELSE Hole]
<1>1. Len(data) \in Nat /\ \A n \in 1 .. Len(data) : data[n] \in 0 .. Hole
  BY LenProperties
<1>2. /\ m \in {Len(data), k}
      /\ m >= Len(data) /\ m >= k
  <2>1. \E y \in {Len(data), k} : \A z \in {Len(data), k} : y >= z
    BY <1>1
  <2>2. QED BY <2>1 DEF Max
<1>3. m \in Nat /\ m = IF Len(data) >= k THEN Len(data) ELSE k
  BY <1>1, <1>2
<1>4. Put(data, k, x) = put
  BY DEF Put
<1> HIDE DEF m
<1>5. Hole \in 0 .. Hole
  BY ConstantsAssumption DEF Hole
<1>6. put \in [1 .. m -> 0 .. Hole]
  BY <1>1, <1>3, <1>5
<1>7. put \in Seq(0 .. Hole) /\ Len(put) = m
  BY <1>3, <1>6, FunctionIsSeq
<1>8. k \in 1 .. m /\ \A n \in 1 .. Len(data) : n \in 1 .. m /\ n <= Len(data)
  BY <1>1, <1>2, <1>3
<1>9. put[k] = x /\ \A n \in 1 .. Len(data) : n # k => put[n] = data[n]
  BY <1>8
<1>10. QED BY <1>3, <1>4, <1>7, <1>9

\* No save is going on.
LEMMA SavingNone == Saving = {} <=> \A i \in Instance, c \in Saver : job[i][c].at = "none"
<1>1. ASSUME Saving = {}, NEW i \in Instance, NEW c \in Saver
      PROVE  job[i][c].at = "none"
  <2>1. <<i, c>> \in Instance \X Saver /\ <<i, c>> \notin Saving
    BY <1>1
  <2>2. QED BY <2>1 DEF Saving
<1>2. ASSUME \A i \in Instance, c \in Saver : job[i][c].at = "none"
      PROVE  Saving = {}
  BY <1>2 DEF Saving
<1>3. QED BY <1>1, <1>2

-----------------------------------------------------------------------------
(* Type correctness                                                        *)

Job == [at : {"none", "open", "dump"}, image : Image, done : 0 .. Parts, met : BOOLEAN]
CoValue == {"none", "ready", "park", "busy", "save", "saved", "close", "sleep", "end",
            "dead"}
CoType == co \in [Instance -> [Coroutine -> CoValue]]
JobType == job \in [Instance -> [Saver -> Job]]
FileType == file \in [there : BOOLEAN, data : Seq(0 .. Hole)] /\ Len(file.data) <= Parts

\* What the sets of the model are, for the provers.
LEMMA Sets ==
  /\ Saver \subseteq Coroutine /\ Known \subseteq Coroutine /\ Round \subseteq Saver
  /\ Len(Tasks) = 3 /\ Tasks[1] = "loop" /\ Tasks[2] = "watch" /\ Tasks[3] = "verify"
  /\ NoJob.at = "none" /\ NoJob.met = FALSE
  /\ NoJob \in Job
  /\ Image \subseteq 0 .. Hole /\ 0 \in Image /\ MaxImage \in Nat
  /\ Parts \in Nat /\ Parts >= 2 /\ MaxInstance \in Nat /\ MaxCalls \in Nat
BY ConstantsAssumption
DEF Saver, Coroutine, Known, Round, Tasks, NoJob, Job, Image, Hole

\* One coroutine of one provider goes on.
LEMMA OneCo ==
  ASSUME TypeOK, NEW i \in Instance, NEW c \in Coroutine, NEW v \in CoValue,
         co' = [co EXCEPT ![i][c] = v]
  PROVE  /\ CoType'
         /\ \A k \in Instance, d \in Coroutine :
              co'[k][d] = IF k = i /\ d = c THEN v ELSE co[k][d]
BY DEF TypeOK, CoType, CoValue

\* A save begins.
LEMMA TruncateType ==
  ASSUME TypeOK, NEW i \in Instance, NEW c \in Saver, Truncate(i, c)
  PROVE  /\ JobType' /\ FileType'
         /\ \A k \in Instance, d \in Saver :
              IF k = i /\ d = c
              THEN job'[k][d].at = "open" /\ job'[k][d].met = (Saving # {})
              ELSE /\ job'[k][d].at = job[k][d].at
                   /\ job'[k][d].at # "none" => job'[k][d].met
                   /\ job'[k][d].done = job[k][d].done \/ job'[k][d].at = "none"
         /\ file' = [there |-> TRUE, data |-> <<>>]
<1> DEFINE new(k, d) == IF k = i /\ d = c
                        THEN [NoJob EXCEPT !.at = "open", !.met = (Saving # {})]
                        ELSE IF job[k][d].at = "none" THEN NoJob
                        ELSE [job[k][d] EXCEPT !.met = TRUE]
<1>1. job' = [k \in Instance |-> [d \in Saver |-> new(k, d)]]
  BY DEF Truncate
<1>2. ASSUME NEW k \in Instance, NEW d \in Saver
      PROVE  /\ new(k, d) \in Job
             /\ IF k = i /\ d = c
                THEN new(k, d).at = "open" /\ new(k, d).met = (Saving # {})
                ELSE /\ new(k, d).at = job[k][d].at
                     /\ new(k, d).at # "none" => new(k, d).met
                     /\ new(k, d).done = job[k][d].done \/ new(k, d).at = "none"
  <2>1. job[k][d] \in Job
    BY DEF TypeOK, Job
  <2>2. CASE k = i /\ d = c
    <3> DEFINE b == Saving # {}
    <3>1. b \in BOOLEAN
      OBVIOUS
    <3> HIDE DEF b
    <3>2. /\ [NoJob EXCEPT !.at = "open", !.met = b] \in Job
          /\ [NoJob EXCEPT !.at = "open", !.met = b].at = "open"
          /\ [NoJob EXCEPT !.at = "open", !.met = b].met = b
      BY <3>1, Sets DEF Job
    <3>3. QED BY <2>2, <3>2 DEF b
  <2>3. CASE ~(k = i /\ d = c) /\ job[k][d].at = "none"
    BY <2>3, Sets
  <2>4. CASE ~(k = i /\ d = c) /\ job[k][d].at # "none"
    BY <2>1, <2>4 DEF Job
  <2>5. QED BY <2>2, <2>3, <2>4
<1> HIDE DEF new
<1>3. \A k \in Instance, d \in Saver : job'[k][d] = new(k, d)
  BY <1>1
<1>4. JobType'
  BY <1>1, <1>2 DEF JobType
<1>5. file' = [there |-> TRUE, data |-> <<>>]
  BY DEF Truncate
<1>6. FileType'
  <2>1. <<>> \in Seq(0 .. Hole) /\ Len(<<>>) = 0
    BY EmptySeq
  <2>2. QED BY <1>5, <2>1, Sets DEF FileType
<1>7. QED BY <1>2, <1>3, <1>4, <1>5, <1>6

\* What is left of TypeOK.
ProcType ==
    /\ mode \in Mode
    /\ life \in [Instance -> {"none", "load", "save", "bind", "run", "close",
                              "cancel", "stopped", "failed", "gone"}]
    /\ next \in [Instance -> 1 .. 4]
    /\ listed \in 0 .. MaxInstance /\ calls \in 0 .. MaxCalls
    /\ state \in [Instance -> {"stopped", "idle", "syncing", "paused", "error"}]
    /\ paused \in [Instance -> BOOLEAN]
    /\ since \in [Instance -> Nat]
    /\ open \in [Instance -> BOOLEAN]
    /\ memory \in [Instance -> Image]
    /\ last \in Image
    /\ spoilt \in BOOLEAN

LEMMA TypeParts == TypeOK <=> ProcType /\ CoType /\ JobType /\ FileType
BY Sets DEF TypeOK, ProcType, CoType, CoValue, JobType, Job, FileType

LEMMA TypePartsNext == TypeOK' <=> (ProcType /\ CoType /\ JobType /\ FileType)'
BY TypeParts, PTL

-----------------------------------------------------------------------------
(* What a step leaves alone, it keeps                                      *)

\* Nothing happens to the file or to a save.
LEMMA StoreKept ==
  ASSUME IInv, UNCHANGED <<job, file, spoilt>>
  PROVE  (JobType /\ FileType /\ JobInv /\ StoreInv /\ StoreWhole)'
<1>1. (JobType /\ FileType)'
  BY TypeParts DEF IInv, JobType, FileType
<1>2. JobInv' /\ StoreInv'
  BY DEF IInv, JobInv, StoreInv
<1>3. StoreWhole'
  BY DEF IInv, StoreWhole, Saving, Whole
<1>4. QED BY <1>1, <1>2, <1>3

\* No provider starts or stops, and one coroutine goes on.
LEMMA LifeKept ==
  ASSUME IInv, NEW i \in Instance, NEW c \in Coroutine, NEW v \in CoValue,
         co' = [co EXCEPT ![i][c] = v], UNCHANGED <<mode, life, next, open>>,
         c \in Known => Alive(i, c) /\ (c # "watch" => v # "dead")
  PROVE  CoType' /\ LifeInv' /\ Remains'
<1> USE DEF IInv
<1>1. /\ CoType'
      /\ \A k \in Instance, d \in Coroutine :
           co'[k][d] = IF k = i /\ d = c THEN v ELSE co[k][d]
  BY OneCo
<1>2. \A k \in Instance, d \in Known :
        \/ co'[k][d] = co[k][d]
        \/ /\ co[k][d] \notin {"none", "end", "dead"}
           /\ d # "watch" => co'[k][d] # "dead"
  BY <1>1, Sets DEF Alive
<1> Known = {"loop", "watch", "verify"}
  BY DEF Known
<1>3. ASSUME NEW k \in Instance, life[k] = "cancel", NEW n \in 1 .. next[k] - 1
      PROVE  ~Alive(k, Tasks[n])'
  <2>1. next[k] \in 1 .. 4
    BY TypeParts DEF ProcType
  <2>2. n \in 1 .. 3 /\ Tasks[n] \in Known
    BY <2>1, Sets
  <2>3. ~Alive(k, Tasks[n])
    BY <1>3 DEF LifeInv
  <2>4. QED BY <1>2, <2>2, <2>3 DEF Alive, Tasks
<1>4. LifeInv'
  BY <1>2, <1>3 DEF LifeInv
<1>5. Remains'
  BY <1>2 DEF Remains, Alive
<1>6. QED BY <1>1, <1>4, <1>5

\* No provider is paused or resumed, and no loop woken.
LEMMA PauseKept ==
  ASSUME IInv, UNCHANGED since,
         \A k \in Instance : co'[k]["loop"] = "ready" => co[k]["loop"] = "ready"
  PROVE  PauseInv'
BY DEF IInv, PauseInv

\* A round is over, or not begun, only with a state that says so.
LEMMA SyncingKept ==
  ASSUME IInv, UNCHANGED mode,
         \A k \in Instance : state'[k] = "syncing" =>
             \/ state[k] = "syncing" /\ \A c \in Round : InRound(k, c) => InRound(k, c)'
             \/ \E c \in Round : InRound(k, c)'
  PROVE  SyncingIsReal'
BY DEF IInv, SyncingIsReal, Round

\* The parts of the invariant.
LEMMA Together ==
  ASSUME (ProcType /\ CoType /\ JobType /\ FileType)', JobInv', LifeInv', Remains',
         PauseInv', SyncingIsReal', StoreInv', StoreWhole'
  PROVE  IInv'
BY TypePartsNext DEF IInv

-----------------------------------------------------------------------------
(* Saves                                                                   *)

\* A save that begins is alone, or it and all others have met.
LEMMA TruncateKeeps ==
  ASSUME IInv, NEW i \in Instance, NEW c \in Saver, Truncate(i, c)
  PROVE  (JobType /\ FileType /\ JobInv /\ StoreInv /\ StoreWhole)'
<1> USE DEF IInv
<1>1. /\ JobType' /\ FileType'
      /\ \A k \in Instance, d \in Saver :
           IF k = i /\ d = c
           THEN job'[k][d].at = "open" /\ job'[k][d].met = (Saving # {})
           ELSE /\ job'[k][d].at = job[k][d].at
                /\ job'[k][d].at # "none" => job'[k][d].met
                /\ job'[k][d].done = job[k][d].done \/ job'[k][d].at = "none"
      /\ file' = [there |-> TRUE, data |-> <<>>]
  BY TruncateType
<1>2. JobInv'
  BY <1>1 DEF JobInv
<1>3. StoreInv'
  <2>1. ASSUME NEW k \in Instance, NEW d \in Saver,
               job'[k][d].at # "none", ~job'[k][d].met
        PROVE  /\ k = i /\ d = c /\ job'[k][d].at = "open"
               /\ \A l \in Instance, e \in Saver :
                    job'[l][e].at # "none" => l = k /\ e = d
    <3>1. k = i /\ d = c /\ job'[k][d].at = "open"
      BY <1>1, <2>1
    <3>2. Saving = {}
      BY <1>1, <2>1, <3>1
    <3>3. QED BY <1>1, <3>1, <3>2, SavingNone
  <2>2. QED BY <1>1, <2>1 DEF StoreInv
<1>4. StoreWhole'
  <2>1. <<i, c>> \in Saving'
    BY <1>1 DEF Saving
  <2>2. QED BY <2>1 DEF StoreWhole
<1>5. QED BY <1>1, <1>2, <1>3, <1>4

\* One job changes.
LEMMA OneJob ==
  ASSUME TypeOK, NEW i \in Instance, NEW c \in Saver, NEW r \in Job,
         job' = [job EXCEPT ![i][c] = r]
  PROVE  /\ JobType'
         /\ \A k \in Instance, d \in Saver :
              job'[k][d] = IF k = i /\ d = c THEN r ELSE job[k][d]
BY TypeParts DEF JobType

\* A part is written behind the others.
LEMMA PutType ==
  ASSUME TypeOK, NEW i \in Instance, NEW k \in 1 .. Parts, NEW x \in Image,
         file' = [file EXCEPT !.data = Put(file.data, k, x)]
  PROVE  /\ FileType'
         /\ file'.there = file.there /\ file'.data = Put(file.data, k, x)
         /\ Len(file'.data) = IF Len(file.data) >= k THEN Len(file.data) ELSE k
         /\ file'.data[k] = x
         /\ \A n \in 1 .. Len(file.data) : n # k => file'.data[n] = file.data[n]
<1>1. file \in [there : BOOLEAN, data : Seq(0 .. Hole)] /\ Len(file.data) <= Parts
  BY TypeParts DEF FileType
<1>2. file.data \in Seq(0 .. Hole) /\ Len(file.data) \in Nat
  BY <1>1, LenProperties
<1>3. k \in Nat \ {0} /\ k <= Parts /\ x \in 0 .. Hole
  BY Sets
<1> DEFINE p == Put(file.data, k, x)
<1>4. /\ p \in Seq(0 .. Hole)
      /\ Len(p) = IF Len(file.data) >= k THEN Len(file.data) ELSE k
      /\ p[k] = x
      /\ \A n \in 1 .. Len(file.data) : n # k => p[n] = file.data[n]
  BY <1>2, <1>3, PutPart
<1> HIDE DEF p
<1>5. file' = [file EXCEPT !.data = p]
  BY DEF p
<1>6. file'.there = file.there /\ file'.data = p /\ file' \in [there : BOOLEAN, data : Seq(0 .. Hole)]
  BY <1>1, <1>4, <1>5
<1>7. Len(p) <= Parts
  BY <1>1, <1>2, <1>3, <1>4
<1>8. FileType'
  BY <1>6, <1>7 DEF FileType
<1>9. QED BY <1>4, <1>6, <1>8 DEF p

\* The first part of a save.
LEMMA CopyStep ==
  ASSUME IInv, NEW i \in Instance, NEW c \in Saver, Copy(i, c)
  PROVE  IInv'
<1> USE DEF IInv
<1> DEFINE r == [job[i][c] EXCEPT !.at = "dump", !.done = 1, !.image = memory[i]]
<1>1. /\ job[i][c].at = "open"
      /\ job' = [job EXCEPT ![i][c] = r]
      /\ file' = [file EXCEPT !.data = Put(file.data, 1, memory[i])]
      /\ UNCHANGED <<mode, procs, memory, last, spoilt>>
  BY DEF Copy
<1>2. job[i][c] \in Job /\ memory[i] \in Image
  BY TypeParts DEF JobType, ProcType
<1>0. r = [job[i][c] EXCEPT !.at = "dump", !.done = 1, !.image = memory[i]]
  OBVIOUS
<1> HIDE DEF r
<1>3. /\ r.at = "dump" /\ r.done = 1 /\ r.image = memory[i] /\ r.met = job[i][c].met
      /\ r \in Job
  <2>1. 1 \in 0 .. Parts
    BY Sets
  <2>2. QED BY <1>0, <1>2, <2>1 DEF Job
<1>4. /\ JobType'
      /\ \A k \in Instance, d \in Saver :
           job'[k][d] = IF k = i /\ d = c THEN r ELSE job[k][d]
  BY <1>1, <1>3, OneJob
<1>5. 1 \in 1 .. Parts
  BY Sets
<1>6. /\ FileType'
      /\ Len(file'.data) = IF Len(file.data) >= 1 THEN Len(file.data) ELSE 1
      /\ file'.data[1] = memory[i]
  BY <1>1, <1>2, <1>5, PutType
<1>7. JobInv'
  BY <1>3, <1>4, Sets DEF JobInv
<1>8. StoreInv'
  <2>1. ASSUME NEW k \in Instance, NEW d \in Saver,
               job'[k][d].at # "none", ~job'[k][d].met
        PROVE  /\ k = i /\ d = c
               /\ \A l \in Instance, e \in Saver : job'[l][e].at # "none" => l = k /\ e = d
               /\ file.data = <<>>
    <3>1. job[k][d].at # "none" /\ ~job[k][d].met
      BY <1>1, <1>3, <1>4, <2>1
    <3>2. \A l \in Instance, e \in Saver : job[l][e].at # "none" => l = k /\ e = d
      BY <3>1 DEF StoreInv
    <3>3. k = i /\ d = c
      BY <1>1, <3>2
    <3>4. QED BY <1>1, <1>4, <3>1, <3>2, <3>3 DEF StoreInv
  <2>2. file.data = <<>> => Len(file'.data) = 1
    BY <1>6, EmptySeq
  <2>3. \A n \in 1 .. 1 : n = 1
    OBVIOUS
  <2>4. QED BY <1>3, <1>4, <1>6, <2>1, <2>2, <2>3 DEF StoreInv
<1>9. StoreWhole'
  <2>1. <<i, c>> \in Saving'
    BY <1>3, <1>4 DEF Saving
  <2>2. QED BY <2>1 DEF StoreWhole
<1>10. ProcType' /\ CoType' /\ LifeInv' /\ Remains' /\ PauseInv' /\ SyncingIsReal'
  BY <1>1, TypeParts
  DEF procs, ProcType, CoType, LifeInv, Remains, Alive, PauseInv, SyncingIsReal, InRound
<1>11. QED BY <1>4, <1>6, <1>7, <1>8, <1>9, <1>10, Together

\* A save that is over lets the coroutine go on, and start() too.
LEMMA SavedKeeps ==
  ASSUME IInv, NEW i \in Instance, NEW c \in Saver, Saved(i, c),
         UNCHANGED <<mode, next, state, since, open>>
  PROVE  /\ CoType' /\ LifeInv' /\ Remains' /\ PauseInv' /\ SyncingIsReal'
         /\ life' \in [Instance -> {"none", "load", "save", "bind", "run", "close",
                                    "cancel", "stopped", "failed", "gone"}]
<1> USE DEF IInv
<1> DEFINE v == IF co[i][c] # "save" THEN co[i][c]
                ELSE CASE c = "init" -> "none"
                       [] c = "watch" -> "ready"
                       [] c \in Round /\ mode = "p2p" -> "busy"
                       [] OTHER -> "saved"
<1>1. ProcType /\ CoType /\ c \in Coroutine
  BY TypeParts, Sets
<1>2. /\ v \in CoValue
      /\ v # co[i][c] => co[i][c] = "save"
      /\ v \in {"dead", "ready"} => v = co[i][c] \/ c = "watch"
      /\ c \in Round => v = co[i][c] \/ v \in {"busy", "saved"}
  BY <1>1, Sets DEF CoType, CoValue, Round
<1>3. co' = [co EXCEPT ![i][c] = v]
  <2>1. CASE co[i][c] = "save"
    BY <2>1 DEF Saved
  <2>2. CASE co[i][c] # "save"
    <3>1. co' = co /\ v = co[i][c]
      BY <2>2 DEF Saved
    <3>2. co = [co EXCEPT ![i][c] = co[i][c]]
      BY <1>1 DEF CoType
    <3>3. QED BY <3>1, <3>2
  <2>3. QED BY <2>1, <2>2
<1> HIDE DEF v
<1>4. /\ CoType'
      /\ \A k \in Instance, d \in Coroutine :
           co'[k][d] = IF k = i /\ d = c THEN v ELSE co[k][d]
  BY <1>1, <1>2, <1>3, OneCo
<1>5. PauseInv'
  <2>1. "loop" \in Coroutine
    BY DEF Coroutine, Saver
  <2>2. QED BY <1>2, <1>4, <2>1, PauseKept
<1>6. SyncingIsReal'
  <2>1. \A k \in Instance, d \in Round : InRound(k, d) => InRound(k, d)'
    BY <1>2, <1>4, Sets DEF InRound
  <2>2. QED BY <2>1, SyncingKept
<1>7. life' = IF c = "init" /\ life[i] = "save" THEN [life EXCEPT ![i] = "bind"] ELSE life
  BY DEF Saved
<1>8. LifeInv' /\ Remains'
  <2>1. CASE co' = co /\ UNCHANGED life
    BY <2>1 DEF LifeInv, Remains, Alive
  <2>2. CASE co[i][c] = "save" /\ UNCHANGED life
    <3>1. c \in Known => Alive(i, c) /\ (c # "watch" => v # "dead")
      BY <1>2, <2>2 DEF Alive
    <3>2. QED BY <1>1, <1>2, <1>3, <2>2, <3>1, LifeKept
  <2>3. CASE c = "init" /\ life[i] = "save"
    <3>1. \A k \in Instance, t \in Known : co'[k][t] = co[k][t]
      BY <1>4, <2>3, Sets DEF Known
    <3>2. \A k \in Instance : life'[k] = IF k = i THEN "bind" ELSE life[k]
      BY <1>1, <1>7, <2>3 DEF ProcType
    <3>3. \A n \in 1 .. 3 : Tasks[n] \in Known
      BY Sets DEF Known
    <3>4. ASSUME NEW k \in Instance, life'[k] = "cancel", NEW n \in 1 .. next'[k] - 1
          PROVE  ~Alive(k, Tasks[n])'
      <4>1. next[k] \in 1 .. 4 /\ life[k] = "cancel"
        BY <1>1, <3>2, <3>4 DEF ProcType
      <4>2. n \in 1 .. 3 /\ ~Alive(k, Tasks[n])
        BY <3>4, <4>1 DEF LifeInv
      <4>3. QED BY <3>1, <3>3, <4>2 DEF Alive, Tasks
    <3>5. LifeInv'
      BY <2>3, <3>1, <3>2, <3>4 DEF LifeInv, Known
    <3>6. Remains'
      BY <2>3, <3>1, <3>2 DEF Remains, Alive, Known
    <3>7. QED BY <3>5, <3>6
  <2>4. co[i][c] # "save" => co' = co
    BY DEF Saved
  <2>5. QED BY <1>7, <2>1, <2>2, <2>3, <2>4
<1>9. life' \in [Instance -> {"none", "load", "save", "bind", "run", "close",
                             "cancel", "stopped", "failed", "gone"}]
  BY <1>1, <1>7 DEF ProcType
<1>10. QED BY <1>4, <1>5, <1>6, <1>8, <1>9

\* The other parts of a save.
LEMMA WriteStep ==
  ASSUME IInv, NEW i \in Instance, NEW c \in Saver, Write(i, c)
  PROVE  IInv'
<1> USE DEF IInv
<1> DEFINE k == job[i][c].done + 1
           x == job[i][c].image
<1>1. /\ job[i][c].at = "dump"
      /\ file' = [file EXCEPT !.data = Put(file.data, k, x)]
      /\ UNCHANGED <<mode, calls, next, listed, state, paused, since, open, memory, last>>
  BY DEF Write, ImageOf
<1>2. job[i][c] \in Job /\ x \in Image
  BY TypeParts DEF JobType, Job
<1>3. k \in 2 .. Parts /\ k - 1 = job[i][c].done /\ Parts \in Nat
  BY <1>1, Sets DEF JobInv
<1>4. k < Parts => /\ job' = [job EXCEPT ![i][c].done = k]
                   /\ UNCHANGED <<spoilt, co, life>>
  BY DEF Write
<1>5. ~(k < Parts) => /\ job' = [job EXCEPT ![i][c] = NoJob]
                      /\ spoilt' = job[i][c].met
                      /\ Saved(i, c)
  BY DEF Write
<1>6. file \in [there : BOOLEAN, data : Seq(0 .. Hole)] /\ Len(file.data) \in Nat
  BY TypeParts, LenProperties DEF FileType
<1> HIDE DEF k, x
<1>7. k \in 1 .. Parts
  BY <1>3
<1>8. /\ FileType'
      /\ Len(file'.data) = IF Len(file.data) >= k THEN Len(file.data) ELSE k
      /\ file'.data[k] = x
      /\ \A n \in 1 .. Len(file.data) : n # k => file'.data[n] = file.data[n]
  BY <1>1, <1>2, <1>7, PutType
\* An unmet save has written its parts in order.
<1>9. ASSUME ~job[i][c].met
      PROVE  /\ \A l \in Instance, e \in Saver : job[l][e].at # "none" => l = i /\ e = c
             /\ Len(file'.data) = k
             /\ \A n \in 1 .. k : file'.data[n] = x
  <2>1. /\ \A l \in Instance, e \in Saver : job[l][e].at # "none" => l = i /\ e = c
        /\ Len(file.data) = k - 1
        /\ \A n \in 1 .. k - 1 : file.data[n] = x
    BY <1>1, <1>3, <1>9 DEF StoreInv, x
  <2>2. Len(file'.data) = k
    BY <1>3, <1>8, <2>1
  <2>3. ASSUME NEW n \in 1 .. k PROVE file'.data[n] = x
    <3>1. CASE n = k
      BY <1>8, <3>1
    <3>2. CASE n # k
      <4>1. n \in 1 .. k - 1
        BY <1>3, <3>2
      <4>2. QED BY <1>8, <2>1, <3>2, <4>1
    <3>3. QED BY <3>1, <3>2
  <2>4. QED BY <2>1, <2>2, <2>3
<1>10. CASE k < Parts
  <2> DEFINE r == [job[i][c] EXCEPT !.done = k]
  <2>1. job' = [job EXCEPT ![i][c] = r]
    BY <1>4, <1>10, TypeParts DEF JobType
  <2>2. /\ r \in Job /\ r.at = "dump" /\ r.done = k
        /\ r.image = x /\ r.met = job[i][c].met
    <3>1. k \in 0 .. Parts
      BY <1>3
    <3>2. QED BY <1>1, <1>2, <3>1 DEF Job, x
  <2> HIDE DEF r
  <2>3. /\ JobType'
        /\ \A l \in Instance, e \in Saver :
             job'[l][e] = IF l = i /\ e = c THEN r ELSE job[l][e]
    BY <2>1, <2>2, OneJob
  <2>4. JobInv'
    <3>1. k \in 1 .. Parts - 1
      BY <1>3, <1>10
    <3>2. QED BY <2>2, <2>3, <3>1 DEF JobInv
  <2>5. StoreInv'
    <3>1. ASSUME NEW l \in Instance, NEW e \in Saver,
                 job'[l][e].at # "none", ~job'[l][e].met
          PROVE  l = i /\ e = c
      BY <1>1, <2>3, <3>1 DEF StoreInv
    <3>2. QED BY <1>9, <2>2, <2>3, <3>1 DEF StoreInv
  <2>6. StoreWhole'
    <3>1. <<i, c>> \in Saving'
      BY <2>2, <2>3 DEF Saving
    <3>2. QED BY <3>1 DEF StoreWhole
  <2>7. ProcType' /\ CoType' /\ LifeInv' /\ Remains' /\ PauseInv' /\ SyncingIsReal'
    BY <1>1, <1>4, <1>10, TypeParts
    DEF ProcType, CoType, LifeInv, Remains, Alive, PauseInv, SyncingIsReal, InRound
  <2>8. QED BY <1>8, <2>3, <2>4, <2>5, <2>6, <2>7, Together
<1>11. CASE ~(k < Parts)
  <2>1. k = Parts
    BY <1>3, <1>11
  <2>2. /\ JobType'
        /\ \A l \in Instance, e \in Saver :
             job'[l][e] = IF l = i /\ e = c THEN NoJob ELSE job[l][e]
    BY <1>5, <1>11, Sets, OneJob
  <2>3. JobInv'
    BY <2>2, Sets DEF JobInv
  <2>4. StoreInv'
    <3>1. ASSUME NEW l \in Instance, NEW e \in Saver,
                 job'[l][e].at # "none", ~job'[l][e].met
          PROVE  FALSE
      BY <1>1, <2>2, <3>1, Sets DEF StoreInv
    <3>2. QED BY <3>1 DEF StoreInv
  <2>5. StoreWhole'
    BY <1>2, <1>5, <1>9, <1>11, <2>1 DEF StoreWhole, Whole
  <2>6. /\ CoType' /\ LifeInv' /\ Remains' /\ PauseInv' /\ SyncingIsReal'
        /\ life' \in [Instance -> {"none", "load", "save", "bind", "run", "close",
                                   "cancel", "stopped", "failed", "gone"}]
    BY <1>1, <1>5, <1>11, SavedKeeps
  <2>7. ProcType'
    BY <1>1, <1>2, <1>5, <1>11, <2>6, TypeParts DEF ProcType, Job
  <2>8. QED BY <1>8, <2>2, <2>3, <2>4, <2>5, <2>6, <2>7, Together
<1>12. QED BY <1>10, <1>11

\* save() raises.
LEMMA SaveFailsKeeps ==
  ASSUME IInv, NEW i \in Instance, NEW c \in Saver,
         job[i][c].at # "none", job' = [job EXCEPT ![i][c] = NoJob],
         spoilt' = TRUE, UNCHANGED file
  PROVE  (JobType /\ FileType /\ JobInv /\ StoreInv /\ StoreWhole)'
<1> USE DEF IInv
<1>1. /\ JobType'
      /\ \A l \in Instance, e \in Saver :
           job'[l][e] = IF l = i /\ e = c THEN NoJob ELSE job[l][e]
  BY Sets, OneJob
<1>2. FileType'
  BY TypeParts DEF FileType
<1>3. JobInv'
  BY <1>1, Sets DEF JobInv
<1>4. StoreInv'
  BY <1>1, Sets DEF StoreInv
<1>5. StoreWhole'
  BY DEF StoreWhole
<1>6. QED BY <1>1, <1>2, <1>3, <1>4, <1>5

-----------------------------------------------------------------------------
(* Coroutines                                                              *)

\* One coroutine goes on, and "syncing" is not left behind.
LEMMA CoStep ==
  ASSUME IInv, NEW i \in Instance, NEW c \in Coroutine, NEW v \in CoValue,
         co' = [co EXCEPT ![i][c] = v], UNCHANGED <<mode, life, next, open>>,
         c \in Known => Alive(i, c) /\ (c # "watch" => v # "dead"),
         \A k \in Instance : state'[k] = "syncing" =>
            \/ state[k] = "syncing"
            \/ k = i /\ c \in Round /\ v = "busy",
         \/ c \notin Round \/ v \in {"busy", "save", "saved"}
         \/ ~InRound(i, c) \/ state'[i] # "syncing" \/ mode # "p2p"
  PROVE  CoType' /\ LifeInv' /\ Remains' /\ SyncingIsReal'
<1>1. /\ CoType'
      /\ \A k \in Instance, d \in Coroutine :
           co'[k][d] = IF k = i /\ d = c THEN v ELSE co[k][d]
  BY OneCo DEF IInv
<1>2. LifeInv' /\ Remains'
  BY LifeKept
<1>3. ASSUME mode = "p2p" PROVE SyncingIsReal'
  <2>1. ASSUME NEW k \in Instance, state'[k] = "syncing"
        PROVE  \/ state[k] = "syncing" /\ \A d \in Round : InRound(k, d) => InRound(k, d)'
               \/ \E d \in Round : InRound(k, d)'
    <3>1. CASE k = i /\ c \in Round /\ v = "busy"
      BY <1>1, <3>1, Sets DEF InRound
    <3>2. CASE state[k] = "syncing" /\ k # i
      BY <1>1, <3>2, Sets DEF InRound
    <3>3. CASE state[k] = "syncing" /\ k = i
      BY <1>1, <1>3, <2>1, <3>3, Sets DEF InRound
    <3>4. QED BY <2>1, <3>1, <3>2, <3>3
  <2>2. QED BY <2>1, SyncingKept
<1>4. mode # "p2p" => SyncingIsReal'
  BY DEF SyncingIsReal
<1>5. QED BY <1>1, <1>2, <1>3, <1>4

\* One coroutine goes on, and no loop is woken.
LEMMA CoPause ==
  ASSUME IInv, NEW i \in Instance, NEW c \in Coroutine, NEW v \in CoValue,
         co' = [co EXCEPT ![i][c] = v], UNCHANGED since, c = "loop" => v # "ready"
  PROVE  PauseInv'
<1>1. "loop" \in Coroutine
  BY DEF Coroutine, Saver
<1>2. \A k \in Instance, d \in Coroutine :
        co'[k][d] = IF k = i /\ d = c THEN v ELSE co[k][d]
  BY OneCo DEF IInv
<1>3. QED BY <1>1, <1>2, PauseKept

\* A coroutine begins a save.
LEMMA BeginSaveStep ==
  ASSUME IInv, NEW i \in Instance, NEW c \in Saver, BeginSave(i, c)
  PROVE  IInv'
<1> USE DEF BeginSave
<1>1. (JobType /\ FileType /\ JobInv /\ StoreInv /\ StoreWhole)'
  BY TruncateKeeps
<1>2. c \in Coroutine /\ "save" \in CoValue /\ Alive(i, c)
  BY Sets DEF CoValue, Alive
<1>3. (CoType /\ LifeInv /\ Remains /\ SyncingIsReal /\ PauseInv)'
  BY <1>2, CoStep, CoPause
<1>4. ProcType'
  BY TypeParts DEF IInv, ProcType
<1>5. QED BY <1>1, <1>3, <1>4, Together

\* save() raises: what becomes of the coroutine.
LEMMA SaveFailsStep ==
  ASSUME IInv, NEW i \in Instance, NEW c \in Saver, SaveFails(i, c)
  PROVE  IInv'
<1> USE DEF SaveFails
<1>1. (JobType /\ FileType /\ JobInv /\ StoreInv /\ StoreWhole)'
  BY SaveFailsKeeps
<1>2. ProcType'
  BY TypeParts DEF IInv, ProcType
<1>3. c \in Coroutine
  BY Sets
<1>4. CASE co[i][c] # "save"
  <2>1. UNCHANGED <<mode, procs>>
    BY <1>4 DEF procs
  <2>2. (CoType /\ LifeInv /\ Remains /\ SyncingIsReal /\ PauseInv)'
    BY <2>1, TypeParts
    DEF procs, IInv, CoType, LifeInv, Remains, Alive, PauseInv, SyncingIsReal, InRound
  <2>3. QED BY <1>1, <1>2, <2>2, Together
<1>5. CASE co[i][c] = "save"
  <2>1. PICK v \in CoValue :
          /\ co' = [co EXCEPT ![i][c] = v]
          /\ v # "ready" /\ (v = "dead" => c = "watch")
          /\ c \in Round /\ mode = "p2p" => v = "busy"
    <3>1. CASE c \in Round /\ mode = "client"
      <4>1. Over(c) \in CoValue /\ Over(c) \notin {"ready", "dead"}
        BY DEF CoValue, Over
      <4>2. QED BY <1>5, <3>1, <4>1
    <3>2. CASE ~(c \in Round /\ mode = "client")
      <4>1. {"dead", "none", "busy"} \subseteq CoValue /\ {"watch", "conn"} \cap Round = {}
        BY DEF CoValue, Round
      <4>2. CASE c = "watch"
        BY <1>5, <3>2, <4>1, <4>2
      <4>3. CASE c = "conn"
        BY <1>5, <3>2, <4>1, <4>3
      <4>4. CASE c \notin {"watch", "conn"}
        BY <1>5, <3>2, <4>1, <4>4
      <4>5. QED BY <4>2, <4>3, <4>4
    <3>3. QED BY <3>1, <3>2
  <2>2. \A k \in Instance : state'[k] = "syncing" => state[k] = "syncing"
    BY <1>5, TypeParts DEF IInv, ProcType
  <2>3. Alive(i, c)
    BY <1>5 DEF Alive
  <2>4. /\ UNCHANGED <<mode, life, next, open, since>>
        /\ \A k \in Instance : state'[k] = "syncing" =>
              \/ state[k] = "syncing"
              \/ k = i /\ c \in Round /\ v = "busy"
        /\ \/ c \notin Round \/ v \in {"busy", "save", "saved"}
           \/ ~InRound(i, c) \/ state'[i] # "syncing" \/ mode # "p2p"
        /\ c \in Known => Alive(i, c) /\ (c # "watch" => v # "dead")
    BY <2>1, <2>2, <2>3
  <2> HIDE DEF SaveFails
  <2>5. (CoType /\ LifeInv /\ Remains /\ SyncingIsReal /\ PauseInv)'
    BY <1>3, <2>1, <2>4, CoStep, CoPause
  <2>6. QED BY <1>1, <1>2, <2>5, Together
<1>6. QED BY <1>4, <1>5

\* A session or a handler learns something.
LEMMA LearnStep ==
  ASSUME IInv, NEW i \in Instance, NEW c \in Saver, Learn(i, c)
  PROVE  IInv'
<1> USE DEF Learn
<1>1. (JobType /\ FileType /\ JobInv /\ StoreInv /\ StoreWhole)'
  BY StoreKept
<1>2. last' \in Image
  BY TypeParts, Sets DEF IInv, ProcType, Image
<1>3. ProcType'
  BY <1>2, TypeParts DEF IInv, ProcType, procs
<1>4. (CoType /\ LifeInv /\ Remains /\ SyncingIsReal /\ PauseInv)'
  BY TypeParts
  DEF procs, IInv, CoType, LifeInv, Remains, Alive, PauseInv, SyncingIsReal, InRound
<1>5. QED BY <1>1, <1>3, <1>4, Together

\* A round ends.
LEMMA EndRoundStep ==
  ASSUME IInv, NEW i \in Instance, NEW c \in Saver, EndRound(i, c)
  PROVE  IInv'
<1> USE DEF EndRound
<1>1. (JobType /\ FileType /\ JobInv /\ StoreInv /\ StoreWhole)'
  BY StoreKept DEF store
<1>2. ProcType'
  BY TypeParts DEF IInv, ProcType, store
<1>3. /\ c \in Coroutine /\ Over(c) \in CoValue /\ Alive(i, c)
      /\ Over(c) # "dead" /\ Over(c) # "ready"
  BY Sets DEF CoValue, Alive, Over
<1>4. /\ \A k \in Instance : state'[k] = "syncing" => state[k] = "syncing"
      /\ state'[i] # "syncing" \/ mode # "p2p"
  BY TypeParts DEF IInv, ProcType
<1>5. (CoType /\ LifeInv /\ Remains /\ SyncingIsReal /\ PauseInv)'
  <2>1. PICK v \in CoValue : v = Over(c)
    BY <1>3
  <2>2. /\ co' = [co EXCEPT ![i][c] = v]
        /\ UNCHANGED <<mode, life, next, open, since>>
        /\ c \in Known => Alive(i, c) /\ (c # "watch" => v # "dead")
        /\ c = "loop" => v # "ready"
    BY <1>3, <2>1
  <2> HIDE DEF EndRound
  <2>3. QED BY <1>3, <1>4, <2>2, CoStep, CoPause
<1>6. QED BY <1>1, <1>2, <1>5, Together

\* A round begins.
LEMMA BeginRoundKeeps ==
  ASSUME IInv, NEW i \in Instance, NEW c \in Round, BeginRound(i, c),
         c \in Known => Alive(i, c), UNCHANGED <<mode, life, next, open>>
  PROVE  /\ CoType' /\ LifeInv' /\ Remains' /\ SyncingIsReal'
         /\ state' \in [Instance -> {"stopped", "idle", "syncing", "paused", "error"}]
         /\ since' \in [Instance -> Nat]
<1>1. c \in Coroutine /\ "busy" \in CoValue /\ co' = [co EXCEPT ![i][c] = "busy"]
  BY Sets DEF CoValue, BeginRound
<1>2. \A k \in Instance : state'[k] = "syncing" => state[k] = "syncing" \/ k = i
  BY TypeParts DEF IInv, ProcType, BeginRound
<1>3. PICK v \in CoValue : v = "busy"
  BY <1>1
<1>4. CoType' /\ LifeInv' /\ Remains' /\ SyncingIsReal'
  <2>1. /\ co' = [co EXCEPT ![i][c] = v] /\ v \in {"busy", "save", "saved"}
        /\ c \in Known => Alive(i, c) /\ (c # "watch" => v # "dead")
        /\ \A k \in Instance : state'[k] = "syncing" =>
              \/ state[k] = "syncing"
              \/ k = i /\ c \in Round /\ v = "busy"
    BY <1>1, <1>2, <1>3
  <2>2. QED BY <1>1, <2>1, CoStep
<1>5. QED BY <1>4, TypeParts DEF IInv, ProcType, BeginRound

\* The loop goes on: the round that a resume() has let through is the only
\* one it begins while it is paused.
LEMMA LoopTurnStep ==
  ASSUME IInv, NEW i \in Instance, LoopTurn(i)
  PROVE  IInv'
<1> USE DEF LoopTurn
<1>1. (JobType /\ FileType /\ JobInv /\ StoreInv /\ StoreWhole)'
  BY StoreKept DEF store
<1>2. "loop" \in Round /\ "loop" \in Coroutine /\ Alive(i, "loop")
  BY DEF Round, Coroutine, Saver, Alive
<1>3. CASE co[i]["loop"] = "sleep" /\ paused[i]
  <2>1. "park" \in CoValue /\ ~InRound(i, "loop")
    BY <1>3 DEF CoValue, InRound
  <2>2. (CoType /\ LifeInv /\ Remains /\ SyncingIsReal /\ PauseInv)'
    BY <1>2, <1>3, <2>1, CoStep, CoPause
  <2>3. ProcType'
    BY <1>3, TypeParts DEF IInv, ProcType, store
  <2>4. QED BY <1>1, <2>2, <2>3, Together
<1>4. CASE ~(co[i]["loop"] = "sleep" /\ paused[i])
  <2>1. /\ (CoType /\ LifeInv /\ Remains /\ SyncingIsReal)'
        /\ state' \in [Instance -> {"stopped", "idle", "syncing", "paused", "error"}]
        /\ since' \in [Instance -> Nat]
    BY <1>2, <1>4, BeginRoundKeeps
  <2>2. PauseInv'
    <3>1. since \in [Instance -> Nat] /\ co \in [Instance -> [Coroutine -> CoValue]]
      BY TypeParts DEF IInv, ProcType, CoType
    <3>2. paused[i] => since[i] = 0
      BY <1>4 DEF IInv, PauseInv
    <3>3. \A k \in Instance : k # i => since'[k] = since[k] /\ co'[k]["loop"] = co[k]["loop"]
      BY <1>4, <3>1 DEF BeginRound
    <3>4. co'[i]["loop"] = "busy"
      BY <1>2, <1>4, <3>1 DEF BeginRound
    <3>5. since'[i] <= 1
      BY <1>4, <3>1, <3>2 DEF BeginRound, IInv, PauseInv
    <3>6. QED BY <3>3, <3>4, <3>5 DEF IInv, PauseInv
  <2>3. ProcType'
    BY <2>1, TypeParts DEF IInv, ProcType, store
  <2>4. QED BY <1>1, <2>1, <2>2, <2>3, Together
<1>5. QED BY <1>3, <1>4

\* A triggered round begins.
LEMMA ExtraRoundStep ==
  ASSUME IInv, NEW i \in Instance, ExtraRound(i)
  PROVE  IInv'
<1> USE DEF ExtraRound
<1>1. (JobType /\ FileType /\ JobInv /\ StoreInv /\ StoreWhole)'
  BY StoreKept DEF store
<1>2. "extra" \in Round /\ "extra" \notin Known
  BY DEF Round, Known
<1>3. /\ (CoType /\ LifeInv /\ Remains /\ SyncingIsReal /\ PauseInv)'
      /\ state' \in [Instance -> {"stopped", "idle", "syncing", "paused", "error"}]
      /\ since' \in [Instance -> Nat]
  <2>1. UNCHANGED since /\ co' = [co EXCEPT ![i]["extra"] = "busy"]
    BY DEF BeginRound
  <2>2. "extra" \in Coroutine /\ "busy" \in CoValue
    BY DEF Coroutine, Saver, CoValue
  <2>3. PauseInv'
    BY <2>1, <2>2, CoPause
  <2>4. QED BY <1>2, <2>3, BeginRoundKeeps
<1>4. ProcType'
  BY <1>3, TypeParts DEF IInv, ProcType, store
<1>5. QED BY <1>1, <1>3, <1>4, Together

\* The watch loop: a batch, or its end.
LEMMA WatchStep ==
  ASSUME IInv, NEW i \in Instance, Batch(i) \/ WatchFails(i)
  PROVE  IInv'
<1>1. "watch" \in Coroutine /\ "watch" \in Saver /\ "watch" \notin Round /\ Alive(i, "watch")
  BY DEF Coroutine, Saver, Round, Alive, Batch, WatchFails
<1>2. CASE Batch(i)
  <2> USE <1>2 DEF Batch
  <2>1. (JobType /\ FileType /\ JobInv /\ StoreInv /\ StoreWhole)'
    BY <1>1, TruncateKeeps
  <2>2. last' \in Image
    BY TypeParts, Sets DEF IInv, ProcType, Image
  <2>3. ProcType'
    BY <2>2, TypeParts DEF IInv, ProcType
  <2>4. "save" \in CoValue
    BY DEF CoValue
  <2>5. (CoType /\ LifeInv /\ Remains /\ SyncingIsReal /\ PauseInv)'
    BY <1>1, <2>4, CoStep, CoPause
  <2>6. QED BY <2>1, <2>3, <2>5, Together
<1>3. CASE WatchFails(i)
  <2> USE <1>3 DEF WatchFails
  <2>1. (JobType /\ FileType /\ JobInv /\ StoreInv /\ StoreWhole)'
    BY StoreKept DEF store
  <2>2. ProcType'
    BY TypeParts DEF IInv, ProcType, store
  <2>3. "dead" \in CoValue
    BY DEF CoValue
  <2>4. (CoType /\ LifeInv /\ Remains /\ SyncingIsReal /\ PauseInv)'
    BY <1>1, <2>3, CoStep, CoPause
  <2>5. QED BY <2>1, <2>2, <2>4, Together
<1>4. QED BY <1>2, <1>3

\* A connection or a triggered round comes, and a connection goes.
LEMMA CallStep ==
  ASSUME IInv, NEW i \in Instance, Accept(i) \/ EndConn(i) \/ Trigger(i)
  PROVE  IInv'
<1>1. (JobType /\ FileType /\ JobInv /\ StoreInv /\ StoreWhole)'
  BY StoreKept DEF Accept, EndConn, Trigger, store
<1>2. ProcType'
  <2>1. calls' \in 0 .. MaxCalls
    BY TypeParts, Sets DEF IInv, ProcType, Accept, EndConn, Trigger
  <2>2. QED BY <2>1, TypeParts DEF IInv, ProcType, Accept, EndConn, Trigger, store
<1>3. /\ "conn" \in Coroutine /\ "conn" \notin Round /\ "conn" \notin Known
      /\ "extra" \in Coroutine /\ "extra" \notin Known /\ {"busy", "none", "ready"} \subseteq CoValue
  BY DEF Coroutine, Saver, Round, Known, CoValue
<1>4. (CoType /\ LifeInv /\ Remains /\ SyncingIsReal /\ PauseInv)'
  <2>1. CASE Accept(i)
    BY <1>3, <2>1, CoStep, CoPause DEF Accept
  <2>2. CASE EndConn(i)
    BY <1>3, <2>2, CoStep, CoPause DEF EndConn
  <2>3. CASE Trigger(i)
    <3>1. ~InRound(i, "extra")
      BY <2>3 DEF Trigger, Alive, InRound
    <3>2. QED BY <1>3, <2>3, <3>1, CoStep, CoPause DEF Trigger
  <2>4. QED BY <2>1, <2>2, <2>3
<1>5. QED BY <1>1, <1>2, <1>4, Together
-----------------------------------------------------------------------------
(* start() and stop()                                                      *)

\* What a provider that is paused, resumed or stopped says of itself.
LEMMA SyncingSame ==
  ASSUME IInv, UNCHANGED mode,
         \A k \in Instance : state'[k] = "syncing" => state[k] = "syncing",
         \A k \in Instance, c \in Round : state'[k] = "syncing" => co'[k][c] = co[k][c]
  PROVE  SyncingIsReal'
BY SyncingKept DEF InRound

\* start() begins, reads a file, or fails to read it.
LEMMA LoadStep ==
  ASSUME IInv, NEW i \in Instance, Begin(i) \/ Load(i) \/ LoadFails(i)
  PROVE  IInv'
<1>1. (JobType /\ FileType /\ JobInv /\ StoreInv /\ StoreWhole)'
  BY StoreKept DEF Begin, Load, LoadFails, store
<1>2. /\ life[i] \in {"none", "load"} /\ next[i] = 1 /\ ~open[i]
      /\ \A t \in Known : co[i][t] = "none"
  BY DEF IInv, LifeInv, Begin, Load, LoadFails
<1>3. memory' \in [Instance -> Image] /\ last' \in Image
  <2>1. memory \in [Instance -> Image] /\ last \in Image
    BY TypeParts DEF IInv, ProcType
  <2>2. CASE Begin(i) \/ LoadFails(i)
    BY <2>1, <2>2 DEF Begin, LoadFails, store
  <2>3. CASE Load(i) /\ last' = last
    <3>1. Whole(file.data) => file.data[1] \in Image
      <4>1. 1 \in 1 .. Parts
        BY Sets
      <4>2. QED BY <4>1 DEF Whole
    <3>2. QED BY <2>1, <2>3, <3>1, Sets DEF Load
  <2>4. CASE Load(i) /\ last < MaxImage /\ last' = last + 1 /\ memory' = [memory EXCEPT ![i] = last']
    <3>1. last' \in Image
      BY <2>1, <2>4, Sets DEF Image
    <3>2. QED BY <2>1, <2>4, <3>1
  <2>5. QED BY <2>2, <2>3, <2>4 DEF Load
<1>4. ProcType'
  BY <1>3, TypeParts DEF IInv, ProcType, Begin, Load, LoadFails, store
<1>5. /\ CoType'
      /\ \A k \in Instance, d \in Coroutine : d # "init" => co'[k][d] = co[k][d]
  <2>1. CASE Load(i)
    <3>1. PICK c \in Coroutine, v \in CoValue : c = "init" /\ v = "busy"
      BY DEF Coroutine, Saver, CoValue
    <3>2. co' = [co EXCEPT ![i][c] = v]
      BY <2>1, <3>1 DEF Load
    <3>3. /\ CoType'
          /\ \A k \in Instance, d \in Coroutine :
               co'[k][d] = IF k = i /\ d = c THEN v ELSE co[k][d]
      BY <3>2, OneCo DEF IInv
    <3>4. QED BY <3>1, <3>3
  <2>2. CASE Begin(i) \/ LoadFails(i)
    BY <2>2, TypeParts DEF Begin, LoadFails, IInv, CoType
  <2>3. QED BY <2>1, <2>2
<1>6. /\ Known \subseteq Coroutine \ {"init"} /\ Round \subseteq Coroutine \ {"init"}
      /\ Known = {"loop", "watch", "verify"}
  BY DEF Known, Round, Coroutine, Saver
<1>7. /\ \A k \in Instance, t \in Known : co'[k][t] = co[k][t]
      /\ \A k \in Instance : co'[k]["loop"] = co[k]["loop"]
  BY <1>5, <1>6
<1>8. UNCHANGED <<mode, next, state, since, open>>
  BY DEF Begin, Load, LoadFails
<1>9. \A k \in Instance : life'[k] = life[k] \/ (k = i /\ life'[k] \in {"load", "save", "failed"})
  BY TypeParts DEF IInv, ProcType, Begin, Load, LoadFails
<1>10. ASSUME NEW k \in Instance, life'[k] = "cancel", NEW n \in 1 .. next'[k] - 1
       PROVE  ~Alive(k, Tasks[n])'
  <2>1. life[k] = "cancel" /\ next[k] \in 1 .. 4
    BY <1>9, <1>10, TypeParts DEF IInv, ProcType
  <2>2. n \in 1 .. 3 /\ ~Alive(k, Tasks[n]) /\ Tasks[n] \in Known
    BY <1>6, <1>8, <1>10, <2>1, Sets DEF IInv, LifeInv
  <2>3. QED BY <1>7, <2>2 DEF Alive, Tasks
<1>11. LifeInv'
  BY <1>2, <1>6, <1>7, <1>8, <1>9, <1>10 DEF IInv, LifeInv, Begin, Load, LoadFails
<1>12. Remains'
  BY <1>2, <1>6, <1>7, <1>8, <1>9 DEF IInv, Remains, Alive
<1>13. PauseInv'
  BY <1>7, <1>8, PauseKept
<1>14. SyncingIsReal'
  BY <1>5, <1>6, <1>8, SyncingSame
<1>15. QED BY <1>1, <1>4, <1>5, <1>11, <1>12, <1>13, <1>14, Together

\* The tasks that start() creates: the watch task is ready, the others sleep.
LEMMA CreatedTasks ==
  ASSUME TypeOK, NEW i \in Instance, NEW some \in SUBSET Known, co' = Created(i, some)
  PROVE  /\ CoType'
         /\ \A k \in Instance, d \in Coroutine :
              co'[k][d] = IF k # i \/ d \notin some THEN co[k][d]
                          ELSE IF d = "watch" THEN "ready" ELSE "sleep"
BY TypeParts DEF CoType, CoValue, Created

\* The port is bound, or is not.
LEMMA BindStep ==
  ASSUME IInv, NEW i \in Instance, Bind(i) \/ BindFails(i)
  PROVE  IInv'
<1>1. (JobType /\ FileType /\ JobInv /\ StoreInv /\ StoreWhole)'
  BY StoreKept DEF Bind, BindFails, store
<1>2. ProcType'
  <2>1. i \in 0 .. MaxInstance
    BY Sets DEF Instance
  <2>2. CASE Bind(i)
    <3>1. (mode # "client") \in BOOLEAN
      OBVIOUS
    <3>2. open' \in [Instance -> BOOLEAN]
      BY <2>2, <3>1, TypeParts DEF IInv, ProcType, Bind
    <3>3. QED BY <2>1, <2>2, <3>2, TypeParts DEF IInv, ProcType, Bind, store
  <2>3. CASE BindFails(i)
    BY <2>3, TypeParts DEF IInv, ProcType, BindFails, store
  <2>4. QED BY <2>2, <2>3
<1>3. /\ life[i] = "bind" /\ next[i] = 1 /\ ~open[i]
      /\ \A t \in Known : co[i][t] = "none"
  BY DEF IInv, LifeInv, Bind, BindFails
<1>4. PICK some \in SUBSET Known :
        /\ CoType'
        /\ \A k \in Instance, d \in Coroutine :
             co'[k][d] = IF k # i \/ d \notin some THEN co[k][d]
                         ELSE IF d = "watch" THEN "ready" ELSE "sleep"
        /\ Bind(i) \/ "loop" \notin some
        /\ Bind(i) \/ some = {} \/ mode = "server"
  <2>1. WatchAndVerify \in SUBSET Known /\ AllTasks \in SUBSET Known /\ "loop" \notin WatchAndVerify
    BY DEF WatchAndVerify, AllTasks, Known
  <2>2. CASE Bind(i)
    BY <2>1, <2>2, CreatedTasks DEF Bind, IInv
  <2>3. CASE BindFails(i) /\ mode = "server"
    BY <2>1, <2>3, CreatedTasks DEF BindFails, IInv
  <2>4. CASE BindFails(i) /\ mode # "server"
    <3>1. co' = co /\ CoType'
      BY <2>4, TypeParts DEF BindFails, IInv, CoType
    <3>2. {} \in SUBSET Known
      OBVIOUS
    <3>3. QED BY <3>1, <3>2
  <2>5. QED BY <2>2, <2>3, <2>4
<1>5. /\ UNCHANGED <<mode, next, since>>
      /\ \A k \in Instance : k # i => life'[k] = life[k] /\ open'[k] = open[k] /\ state'[k] = state[k]
      /\ \/ life'[i] = "run" /\ ~BindFails(i)
         \/ life'[i] = "failed" /\ ~open'[i] /\ ~Bind(i)
      /\ state'[i] = "idle" \/ (mode # "server" /\ ~Bind(i) /\ state'[i] = state[i])
  <2>1. /\ life \in [Instance -> {"none", "load", "save", "bind", "run", "close",
                                  "cancel", "stopped", "failed", "gone"}]
        /\ state \in [Instance -> {"stopped", "idle", "syncing", "paused", "error"}]
        /\ open \in [Instance -> BOOLEAN]
    BY TypeParts DEF IInv, ProcType
  <2>2. ~(Bind(i) /\ BindFails(i))
    BY <2>1 DEF Bind, BindFails
  <2>3. CASE Bind(i)
    <3>1. ~BindFails(i)
      BY <2>2, <2>3
    <3>2. life'[i] = "run" /\ state'[i] = "idle"
      BY <2>1, <2>3 DEF Bind
    <3>3. QED BY <2>1, <2>3, <3>1, <3>2 DEF Bind
  <2>4. CASE BindFails(i)
    <3>1. ~Bind(i)
      BY <2>2, <2>4
    <3>2. life'[i] = "failed" /\ ~open'[i]
      BY <1>3, <2>1, <2>4 DEF BindFails
    <3>3. state'[i] = "idle" \/ (mode # "server" /\ state'[i] = state[i])
      BY <2>1, <2>4 DEF BindFails
    <3>4. /\ UNCHANGED <<mode, next, since>>
          /\ \A k \in Instance : k # i => life'[k] = life[k] /\ open'[k] = open[k] /\ state'[k] = state[k]
      BY <2>1, <2>4 DEF BindFails
    <3>5. QED BY <3>1, <3>2, <3>3, <3>4
  <2>5. QED BY <2>3, <2>4
<1>6. Known \subseteq Coroutine /\ Known = {"loop", "watch", "verify"} /\ Round \subseteq Coroutine
  BY Sets DEF Known
<1>7. ASSUME NEW k \in Instance, life'[k] = "cancel", NEW n \in 1 .. next'[k] - 1
      PROVE  ~Alive(k, Tasks[n])'
  <2>1. k # i /\ life[k] = "cancel" /\ next[k] \in 1 .. 4
    BY <1>5, <1>7, TypeParts DEF IInv, ProcType
  <2>2. n \in 1 .. 3 /\ ~Alive(k, Tasks[n]) /\ Tasks[n] \in Known
    BY <1>5, <1>6, <1>7, <2>1, Sets DEF IInv, LifeInv
  <2>3. QED BY <1>4, <1>6, <2>1, <2>2 DEF Alive, Tasks
<1>8. LifeInv'
  <2>1. ASSUME NEW k \in Instance
        PROVE  /\ life'[k] \in {"none", "load", "save", "bind", "run", "close"} => next'[k] = 1
               /\ life'[k] \in {"none", "load", "save", "bind"} => \A t \in Known : co'[k][t] = "none"
               /\ open'[k] => life'[k] = "run"
               /\ co'[k]["loop"] # "dead" /\ co'[k]["verify"] # "dead"
    <3>1. CASE k = i
      BY <1>3, <1>4, <1>5, <1>6, <3>1
    <3>2. CASE k # i
      BY <1>4, <1>5, <1>6, <3>2 DEF IInv, LifeInv
    <3>3. QED BY <3>1, <3>2
  <2>2. QED BY <1>7, <2>1 DEF LifeInv
<1>9. Remains'
  <2>1. ASSUME NEW k \in Instance, k # i
        PROVE  /\ life'[k] = life[k] /\ open'[k] = open[k]
               /\ \A t \in Known : co'[k][t] = co[k][t]
    BY <1>4, <1>5, <1>6, <2>1
  <2>2. life'[i] # "stopped" /\ (life'[i] = "failed" => ~Bind(i))
    BY <1>5
  <2>3. life'[i] = "failed" =>
          /\ ~open'[i] /\ co'[i]["loop"] = "none"
          /\ mode = "server" \/ (co'[i]["watch"] = "none" /\ co'[i]["verify"] = "none")
    BY <1>3, <1>4, <1>5, <1>6, <2>2
  <2>4. QED BY <1>5, <1>6, <2>1, <2>2, <2>3 DEF IInv, Remains, Alive
<1>10. PauseInv'
  BY <1>3, <1>4, <1>5, <1>6, PauseKept
<1>11. SyncingIsReal'
  <2>1. \A k \in Instance : state'[k] = "syncing" => state[k] = "syncing"
    BY <1>5
  <2>2. ASSUME NEW k \in Instance, NEW c \in Round, state'[k] = "syncing"
        PROVE  co'[k][c] = co[k][c]
    BY <1>4, <1>5, <1>6, <2>2
  <2>3. QED BY <1>5, <2>1, <2>2, SyncingSame
<1>12. QED BY <1>1, <1>2, <1>4, <1>8, <1>9, <1>10, <1>11, Together
\* pause(), resume(), and what the manager lists.
LEMMA RequestStep ==
  ASSUME IInv, NEW i \in Instance, Pause(i) \/ Resume(i) \/ Drop(i)
  PROVE  IInv'
<1>1. (JobType /\ FileType /\ JobInv /\ StoreInv /\ StoreWhole)'
  BY StoreKept DEF Pause, Resume, Drop, store
<1>2. ProcType'
  <2>1. 0 \in 0 .. MaxInstance
    BY Sets
  <2>2. CASE Pause(i)
    BY <2>2, TypeParts DEF IInv, ProcType, Pause, store
  <2>3. CASE Resume(i)
    BY <2>3, TypeParts DEF IInv, ProcType, Resume, store
  <2>4. CASE Drop(i)
    BY <2>1, <2>4, TypeParts DEF IInv, ProcType, Drop, store
  <2>5. QED BY <2>2, <2>3, <2>4
<1>3. /\ CoType'
      /\ \A k \in Instance, d \in Coroutine :
           \/ co'[k][d] = co[k][d]
           \/ Resume(i) /\ k = i /\ co[k][d] = "park" /\ co'[k][d] = "ready"
  <2>1. CASE Pause(i) \/ Drop(i)
    BY <2>1, TypeParts DEF Pause, Drop, IInv, CoType
  <2>2. CASE Resume(i)
    BY <2>2, TypeParts DEF Resume, Woken, IInv, CoType, CoValue
  <2>3. QED BY <2>1, <2>2
<1>4. UNCHANGED <<mode, life, next, open>>
  BY DEF Pause, Resume, Drop
<1>5. Known \subseteq Coroutine /\ Known = {"loop", "watch", "verify"} /\ Round \subseteq Coroutine
  BY Sets DEF Known
<1>6. \A k \in Instance, t \in Known :
        \/ co'[k][t] = co[k][t]
        \/ co[k][t] = "park" /\ co'[k][t] = "ready"
  BY <1>3, <1>5
<1>7. ASSUME NEW k \in Instance, life'[k] = "cancel", NEW n \in 1 .. next'[k] - 1
      PROVE  ~Alive(k, Tasks[n])'
  <2>1. life[k] = "cancel" /\ next[k] \in 1 .. 4
    BY <1>4, <1>7, TypeParts DEF IInv, ProcType
  <2>2. n \in 1 .. 3 /\ ~Alive(k, Tasks[n]) /\ Tasks[n] \in Known
    BY <1>4, <1>5, <1>7, <2>1, Sets DEF IInv, LifeInv
  <2>3. QED BY <1>6, <2>2 DEF Alive, Tasks
<1>8. LifeInv'
  BY <1>4, <1>5, <1>6, <1>7 DEF IInv, LifeInv
<1>9. Remains'
  BY <1>4, <1>5, <1>6 DEF IInv, Remains, Alive
<1>10. PauseInv'
  <2>1. since \in [Instance -> Nat]
    BY TypeParts DEF IInv, ProcType
  <2>2. \A k \in Instance : since'[k] = since[k] \/ since'[k] = 0
    BY <2>1 DEF Pause, Resume, Drop
  <2>3. Resume(i) => since'[i] = 0
    BY <2>1 DEF Resume
  <2>4. QED BY <1>3, <1>5, <2>2, <2>3 DEF IInv, PauseInv
<1>11. SyncingIsReal'
  <2>1. \A k \in Instance : state'[k] = "syncing" =>
          state[k] = "syncing" /\ (Resume(i) => k # i)
    BY TypeParts DEF IInv, ProcType, Pause, Resume, Drop
  <2>2. QED BY <1>3, <1>4, <1>5, <2>1, SyncingSame
<1>12. QED BY <1>1, <1>2, <1>3, <1>8, <1>9, <1>10, <1>11, Together

\* stop() begins, goes on when the server is closed, and returns when every
\* task has ended.
LEMMA StopStep ==
  ASSUME IInv, NEW i \in Instance, Stop(i) \/ Closed(i) \/ Cancelled(i)
  PROVE  IInv'
<1>1. (JobType /\ FileType /\ JobInv /\ StoreInv /\ StoreWhole)'
  BY StoreKept DEF Stop, Closed, Cancelled, store
<1>2. /\ life \in [Instance -> {"none", "load", "save", "bind", "run", "close",
                                "cancel", "stopped", "failed", "gone"}]
      /\ next \in [Instance -> 1 .. 4]
      /\ state \in [Instance -> {"stopped", "idle", "syncing", "paused", "error"}]
      /\ open \in [Instance -> BOOLEAN]
  BY TypeParts DEF IInv, ProcType
<1>3. ProcType'
  BY <1>2, TypeParts DEF IInv, ProcType, Stop, Closed, Cancelled, store
<1>4. CoType' /\ UNCHANGED <<mode, next, since, co>>
  BY TypeParts DEF IInv, CoType, Stop, Closed, Cancelled
<1>5. /\ \A k \in Instance : k # i => life'[k] = life[k] /\ open'[k] = open[k] /\ state'[k] = state[k]
      /\ ~open'[i] /\ (state'[i] = "stopped" \/ state'[i] = state[i])
  BY <1>2 DEF IInv, LifeInv, Stop, Closed, Cancelled
<1>6. \/ life[i] = "run" /\ life'[i] = "close"
      \/ life[i] = "close" /\ life'[i] = "cancel"
      \/ life[i] = "cancel" /\ next[i] = 4 /\ life'[i] = "stopped"
  <2>1. Cancelled(i) => next[i] = 4
    BY <1>2, Sets DEF Cancelled
  <2>2. QED BY <1>2, <2>1 DEF Stop, Closed, Cancelled
<1>7. ASSUME NEW k \in Instance, life'[k] = "cancel", NEW n \in 1 .. next'[k] - 1
      PROVE  ~Alive(k, Tasks[n])'
  <2>1. CASE k = i
    <3>1. next[i] = 1
      BY <1>6, <1>7, <2>1 DEF IInv, LifeInv
    <3>2. QED BY <1>4, <1>7, <2>1, <3>1
  <2>2. CASE k # i
    <3>1. ~Alive(k, Tasks[n])
      BY <1>4, <1>5, <1>7, <2>2 DEF IInv, LifeInv
    <3>2. QED BY <1>4, <3>1 DEF Alive, Tasks
  <2>3. QED BY <2>1, <2>2
<1>8. LifeInv'
  BY <1>4, <1>5, <1>6, <1>7 DEF IInv, LifeInv
<1>9. Remains'
  <2>1. ASSUME life'[i] = "stopped"
        PROVE  ~Alive(i, "loop") /\ ~Alive(i, "watch") /\ ~Alive(i, "verify")
    <3>1. \A n \in 1 .. 3 : ~Alive(i, Tasks[n])
      BY <1>6, <2>1 DEF IInv, LifeInv
    <3>2. 1 \in 1 .. 3 /\ 2 \in 1 .. 3 /\ 3 \in 1 .. 3
      OBVIOUS
    <3>3. QED BY <3>1, <3>2, Sets
  <2>2. QED BY <1>4, <1>5, <1>6, <2>1 DEF IInv, Remains, Alive
<1>10. PauseInv'
  BY <1>4, PauseKept
<1>11. SyncingIsReal'
  <2>1. \A k \in Instance : state'[k] = "syncing" => state[k] = "syncing"
    BY <1>5
  <2>2. QED BY <1>4, <2>1, SyncingSame
<1>12. QED BY <1>1, <1>3, <1>4, <1>8, <1>9, <1>10, <1>11, Together

\* stop() ends a task, or is cut short by one that had died.
LEMMA CancelStep ==
  ASSUME IInv, NEW i \in Instance, Cancel(i)
  PROVE  IInv'
<1> DEFINE t == Tasks[next[i]]
<1>1. (JobType /\ FileType /\ JobInv /\ StoreInv /\ StoreWhole)'
  BY StoreKept DEF Cancel, store
<1>2. /\ life \in [Instance -> {"none", "load", "save", "bind", "run", "close",
                                "cancel", "stopped", "failed", "gone"}]
      /\ next \in [Instance -> 1 .. 4]
      /\ state \in [Instance -> {"stopped", "idle", "syncing", "paused", "error"}]
      /\ co \in [Instance -> [Coroutine -> CoValue]]
  BY TypeParts DEF IInv, ProcType, CoType
<1>3. /\ life[i] = "cancel" /\ next[i] \in 1 .. 3 /\ ~open[i]
      /\ UNCHANGED <<mode, calls, listed, paused, since, open, store>>
  BY <1>2, Sets DEF Cancel, IInv, LifeInv
<1>4. /\ t \in Known /\ t \in Coroutine
      /\ next[i] = 1 => t = "loop"
      /\ next[i] = 2 => t = "watch"
      /\ next[i] = 3 => t = "verify"
  BY <1>3, Sets DEF Known
<1>5. CASE co[i][t] = "dead"
  <2>1. life' = [life EXCEPT ![i] = "stopped"] /\ UNCHANGED <<next, co, state>>
    BY <1>5 DEF Cancel
  <2>2. t = "watch" /\ next[i] = 2
    BY <1>3, <1>4, <1>5 DEF IInv, LifeInv
  <2>3. ~Alive(i, "loop")
    <3>1. 1 \in 1 .. next[i] - 1
      BY <2>2
    <3>2. QED BY <1>3, <3>1, Sets DEF IInv, LifeInv
  <2>4. CoType' /\ ProcType'
    BY <1>3, <2>1, TypeParts DEF IInv, ProcType, CoType, store
  <2>5. ASSUME NEW k \in Instance, life'[k] = "cancel", NEW n \in 1 .. next'[k] - 1
        PROVE  ~Alive(k, Tasks[n])'
    <3>1. k # i /\ life[k] = "cancel" /\ ~Alive(k, Tasks[n])
      BY <1>2, <2>1, <2>5 DEF IInv, LifeInv
    <3>2. QED BY <2>1, <3>1 DEF Alive, Tasks
  <2>6. LifeInv'
    BY <1>2, <1>3, <2>1, <2>5 DEF IInv, LifeInv
  <2>7. Remains'
    BY <1>2, <1>3, <1>5, <2>1, <2>2, <2>3 DEF IInv, Remains, Alive
  <2>8. PauseInv' /\ SyncingIsReal'
    BY <1>3, <2>1, PauseKept, SyncingSame
  <2>9. QED BY <1>1, <2>4, <2>6, <2>7, <2>8, Together
<1> DEFINE Ends == /\ next' = [next EXCEPT ![i] = @ + 1]
                   /\ co' = [co EXCEPT ![i][t] = IF @ = "none" THEN @ ELSE "end"]
                   /\ state' = IF t = "loop" /\ InRound(i, t)
                               THEN [state EXCEPT ![i] = "stopped"] ELSE state
                   /\ UNCHANGED life
           Closes == /\ t = "loop" /\ InRound(i, t) /\ co[i][t] # "close"
                     /\ co' = [co EXCEPT ![i][t] = "close"]
                     /\ UNCHANGED <<life, next, state>>
<1>6. CASE co[i][t] # "dead" /\ Ends
  <2>1. PICK v \in {"none", "end"} :
          /\ co' = [co EXCEPT ![i][t] = v]
          /\ v = "none" => co[i][t] = "none"
    BY <1>2, <1>4, <1>6
  <2>2. /\ next' = [next EXCEPT ![i] = @ + 1] /\ UNCHANGED life
        /\ state' = IF t = "loop" /\ InRound(i, t)
                    THEN [state EXCEPT ![i] = "stopped"] ELSE state
    BY <1>6
  <2> HIDE DEF t
  <2>3. v \in CoValue
    BY DEF CoValue
  <2>4. /\ CoType'
        /\ \A k \in Instance, d \in Coroutine :
             co'[k][d] = IF k = i /\ d = t THEN v ELSE co[k][d]
    BY <1>4, <2>1, <2>3, OneCo DEF IInv
  <2>5. /\ \A k \in Instance : k # i => next'[k] = next[k]
        /\ next'[i] = next[i] + 1 /\ next'[i] \in 2 .. 4
        /\ next' \in [Instance -> 1 .. 4]
    BY <1>2, <1>3, <2>2
  <2>6. ProcType'
    BY <1>3, <2>2, <2>5, TypeParts DEF IInv, ProcType, store
  <2>7. Known \subseteq Coroutine /\ Known = {"loop", "watch", "verify"} /\ Round \subseteq Coroutine
    BY Sets DEF Known
  <2>8. \A k \in Instance, d \in Known : co'[k][d] = co[k][d] \/ co'[k][d] \in {"none", "end"}
    BY <2>1, <2>4, <2>7
  <2>9. ASSUME NEW k \in Instance, life'[k] = "cancel", NEW n \in 1 .. next'[k] - 1
        PROVE  ~Alive(k, Tasks[n])'
    <3>1. life[k] = "cancel" /\ n \in 1 .. 3 /\ Tasks[n] \in Known /\ next[k] \in 1 .. 4
      BY <1>2, <1>3, <2>2, <2>5, <2>7, <2>9, Sets
    <3>2. CASE k = i /\ n = next[i]
      <4>1. co'[k][Tasks[n]] = v
        BY <1>4, <2>4, <3>2 DEF t
      <4>2. QED BY <4>1 DEF Alive, Tasks
    <3>3. CASE ~(k = i /\ n = next[i])
      <4>1. n \in 1 .. next[k] - 1
        BY <2>5, <2>9, <3>1, <3>3
      <4>2. ~Alive(k, Tasks[n])
        BY <3>1, <4>1 DEF IInv, LifeInv
      <4>3. QED BY <2>8, <3>1, <4>2 DEF Alive, Tasks
    <3>4. QED BY <3>2, <3>3
  <2>10. LifeInv'
    <3>1. ASSUME NEW k \in Instance
          PROVE  /\ life'[k] \in {"none", "load", "save", "bind", "run", "close"} => next'[k] = 1
                 /\ life'[k] \in {"none", "load", "save", "bind"} => \A d \in Known : co'[k][d] = "none"
                 /\ open'[k] => life'[k] = "run"
                 /\ co'[k]["loop"] # "dead" /\ co'[k]["verify"] # "dead"
      <4>1. CASE k = i
        BY <1>3, <2>2, <2>7, <2>8, <4>1 DEF IInv, LifeInv
      <4>2. CASE k # i
        BY <1>3, <2>2, <2>4, <2>5, <2>7, <4>2 DEF IInv, LifeInv
      <4>3. QED BY <4>1, <4>2
    <3>2. QED BY <2>9, <3>1 DEF LifeInv
  <2>11. Remains'
    <3>1. \A k \in Instance : k # i => \A d \in Known : co'[k][d] = co[k][d]
      BY <2>4, <2>7
    <3>2. QED BY <1>3, <2>2, <2>7, <3>1 DEF IInv, Remains, Alive
  <2>12. PauseInv'
    BY <1>3, <2>7, <2>8, PauseKept
  <2>13. SyncingIsReal'
    <3>1. ASSUME NEW k \in Instance, state'[k] = "syncing"
          PROVE  state[k] = "syncing" /\ \A c \in Round : InRound(k, c) => InRound(k, c)'
      <4>1. state[k] = "syncing" /\ ~(k = i /\ t = "loop" /\ InRound(i, t))
        BY <1>2, <2>2, <3>1
      <4>2. ASSUME NEW c \in Round, InRound(k, c) PROVE InRound(k, c)'
        <5>1. ~(k = i /\ c = t)
          BY <1>4, <4>1, <4>2, <2>7 DEF Round
        <5>2. co'[k][c] = co[k][c]
          BY <2>4, <2>7, <5>1
        <5>3. QED BY <4>2, <5>2 DEF InRound
      <4>3. QED BY <4>1, <4>2
    <3>2. QED BY <1>3, <3>1, SyncingKept
  <2>14. QED BY <1>1, <2>4, <2>6, <2>10, <2>11, <2>12, <2>13, Together
<1>7. CASE co[i][t] # "dead" /\ Closes
  <2>1. /\ t = "loop" /\ InRound(i, t) /\ co' = [co EXCEPT ![i][t] = "close"]
        /\ UNCHANGED <<life, next, state>>
    BY <1>7
  <2> HIDE DEF t
  <2>2. "close" \in CoValue
    BY DEF CoValue
  <2>3. /\ CoType'
        /\ \A k \in Instance, d \in Coroutine :
             co'[k][d] = IF k = i /\ d = t THEN "close" ELSE co[k][d]
    BY <1>4, <2>1, <2>2, OneCo DEF IInv
  <2>4. ProcType'
    BY <1>3, <2>1, TypeParts DEF IInv, ProcType, store
  <2>5. Known \subseteq Coroutine /\ Known = {"loop", "watch", "verify"} /\ Round \subseteq Coroutine
    BY Sets DEF Known
  <2>6. Alive(i, t)
    BY <2>1 DEF Alive, InRound
  <2>7. LifeInv' /\ Remains'
    <3>1. UNCHANGED <<mode, life, next, open>>
      BY <1>3, <2>1
    <3>2. t \in Coroutine /\ "close" # "dead"
      BY <1>4
    <3>3. QED BY <2>1, <2>2, <2>6, <3>1, <3>2, LifeKept
  <2>8. PauseInv'
    BY <1>3, <2>1, <2>3, <2>5, PauseKept
  <2>9. SyncingIsReal'
    <3>1. ASSUME NEW k \in Instance, NEW c \in Round, InRound(k, c) PROVE InRound(k, c)'
      BY <2>3, <2>5, <3>1 DEF InRound
    <3>2. QED BY <1>3, <2>1, <3>1, SyncingKept
  <2>10. QED BY <1>1, <2>3, <2>4, <2>7, <2>8, <2>9, Together
<1>8. QED
  <2>1. co[i][t] # "dead" => Ends \/ Closes
    BY DEF Cancel
  <2>2. QED BY <1>5, <1>6, <1>7, <2>1

\* The daemon dies: nothing is left but the file.
LEMMA CrashStep ==
  ASSUME IInv, Crash
  PROVE  IInv'
<1> USE DEF Crash
<1>1. job' = [k \in Instance |-> [c \in Saver |-> NoJob]] /\ UNCHANGED file
  OBVIOUS
<1>2. JobType' /\ FileType'
  BY <1>1, TypeParts, Sets DEF IInv, JobType, FileType
<1>3. \A k \in Instance, c \in Saver : job'[k][c].at = "none"
  BY <1>1, Sets
<1>4. JobInv' /\ StoreInv'
  BY <1>3 DEF JobInv, StoreInv
<1>5. StoreWhole'
  BY DEF IInv, StoreWhole, Whole
<1>6. ProcType' /\ CoType'
  <2>1. (spoilt \/ Saving # {}) \in BOOLEAN
    OBVIOUS
  <2>2. QED BY <2>1, TypeParts, Sets DEF IInv, ProcType, CoType, CoValue
<1>7. Known \subseteq Coroutine /\ Known = {"loop", "watch", "verify"} /\ Round \subseteq Coroutine
  BY Sets DEF Known
<1>8. /\ \A k \in Instance, c \in Known : co'[k][c] = "none"
      /\ \A k \in Instance : /\ life'[k] \in {"none", "gone"} /\ next'[k] = 1 /\ ~open'[k]
                             /\ since'[k] = 0 /\ state'[k] = "stopped"
  BY <1>7
<1>9. LifeInv' /\ Remains' /\ PauseInv' /\ SyncingIsReal'
  BY <1>7, <1>8 DEF LifeInv, Remains, PauseInv, SyncingIsReal
<1>10. QED BY <1>2, <1>4, <1>5, <1>6, <1>9, Together

-----------------------------------------------------------------------------
(* The theorems                                                            *)

\* The invariant holds before anything has started.
LEMMA InitInv == Init => IInv
<1> SUFFICES ASSUME Init PROVE IInv
  OBVIOUS
<1> USE DEF Init
<1>1. ProcType /\ CoType /\ JobType
  <2>1. 0 \in 0 .. MaxInstance /\ 0 \in 0 .. MaxCalls /\ 1 \in 1 .. 4 /\ 0 \in Image
    BY Sets
  <2>2. ProcType
    BY <2>1 DEF ProcType
  <2>3. CoType /\ JobType
    BY Sets DEF CoType, CoValue, JobType
  <2>4. QED BY <2>2, <2>3
<1>2. FileType
  <2>1. <<>> \in Seq(0 .. Hole) /\ Len(<<>>) = 0
    BY EmptySeq
  <2>2. QED BY <2>1, Sets DEF FileType
<1>3. \A k \in Instance, c \in Saver : job[k][c].at = "none"
  BY Sets
<1>4. JobInv /\ StoreInv
  BY <1>3 DEF JobInv, StoreInv
<1>5. StoreWhole
  BY DEF StoreWhole
<1>6. Known \subseteq Coroutine /\ Known = {"loop", "watch", "verify"}
  BY Sets DEF Known
<1>7. LifeInv /\ Remains /\ PauseInv /\ SyncingIsReal
  BY <1>6 DEF LifeInv, Remains, PauseInv, SyncingIsReal, Coroutine, Saver
<1>8. QED BY <1>1, <1>2, <1>4, <1>5, <1>7, TypeParts DEF IInv

\* Every step keeps the invariant.
LEMMA StepInv == IInv /\ [Next]_vars => IInv'
<1> SUFFICES ASSUME IInv, [Next]_vars PROVE IInv'
  OBVIOUS
<1>1. ASSUME NEW i \in Instance, Begin(i) \/ Starting(i) \/ BeginSave(i, "init") PROVE IInv'
  <2>1. "init" \in Saver
    BY DEF Saver
  <2>2. QED BY <1>1, <2>1, LoadStep, BindStep, BeginSaveStep DEF Starting
<1>2. ASSUME NEW i \in Instance, NEW c \in Saver, Save(i, c) PROVE IInv'
  BY <1>2, CopyStep, WriteStep, SaveFailsStep DEF Save
<1>3. ASSUME NEW i \in 1 .. MaxInstance - 1, Life(i) PROVE IInv'
  <2>1. i \in Instance
    BY Sets DEF Instance
  <2>2. CASE Requests(i)
    BY <2>1, <2>2, RequestStep, CallStep, StopStep DEF Requests
  <2>3. CASE Stopping(i)
    BY <2>1, <2>3, StopStep, CancelStep DEF Stopping
  <2>4. CASE LoopTurn(i) \/ ExtraRound(i)
    BY <2>1, <2>4, LoopTurnStep, ExtraRoundStep
  <2>5. ASSUME NEW c \in Saver, Session(i, c) PROVE IInv'
    BY <2>1, <2>5, BeginSaveStep, LearnStep, EndRoundStep DEF Session
  <2>6. CASE Batch(i) \/ WatchFails(i)
    BY <2>1, <2>6, WatchStep
  <2>7. CASE Accept(i) \/ EndConn(i)
    BY <2>1, <2>7, CallStep
  <2>8. QED BY <1>3, <2>2, <2>3, <2>4, <2>5, <2>6, <2>7 DEF Life
<1>4. CASE UNCHANGED vars
  <2>1. (JobType /\ FileType /\ JobInv /\ StoreInv /\ StoreWhole)'
    BY <1>4, StoreKept DEF vars, store
  <2>2. ProcType' /\ CoType' /\ LifeInv' /\ Remains' /\ PauseInv' /\ SyncingIsReal'
    BY <1>4, TypeParts
    DEF vars, procs, store, IInv, ProcType, CoType, LifeInv, Remains, Alive, PauseInv,
        SyncingIsReal, InRound
  <2>3. QED BY <2>1, <2>2, Together
<1>5. QED BY <1>1, <1>2, <1>3, <1>4, CrashStep DEF Next

LEMMA Invariant == Spec => []IInv
BY InitInv, StepInv, PTL DEF Spec

\* The variables keep their types: in particular a save writes within its
\* parts, and a provider that loads its file finds an image in it.
THEOREM TypesHold == Spec => []TypeOK
<1>1. IInv => TypeOK
  BY DEF IInv
<1>2. QED BY <1>1, Invariant, PTL

\* What stop() and a failed start() leave behind, for every number of
\* providers and whatever crosses them: no server and no loop, and a verify
\* loop only where the watch loop had died (stop, start).
THEOREM StopRemains == Spec => []Remains
<1>1. IInv => Remains
  BY DEF IInv
<1>2. QED BY <1>1, Invariant, PTL

\* While a provider is paused its loop begins no second round, however often
\* it is paused and resumed (pause, resume, _sync_loop).
THEOREM PausedOnce == Spec => []PauseHolds
<1>1. IInv => PauseHolds
  BY DEF IInv, PauseInv, PauseHolds
<1>2. QED BY <1>1, Invariant, PTL

\* A p2p provider says "syncing" only while a round of it goes on
\* (_run_sync_round, stop).
THEOREM SyncingReal == Spec => []SyncingIsReal
<1>1. IInv => SyncingIsReal
  BY DEF IInv
<1>2. QED BY <1>1, Invariant, PTL

\* The index file is whole unless it is being written, or saves have met,
\* failed or died since the last good one: for every size of the index, every
\* number of savers and every order of their writes (save, load).
THEOREM StoredWhole == Spec => []StoreWhole
<1>1. IInv => StoreWhole
  BY DEF IInv
<1>2. QED BY <1>1, Invariant, PTL
=============================================================================
