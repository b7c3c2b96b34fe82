---------------------------- MODULE ClientProofs ----------------------------
(***************************************************************************)
(* What TLAPS proves about Client, for any clients, user threads, workers  *)
(* and number of messages: the type invariant; the lock of the accepted    *)
(* clients' callbacks, and who can wait for whom; and how far the argument *)
(* in client.cpp:77 goes: what the lambdas of a connection share outlives  *)
(* the jobs in the queue always, and those in the workers' hands unless    *)
(* the cleanup job overtakes one of them.                                  *)
(***************************************************************************)
EXTENDS Client, TLAPS

USE DEF Clients, Threads, poolVars, connVars, callVars, historyVars, Call, ReturnFrom, Home, MayLock

LEMMA JobFields ==
  /\ \A j \in Jobs : /\ j.client \in Clients /\ j.kind \in {"data", "error", "cleanup"}
                     /\ j.kind = "data" => j.n \in 1 .. MaxData
  /\ \A c \in Clients, n \in 1 .. MaxData : Job(c, "data", n) \in Jobs
  /\ \A c \in Clients : Job(c, "error", 0) \in Jobs /\ Job(c, "cleanup", 0) \in Jobs
  /\ \A c, k, n : Job(c, k, n).client = c /\ Job(c, k, n).kind = k /\ Job(c, k, n).n = n
<1>1. \A c, k, n : Job(c, k, n).client = c /\ Job(c, k, n).kind = k /\ Job(c, k, n).n = n
  BY DEF Job
<1>2. ASSUME NEW j \in Jobs
      PROVE  /\ j.client \in Clients /\ j.kind \in {"data", "error", "cleanup"}
             /\ j.kind = "data" => j.n \in 1 .. MaxData
  <2>1. CASE \E c \in Clients, n \in 1 .. MaxData : j = Job(c, "data", n)
    BY <1>1, <2>1
  <2>2. CASE \E c \in Clients, kind \in {"error", "cleanup"} : j = Job(c, kind, 0)
    BY <1>1, <2>2
  <2>. QED
    BY <2>1, <2>2 DEF Jobs
<1>. QED
  BY <1>1, <1>2 DEF Jobs

LEMMA SeqAppend ==
  ASSUME NEW S, NEW s \in Seq(S), NEW e \in S
  PROVE  /\ Append(s, e) \in Seq(S)
         /\ Len(Append(s, e)) = Len(s) + 1
         /\ \A i \in 1 .. Len(s) + 1 : Append(s, e)[i] = IF i <= Len(s) THEN s[i] ELSE e
  OBVIOUS

LEMMA SeqTail ==
  ASSUME NEW S, NEW s \in Seq(S), s # <<>>
  PROVE  /\ Tail(s) \in Seq(S) /\ Head(s) \in S /\ Head(s) = s[1]
         /\ Len(s) \in Nat \ {0} /\ Len(Tail(s)) = Len(s) - 1
         /\ \A i \in 1 .. Len(s) - 1 : Tail(s)[i] = s[i + 1]
  OBVIOUS

LEMMA Excepted ==
  ASSUME NEW S, NEW T, NEW f \in [S -> T], NEW x, NEW v \in T
  PROVE  [f EXCEPT ![x] = v] \in [S -> T]
  OBVIOUS

LEMMA InitType == Init => TypeOK
<1>. SUFFICES ASSUME Init PROVE TypeOK
  OBVIOUS
<1>1. Pool!TypeOK
  BY DEF Init, Pool!Init, Pool!TypeOK
<1>2. arrived \in [Clients -> 0 .. MaxData]
  BY ClientAssumption DEF Init
<1>. QED
  BY <1>1, <1>2, ClientAssumption DEF Init, TypeOK

(* What the dancer does to the pool. *)
LEMMA AcceptType ==
  ASSUME TypeOK, NEW j \in Jobs, Pool!Accept(j)
  PROVE  /\ Pool!TypeOK'
         /\ UNCHANGED <<hand, done>>
         /\ Len(pending') = Len(pending) + 1
         /\ \A i \in 1 .. Len(pending) + 1 : pending'[i] = IF i <= Len(pending) THEN pending[i] ELSE j
  BY SeqAppend DEF TypeOK, Pool!TypeOK, Pool!Accept

LEMMA StartType ==
  ASSUME TypeOK, NEW w \in Workers, Pool!Start(w)
  PROVE  /\ Pool!TypeOK'
         /\ UNCHANGED done
         /\ hand[w] = NoJob /\ hand' = [hand EXCEPT ![w] = pending[1]]
         /\ pending[1] \in Jobs
         /\ Len(pending) \in Nat \ {0} /\ Len(pending') = Len(pending) - 1
         /\ \A i \in 1 .. Len(pending) - 1 : pending'[i] = pending[i + 1]
<1>1. pending \in Seq(Jobs) /\ pending # <<>> /\ pending' = Tail(pending)
  BY DEF TypeOK, Pool!TypeOK, Pool!Start
<1>2. /\ hand' = [hand EXCEPT ![w] = Head(pending)] /\ hand[w] = NoJob
      /\ UNCHANGED done
  BY DEF Pool!Start
<1>. QED
  BY <1>1, <1>2, SeqTail DEF TypeOK, Pool!TypeOK

LEMMA CompleteType ==
  ASSUME TypeOK, NEW w \in Workers, Pool!Complete(w)
  PROVE  /\ Pool!TypeOK'
         /\ UNCHANGED pending
         /\ hand[w] # NoJob /\ hand' = [hand EXCEPT ![w] = NoJob]
  BY DEF TypeOK, Pool!TypeOK, Pool!Complete

-----------------------------------------------------------------------------
(* Jobs, callbacks and calls.                                              *)

\* What a thread may be in of the methods of a client, and what a worker may
\* be in of the callback of its job.
Methods == {"send", "connect", "connecting", "destructor"}
Inside == {"callback"} \cup Methods

(* A worker has a job exactly while it is in one, and is in a callback     *)
(* only of a data or error job; a thread has a target exactly while it is  *)
(* in a method; one that connects a client owns its mutex.                 *)
StageInv ==
  /\ \A w \in Workers : stage[w] = "idle" <=> hand[w] = NoJob
  /\ \A w \in Workers : stage[w] = "delete" => hand[w].kind = "cleanup"
  /\ \A w \in Workers : stage[w] = "lock" => Guarded(hand[w])
  /\ \A w \in Workers : stage[w] \in Inside => hand[w].kind # "cleanup"
  /\ \A u \in Users : stage[u] \in {"idle"} \cup Methods
  /\ \A t \in Threads : stage[t] \in Methods <=> target[t] \in Clients
  /\ \A c \in Clients : object[c] \notin {"nulled", "gone"} => content[c]
  /\ \A t \in Threads :
       stage[t] = "connecting" =>
         target[t] \in Outgoing /\ object[target[t]] = "connecting" /\ owner[target[t]] = t
  /\ \A c \in Accepted : object[c] \notin {"fresh", "connecting"}

LEMMA NextType == TypeOK /\ StageInv /\ [Next]_vars => TypeOK'
<1>. SUFFICES ASSUME TypeOK, StageInv, [Next]_vars PROVE TypeOK'
  OBVIOUS
<1>. USE ClientAssumption
<1>1. ASSUME NEW c \in Clients, Commence(c) PROVE TypeOK'
  BY <1>1 DEF Commence, TypeOK, Pool!TypeOK
<1>2. ASSUME NEW t \in Threads, ConnectFail(t) \/ ConnectPipe(t) \/ ConnectReturn(t) PROVE TypeOK'
  <2>1. CASE ConnectFail(t)
    <3>1. /\ object' \in [Clients -> {"limbo", "fresh", "connecting", "open", "closing", "nulled", "gone"}]
          /\ owner' \in [Clients -> Threads \cup {NoThread}]
      BY <2>1, Excepted DEF ConnectFail, TypeOK
    <3>. QED
      BY <2>1, <3>1 DEF ConnectFail, TypeOK, Pool!TypeOK
  <2>2. CASE ConnectPipe(t)
    BY <2>2 DEF ConnectPipe, TypeOK, Pool!TypeOK
  <2>3. CASE ConnectReturn(t)
    <3>1. /\ object' \in [Clients -> {"limbo", "fresh", "connecting", "open", "closing", "nulled", "gone"}]
          /\ owner' \in [Clients -> Threads \cup {NoThread}]
      BY <2>3, Excepted DEF ConnectReturn, TypeOK
    <3>. QED
      BY <2>3, <3>1 DEF ConnectReturn, TypeOK, Pool!TypeOK
  <2>. QED
    BY <1>2, <2>1, <2>2, <2>3
<1>3. ASSUME NEW t \in Threads, NEW error \in BOOLEAN, ConnectLock(t, error) PROVE TypeOK'
  BY <1>3 DEF ConnectLock, TypeOK, Pool!TypeOK
<1>4. ASSUME NEW t \in Threads, SendEnd(t) \/ ConnectRefused(t) PROVE TypeOK'
  BY <1>4 DEF SendEnd, ConnectRefused, TypeOK, Pool!TypeOK
<1>5. ASSUME NEW t \in Threads, DestroyNull(t) \/ DestroyEnd(t) PROVE TypeOK'
  <2>1. CASE DestroyNull(t)
    <3>1. /\ object' \in [Clients -> {"limbo", "fresh", "connecting", "open", "closing", "nulled", "gone"}]
          /\ content' \in [Clients -> BOOLEAN]
      BY <2>1, Excepted DEF DestroyNull, TypeOK
    <3>. QED
      BY <2>1, <3>1 DEF DestroyNull, TypeOK, Pool!TypeOK
  <2>2. CASE DestroyEnd(t)
    <3>1. /\ object' \in [Clients -> {"limbo", "fresh", "connecting", "open", "closing", "nulled", "gone"}]
          /\ closeAsked' \in [Clients -> BOOLEAN]
      BY <2>2, Excepted DEF DestroyEnd, TypeOK
    <3>. QED
      BY <2>2, <3>1 DEF DestroyEnd, TypeOK, Pool!TypeOK
  <2>. QED
    BY <1>5, <2>1, <2>2
<1>6. ASSUME NEW t \in Threads, NEW c \in Clients, SendBegin(t, c) \/ ConnectBegin(t, c) PROVE TypeOK'
  BY <1>6 DEF SendBegin, ConnectBegin, TypeOK, Pool!TypeOK
<1>7. ASSUME NEW t \in Threads, NEW c \in Clients, DestroyBegin(t, c) PROVE TypeOK'
  BY <1>7 DEF DestroyBegin, TypeOK, Pool!TypeOK
<1>8. ASSUME NEW c \in Clients, DancerAdd(c) \/ DancerForget(c) \/ DancerIgnore(c) PROVE TypeOK'
  BY <1>8 DEF DancerAdd, DancerForget, DancerIgnore, TypeOK, Pool!TypeOK
<1>9. ASSUME NEW c \in Clients, ShutdownCleanup(c) PROVE TypeOK'
  BY <1>9 DEF ShutdownCleanup, TypeOK, Pool!TypeOK
<1>10. ASSUME NEW c \in Clients, DancerData(c) PROVE TypeOK'
  <2>1. arrived[c] \in 0 .. MaxData /\ arrived'[c] = arrived[c] + 1 /\ arrived[c] < MaxData
    BY <1>10 DEF DancerData, TypeOK
  <2>2. arrived'[c] \in 1 .. MaxData /\ arrived' \in [Clients -> 0 .. MaxData]
    BY <1>10, <2>1 DEF DancerData, TypeOK
  <2>3. Pool!TypeOK'
    BY <1>10, <2>2, JobFields, AcceptType DEF DancerData
  <2>. QED
    BY <1>10, <2>2, <2>3 DEF DancerData, TypeOK
<1>11. ASSUME NEW c \in Clients, DancerError(c) \/ DancerCleanup(c) PROVE TypeOK'
  <2>1. Pool!TypeOK'
    BY <1>11, JobFields, AcceptType DEF DancerError, DancerCleanup
  <2>. QED
    BY <1>11, <2>1 DEF DancerError, DancerCleanup, TypeOK
<1>12. ASSUME NEW w \in Workers, Take(w) PROVE TypeOK'
  <2>1. Pool!TypeOK'
    BY <1>12, StartType DEF Take
  <2>. QED
    BY <1>12, <2>1 DEF Take, TypeOK
<1>13. ASSUME NEW w \in Workers, Dereference(w) \/ CallRaw(w) PROVE TypeOK'
  BY <1>13 DEF Dereference, CallRaw, TypeOK, Pool!TypeOK
<1>14. ASSUME NEW w \in Workers, Enter(w) PROVE TypeOK'
  BY <1>14 DEF Enter, TypeOK, Pool!TypeOK
<1>15. ASSUME NEW w \in Workers, CleanupLock(w) PROVE TypeOK'
  <2>1. hand[w] \in Jobs => overtaken' \subseteq Clients
    BY <1>15, JobFields DEF CleanupLock, TypeOK
  <2>2. hand[w] \in Jobs
    BY <1>15 DEF CleanupLock, StageInv, TypeOK, Pool!TypeOK
  <2>. QED
    BY <1>15, <2>1, <2>2 DEF CleanupLock, TypeOK, Pool!TypeOK
<1>16. ASSUME NEW w \in Workers, ErrorLost(w) \/ Skip(w) \/ Return(w) \/ CleanupDelete(w) PROVE TypeOK'
  <2>1. Pool!TypeOK'
    BY <1>16, CompleteType DEF ErrorLost, Skip, Return, CleanupDelete, Finish
  <2>2. /\ owner' \in [Clients -> Threads \cup {NoThread}]
        /\ stage' = [stage EXCEPT ![w] = "idle"]
        /\ holder' \in [Clients -> {"none", "live", "freed"}]
        /\ ownEnd' \subseteq Clients
    BY <1>16 DEF ErrorLost, Skip, Return, CleanupDelete, Finish, TypeOK
  <2>. QED
    BY <1>16, <2>1, <2>2 DEF ErrorLost, Skip, Return, CleanupDelete, TypeOK
<1>17. CASE Shutdown
  BY <1>17 DEF Shutdown, TypeOK, Pool!TypeOK
<1>18. CASE UNCHANGED vars
  BY <1>18 DEF vars, TypeOK, Pool!TypeOK
<1>. QED
  BY <1>1, <1>2, <1>3, <1>4, <1>5, <1>6, <1>7, <1>8, <1>9, <1>10, <1>11, <1>12, <1>13, <1>14, <1>15,
     <1>16, <1>17, <1>18
    DEF Next, CallStep, ProgramStep, DancerStep, WorkerStep

\* Coming back from a method.
LEMMA ReturnStage ==
  ASSUME TypeOK, StageInv, NEW t \in Threads, NEW method \in Methods, ReturnFrom(t, method),
         UNCHANGED hand
  PROVE  /\ \A w \in Workers : stage'[w] = "idle" <=> hand'[w] = NoJob
         /\ \A w \in Workers : stage'[w] = "lock" => stage[w] = "lock"
         /\ \A w \in Workers : stage'[w] = "delete" => hand'[w].kind = "cleanup"
         /\ \A w \in Workers : stage'[w] \in Inside => hand'[w].kind # "cleanup"
         /\ \A u \in Users : stage'[u] \in {"idle"} \cup Methods
         /\ \A x \in Threads : stage'[x] \in Methods <=> target'[x] \in Clients
         /\ \A x \in Threads : stage'[x] = "connecting" => x # t /\ stage[x] = "connecting" /\ target'[x] = target[x]
<1>. USE ClientAssumption DEF Methods, Inside
<1>1. \A x \in Threads : x # t => stage'[x] = stage[x] /\ target'[x] = target[x]
  BY DEF TypeOK
<1>2. stage'[t] = Home(t) /\ target'[t] = NoClient /\ stage[t] = method
  BY DEF TypeOK
<1>3. CASE t \in Workers
  <2>1. stage'[t] = "callback" /\ hand[t].kind # "cleanup" /\ hand[t] # NoJob /\ t \notin Users
    BY <1>2, <1>3 DEF StageInv
  <2>. QED
    BY <1>1, <1>2, <2>1 DEF StageInv
<1>4. CASE t \in Users
  <2>1. stage'[t] = "idle" /\ t \notin Workers
    BY <1>2, <1>4
  <2>. QED
    BY <1>1, <1>2, <2>1 DEF StageInv
<1>. QED
  BY <1>3, <1>4

LEMMA NextStage == TypeOK /\ StageInv /\ [Next]_vars => StageInv'
<1>. SUFFICES ASSUME TypeOK, StageInv, [Next]_vars PROVE StageInv'
  OBVIOUS
<1>. USE ClientAssumption DEF StageInv, Methods, Inside, Guarded
<1>1. ASSUME NEW c \in Clients, Commence(c) PROVE StageInv'
  BY <1>1 DEF Commence, TypeOK
<1>2. ASSUME NEW t \in Threads, ConnectFail(t) \/ ConnectPipe(t) \/ ConnectReturn(t) PROVE StageInv'
  <2>1. CASE ConnectPipe(t)
    BY <2>1 DEF ConnectPipe, TypeOK
  <2>2. CASE ConnectFail(t)
    <3>1. /\ target[t] \in Outgoing /\ stage[t] = "connecting"
          /\ stage' = [stage EXCEPT ![t] = Home(t)] /\ target' = [target EXCEPT ![t] = NoClient]
          /\ object' = [object EXCEPT ![target[t]] = "fresh"] /\ UNCHANGED <<content, hand>>
      BY <2>2 DEF ConnectFail
    <3>2. \A c \in Clients : object'[c] \notin {"nulled", "gone"} => content'[c]
      BY <3>1, <2>2 DEF ConnectFail, TypeOK
    <3>3. \A c \in Accepted : object'[c] \notin {"fresh", "connecting"}
      BY <3>1 DEF TypeOK
    <3>4. \A x \in Threads : x # t /\ stage[x] = "connecting" =>
            target[x] # target[t] /\ object'[target[x]] = "connecting" /\ owner'[target[x]] = x
      BY <3>1, <2>2 DEF ConnectFail, TypeOK
    <3>5. ReturnFrom(t, "connecting") /\ "connecting" \in Methods
      BY <2>2 DEF ConnectFail
    <3>6. /\ \A w \in Workers : stage'[w] = "idle" <=> hand'[w] = NoJob
          /\ \A w \in Workers : stage'[w] = "lock" => stage[w] = "lock"
          /\ \A w \in Workers : stage'[w] = "delete" => hand'[w].kind = "cleanup"
          /\ \A w \in Workers : stage'[w] \in Inside => hand'[w].kind # "cleanup"
          /\ \A u \in Users : stage'[u] \in {"idle"} \cup Methods
          /\ \A x \in Threads : stage'[x] \in Methods <=> target'[x] \in Clients
          /\ \A x \in Threads :
               stage'[x] = "connecting" => x # t /\ stage[x] = "connecting" /\ target'[x] = target[x]
      BY <3>1, <3>5, ReturnStage
    <3>7. \A w \in Workers : stage'[w] = "lock" => Guarded(hand[w])'
      BY <3>1, <3>6
    <3>. HIDE DEF Methods, Inside, Guarded
    <3>. QED
      BY <3>2, <3>3, <3>4, <3>6, <3>7
  <2>3. CASE ConnectReturn(t)
    <3>1. /\ target[t] \in Outgoing /\ stage[t] = "connecting"
          /\ stage' = [stage EXCEPT ![t] = Home(t)] /\ target' = [target EXCEPT ![t] = NoClient]
          /\ object' = [object EXCEPT ![target[t]] = "open"] /\ UNCHANGED <<content, hand>>
      BY <2>3 DEF ConnectReturn
    <3>2. \A c \in Clients : object'[c] \notin {"nulled", "gone"} => content'[c]
      BY <3>1, <2>3 DEF ConnectReturn, TypeOK
    <3>3. \A c \in Accepted : object'[c] \notin {"fresh", "connecting"}
      BY <3>1 DEF TypeOK
    <3>4. \A x \in Threads : x # t /\ stage[x] = "connecting" =>
            target[x] # target[t] /\ object'[target[x]] = "connecting" /\ owner'[target[x]] = x
      BY <3>1, <2>3 DEF ConnectReturn, TypeOK
    <3>5. ReturnFrom(t, "connecting") /\ "connecting" \in Methods
      BY <2>3 DEF ConnectReturn
    <3>6. /\ \A w \in Workers : stage'[w] = "idle" <=> hand'[w] = NoJob
          /\ \A w \in Workers : stage'[w] = "lock" => stage[w] = "lock"
          /\ \A w \in Workers : stage'[w] = "delete" => hand'[w].kind = "cleanup"
          /\ \A w \in Workers : stage'[w] \in Inside => hand'[w].kind # "cleanup"
          /\ \A u \in Users : stage'[u] \in {"idle"} \cup Methods
          /\ \A x \in Threads : stage'[x] \in Methods <=> target'[x] \in Clients
          /\ \A x \in Threads :
               stage'[x] = "connecting" => x # t /\ stage[x] = "connecting" /\ target'[x] = target[x]
      BY <3>1, <3>5, ReturnStage
    <3>7. \A w \in Workers : stage'[w] = "lock" => Guarded(hand[w])'
      BY <3>1, <3>6
    <3>. HIDE DEF Methods, Inside, Guarded
    <3>. QED
      BY <3>2, <3>3, <3>4, <3>6, <3>7
  <2>. QED
    BY <1>2, <2>1, <2>2, <2>3
<1>3. ASSUME NEW t \in Threads, NEW error \in BOOLEAN, ConnectLock(t, error) PROVE StageInv'
  BY <1>3 DEF ConnectLock, TypeOK
<1>4. ASSUME NEW t \in Threads, SendEnd(t) \/ ConnectRefused(t) PROVE StageInv'
  BY <1>4 DEF SendEnd, ConnectRefused, TypeOK
<1>5. ASSUME NEW t \in Threads, DestroyNull(t) \/ DestroyEnd(t) PROVE StageInv'
  <2>1. CASE DestroyNull(t)
    BY <2>1 DEF DestroyNull, TypeOK
  <2>2. CASE DestroyEnd(t)
    BY <2>2 DEF DestroyEnd, TypeOK
  <2>. QED
    BY <1>5, <2>1, <2>2
<1>6. ASSUME NEW t \in Threads, NEW c \in Clients, SendBegin(t, c) \/ ConnectBegin(t, c) PROVE StageInv'
  BY <1>6 DEF SendBegin, ConnectBegin, TypeOK
<1>7. ASSUME NEW t \in Threads, NEW c \in Clients, DestroyBegin(t, c) PROVE StageInv'
  BY <1>7 DEF DestroyBegin, TypeOK
<1>8. ASSUME NEW c \in Clients, DancerAdd(c) \/ DancerForget(c) \/ DancerIgnore(c) \/ ShutdownCleanup(c)
      PROVE  StageInv'
  BY <1>8 DEF DancerAdd, DancerForget, DancerIgnore, ShutdownCleanup
<1>9. ASSUME NEW c \in Clients, DancerData(c) \/ DancerError(c) \/ DancerCleanup(c) PROVE StageInv'
  <2>1. UNCHANGED hand
    BY <1>9 DEF DancerData, DancerError, DancerCleanup, Pool!Accept
  <2>. QED
    BY <1>9, <2>1 DEF DancerData, DancerError, DancerCleanup
<1>10. ASSUME NEW w \in Workers, Take(w) PROVE StageInv'
  <2>1. hand[w] = NoJob /\ hand' = [hand EXCEPT ![w] = pending[1]] /\ pending[1] \in Jobs
    BY <1>10, StartType DEF Take
  <2>. QED
    BY <1>10, <2>1 DEF Take, TypeOK, Pool!TypeOK
<1>11. ASSUME NEW w \in Workers, Dereference(w) \/ CallRaw(w) \/ Enter(w) \/ CleanupLock(w) PROVE StageInv'
  BY <1>11 DEF Dereference, CallRaw, Enter, CleanupLock, Guarded, TypeOK
<1>12. ASSUME NEW w \in Workers, ErrorLost(w) \/ Skip(w) \/ Return(w) \/ CleanupDelete(w) PROVE StageInv'
  <2>1. hand[w] # NoJob /\ hand' = [hand EXCEPT ![w] = NoJob] /\ stage' = [stage EXCEPT ![w] = "idle"]
    BY <1>12, CompleteType DEF ErrorLost, Skip, Return, CleanupDelete, Finish
  <2>2. UNCHANGED <<object, content, target>> /\ stage[w] \notin Methods
    BY <1>12 DEF ErrorLost, Skip, Return, CleanupDelete
  <2>3. \A t \in Threads : stage[t] = "connecting" => owner'[target[t]] = t
    BY <1>12, <2>2 DEF ErrorLost, Skip, Return, CleanupDelete, TypeOK
  <2>. QED
    BY <2>1, <2>2, <2>3 DEF TypeOK, Pool!TypeOK
<1>13. CASE Shutdown
  BY <1>13 DEF Shutdown
<1>14. CASE UNCHANGED vars
  BY <1>14 DEF vars
<1>. QED
  BY <1>1, <1>2, <1>3, <1>4, <1>5, <1>6, <1>7, <1>8, <1>9, <1>10, <1>11, <1>12, <1>13, <1>14
    DEF Next, CallStep, ProgramStep, DancerStep, WorkerStep

LEMMA StageInvariant == Spec => [](TypeOK /\ StageInv)
<1>1. Init => StageInv
  BY ClientAssumption DEF Init, StageInv, Methods, Inside, Pool!Init
<1>. QED
  BY InitType, NextType, <1>1, NextStage, PTL DEF Spec

(* Type correctness, of any number of clients and threads.                 *)
THEOREM TypeCorrect == Spec => []TypeOK
  BY StageInvariant, PTL

-----------------------------------------------------------------------------
(* Mutexes.                                                                *)

(* A mutex is owned by the thread that connects its client, or by the      *)
(* worker that is in a callback of it, which no call changes.              *)
LockInv ==
  /\ \A c \in Clients, t \in Threads :
       owner[c] = t =>
         \/ stage[t] = "connecting" /\ target[t] = c
         \/ t \in Workers /\ stage[t] \in Inside /\ hand[t].client = c /\ c \in Accepted
  /\ \A w \in Workers :
       stage[w] \in Inside /\ hand[w].client \in Accepted => owner[hand[w].client] = w

\* A step that moves no mutex and leaves each worker inside or outside its callback.
LEMMA LockKept ==
  ASSUME TypeOK, LockInv, UNCHANGED <<owner, hand>>,
         \A w \in Workers : stage'[w] \in Inside <=> stage[w] \in Inside,
         \A t \in Threads : stage[t] = "connecting" => stage'[t] = "connecting" /\ target'[t] = target[t]
  PROVE  LockInv'
  BY DEF LockInv

\* A call of a method, or its end.
LEMMA CallMoves ==
  ASSUME TypeOK, StageInv, NEW t \in Threads, NEW from \in Methods \cup {Home(t)}, from # "connecting",
         stage[t] = from, NEW to \in Methods \cup {Home(t)}, stage' = [stage EXCEPT ![t] = to],
         NEW c, target' = [target EXCEPT ![t] = c]
  PROVE  /\ \A w \in Workers : stage'[w] \in Inside <=> stage[w] \in Inside
         /\ \A x \in Threads : stage[x] = "connecting" => stage'[x] = "connecting" /\ target'[x] = target[x]
<1>1. \A x \in Threads : x # t => stage'[x] = stage[x] /\ target'[x] = target[x]
  BY DEF TypeOK
<1>2. t \in Workers => stage[t] \in Inside /\ stage'[t] \in Inside
  BY DEF TypeOK, Inside
<1>3. stage[t] # "connecting"
  OBVIOUS
<1>. QED
  BY <1>1, <1>2, <1>3

LEMMA NextLock == TypeOK /\ StageInv /\ LockInv /\ [Next]_vars => LockInv'
<1>. SUFFICES ASSUME TypeOK, StageInv, LockInv, [Next]_vars PROVE LockInv'
  OBVIOUS
<1>. USE ClientAssumption
<1>1. ASSUME NEW c \in Clients, Commence(c) PROVE LockInv'
  BY <1>1, LockKept DEF Commence
<1>2. ASSUME NEW t \in Threads, ConnectPipe(t) PROVE LockInv'
  BY <1>2, LockKept DEF ConnectPipe
<1>3. ASSUME NEW t \in Threads, ConnectFail(t) \/ ConnectReturn(t) PROVE LockInv'
  <2>1. /\ stage[t] = "connecting" /\ target[t] \in Outgoing /\ UNCHANGED hand
        /\ stage' = [stage EXCEPT ![t] = Home(t)] /\ target' = [target EXCEPT ![t] = NoClient]
        /\ owner' = [owner EXCEPT ![target[t]] = NoThread]
    BY <1>3 DEF ConnectFail, ConnectReturn, StageInv
  <2>2. \A x \in Threads : x # t => stage'[x] = stage[x] /\ target'[x] = target[x]
    BY <2>1 DEF TypeOK
  <2>3. \A w \in Workers : stage'[w] \in Inside <=> stage[w] \in Inside
    BY <2>1, <2>2 DEF TypeOK, Inside, Methods
  <2>4. ASSUME NEW c \in Clients, NEW x \in Threads, owner'[c] = x
        PROVE  \/ stage'[x] = "connecting" /\ target'[x] = c
               \/ x \in Workers /\ stage'[x] \in Inside /\ hand'[x].client = c /\ c \in Accepted
    <3>1. owner[c] = x /\ c # target[t]
      BY <2>1, <2>4 DEF TypeOK
    <3>2. CASE stage[x] = "connecting" /\ target[x] = c
      BY <2>2, <3>1, <3>2
    <3>3. CASE x \in Workers /\ stage[x] \in Inside /\ hand[x].client = c /\ c \in Accepted
      BY <2>1, <2>3, <3>3
    <3>. QED
      BY <3>1, <3>2, <3>3 DEF LockInv
  <2>5. ASSUME NEW w \in Workers, stage'[w] \in Inside, hand'[w].client \in Accepted
        PROVE  owner'[hand'[w].client] = w
    BY <2>1, <2>3, <2>5 DEF LockInv, TypeOK
  <2>. QED
    BY <2>4, <2>5 DEF LockInv
<1>4. ASSUME NEW t \in Threads, NEW error \in BOOLEAN, ConnectLock(t, error) PROVE LockInv'
  <2>1. /\ stage[t] = "connect" /\ owner[target[t]] = NoThread /\ object[target[t]] = "fresh"
        /\ stage' = [stage EXCEPT ![t] = "connecting"]
        /\ owner' = [owner EXCEPT ![target[t]] = t] /\ UNCHANGED <<hand, target>>
    BY <1>4 DEF ConnectLock
  <2>2. target[t] \in Clients \ Accepted
    BY <2>1 DEF StageInv, Methods
  <2>3. \A w \in Workers : stage'[w] \in Inside <=> stage[w] \in Inside
    BY <2>1 DEF TypeOK, Inside, Methods
  <2>4. \A x \in Threads : x # t => stage'[x] = stage[x]
    BY <2>1 DEF TypeOK
  <2>5. ASSUME NEW c \in Clients, NEW x \in Threads, owner'[c] = x
        PROVE  \/ stage'[x] = "connecting" /\ target'[x] = c
               \/ x \in Workers /\ stage'[x] \in Inside /\ hand'[x].client = c /\ c \in Accepted
    <3>1. CASE c = target[t]
      BY <2>1, <2>5, <3>1 DEF TypeOK
    <3>2. CASE c # target[t]
      <4>1. owner[c] = x
        BY <2>1, <2>5, <3>2 DEF TypeOK
      <4>. QED
        BY <2>1, <2>3, <2>4, <4>1 DEF LockInv
    <3>. QED
      BY <3>1, <3>2
  <2>6. ASSUME NEW w \in Workers, stage'[w] \in Inside, hand'[w].client \in Accepted
        PROVE  owner'[hand'[w].client] = w
    BY <2>1, <2>2, <2>3, <2>6 DEF LockInv, TypeOK
  <2>. QED
    BY <2>5, <2>6 DEF LockInv
<1>5. ASSUME NEW t \in Threads, SendEnd(t) \/ ConnectRefused(t) \/ DestroyEnd(t) PROVE LockInv'
  <2>1. PICK from \in {"send", "connect", "destructor"} : ReturnFrom(t, from)
    BY <1>5 DEF SendEnd, ConnectRefused, DestroyEnd
  <2>2. UNCHANGED <<owner, hand>> /\ from \in Methods
    BY <1>5, <2>1 DEF SendEnd, ConnectRefused, DestroyEnd, Methods
  <2>. QED
    BY <2>1, <2>2, CallMoves, LockKept
<1>6. ASSUME NEW t \in Threads, DestroyNull(t) PROVE LockInv'
  BY <1>6, LockKept DEF DestroyNull
<1>7. ASSUME NEW t \in Threads, NEW c \in Clients, ProgramStep(t, c) PROVE LockInv'
  <2>1. PICK to \in {"send", "connect", "destructor"} : Call(t, to, c)
    BY <1>7 DEF ProgramStep, SendBegin, ConnectBegin, DestroyBegin
  <2>2. UNCHANGED <<owner, hand>> /\ to \in Methods /\ Home(t) # "connecting"
    BY <1>7, <2>1 DEF ProgramStep, SendBegin, ConnectBegin, DestroyBegin, Methods
  <2>. QED
    BY <2>1, <2>2, CallMoves, LockKept
<1>8. ASSUME NEW c \in Clients, DancerStep(c) PROVE LockInv'
  <2>1. UNCHANGED <<owner, hand, stage, target>>
    BY <1>8 DEF DancerStep, DancerAdd, DancerForget, DancerIgnore, ShutdownCleanup, DancerData,
                DancerError, DancerCleanup, Pool!Accept
  <2>. QED
    BY <2>1, LockKept
<1>9. ASSUME NEW w \in Workers, Take(w) PROVE LockInv'
  <2>1. /\ hand[w] = NoJob /\ hand' = [hand EXCEPT ![w] = pending[1]]
        /\ stage' = [stage EXCEPT ![w] = "begin"] /\ UNCHANGED <<owner, target>>
    BY <1>9, StartType DEF Take
  <2>2. stage[w] = "idle" /\ stage'[w] \notin Inside
    BY <2>1 DEF StageInv, TypeOK, Inside, Methods
  <2>3. \A t \in Threads : t # w => stage'[t] = stage[t]
    BY <2>1 DEF TypeOK
  <2>4. \A x \in Workers : x # w => hand'[x] = hand[x]
    BY <2>1 DEF TypeOK, Pool!TypeOK
  <2>5. stage[w] \notin Inside /\ stage[w] # "connecting"
    BY <2>2 DEF Inside, Methods
  <2>. QED
    BY <2>1, <2>2, <2>3, <2>4, <2>5 DEF LockInv
<1>10. ASSUME NEW w \in Workers, Dereference(w) \/ CleanupLock(w) PROVE LockInv'
  <2>1. /\ UNCHANGED <<owner, hand, target>> /\ stage[w] \in {"begin", "lock"}
        /\ stage' = [stage EXCEPT ![w] = "lock"] \/ stage' = [stage EXCEPT ![w] = "delete"]
    BY <1>10 DEF Dereference, CleanupLock
  <2>2. \A t \in Threads : IF t = w THEN stage[t] \notin Inside /\ stage'[t] \notin Inside
                                    ELSE stage'[t] = stage[t]
    BY <2>1 DEF TypeOK, Inside, Methods
  <2>3. stage[w] # "connecting"
    BY <2>1
  <2>. QED
    BY <2>1, <2>2, <2>3, LockKept
<1>11. ASSUME NEW w \in Workers, CallRaw(w) PROVE LockInv'
  <2>1. /\ UNCHANGED <<owner, hand, target>> /\ stage[w] = "begin" /\ hand[w].client \notin Accepted
        /\ stage' = [stage EXCEPT ![w] = "callback"]
    BY <1>11 DEF CallRaw, Guarded
  <2>2. \A t \in Threads : t # w => stage'[t] = stage[t]
    BY <2>1 DEF TypeOK
  <2>3. stage[w] \notin Inside /\ stage[w] # "connecting"
    BY <2>1 DEF Inside, Methods
  <2>. QED
    BY <2>1, <2>2, <2>3 DEF LockInv
<1>12. ASSUME NEW w \in Workers, Enter(w) PROVE LockInv'
  <2>1. /\ UNCHANGED <<hand, target>> /\ stage[w] = "lock" /\ hand[w].kind # "cleanup"
        /\ owner[hand[w].client] = NoThread /\ owner' = [owner EXCEPT ![hand[w].client] = w]
        /\ stage' = [stage EXCEPT ![w] = "callback"]
    BY <1>12 DEF Enter
  <2>2. hand[w] \in Jobs /\ hand[w].client \in Clients
    BY <2>1, JobFields DEF StageInv, TypeOK, Pool!TypeOK
  <2>3. hand[w].client \in Accepted
    BY <2>1 DEF StageInv, Guarded
  <2>4. \A t \in Threads : t # w => stage'[t] = stage[t]
    BY <2>1 DEF TypeOK
  <2>5. stage'[w] = "callback" /\ "callback" \in Inside /\ stage[w] \notin Inside /\ stage[w] # "connecting"
    BY <2>1 DEF TypeOK, Inside, Methods
  <2>6. ASSUME NEW c \in Clients, NEW x \in Threads, owner'[c] = x
        PROVE  \/ stage'[x] = "connecting" /\ target'[x] = c
               \/ x \in Workers /\ stage'[x] \in Inside /\ hand'[x].client = c /\ c \in Accepted
    <3>1. CASE c = hand[w].client
      BY <2>1, <2>2, <2>3, <2>5, <2>6, <3>1 DEF TypeOK
    <3>2. CASE c # hand[w].client
      <4>1. owner[c] = x
        BY <2>1, <2>2, <2>6, <3>2 DEF TypeOK
      <4>2. x # w
        BY <2>5, <4>1 DEF LockInv
      <4>. QED
        BY <2>1, <2>4, <4>1, <4>2 DEF LockInv
    <3>. QED
      BY <3>1, <3>2
  <2>7. ASSUME NEW x \in Workers, stage'[x] \in Inside, hand'[x].client \in Accepted
        PROVE  owner'[hand'[x].client] = x
    <3>1. CASE x = w
      BY <2>1, <2>2, <3>1 DEF TypeOK
    <3>2. CASE x # w
      <4>1. owner[hand[x].client] = x /\ hand[x].client \in Clients
        BY <2>1, <2>4, <2>7, <3>2 DEF LockInv
      <4>2. hand[x].client # hand[w].client
        BY <2>1, <4>1
      <4>. QED
        BY <2>1, <4>1, <4>2 DEF TypeOK
    <3>. QED
      BY <3>1, <3>2
  <2>. QED
    BY <2>6, <2>7 DEF LockInv
<1>13. ASSUME NEW w \in Workers, ErrorLost(w) \/ Skip(w) \/ CleanupDelete(w) PROVE LockInv'
  <2>1. /\ UNCHANGED <<owner, target>> /\ hand' = [hand EXCEPT ![w] = NoJob]
        /\ stage[w] \in {"begin", "lock", "delete"} /\ stage' = [stage EXCEPT ![w] = "idle"]
    BY <1>13, CompleteType DEF ErrorLost, Skip, CleanupDelete, Finish
  <2>2. \A t \in Threads : t # w => stage'[t] = stage[t]
    BY <2>1 DEF TypeOK
  <2>3. stage'[w] \notin Inside /\ stage[w] \notin Inside /\ stage[w] # "connecting"
    BY <2>1 DEF TypeOK, Inside, Methods
  <2>4. \A x \in Workers : x # w => hand'[x] = hand[x]
    BY <2>1 DEF TypeOK, Pool!TypeOK
  <2>. QED
    BY <2>1, <2>2, <2>3, <2>4 DEF LockInv
<1>14. ASSUME NEW w \in Workers, Return(w) PROVE LockInv'
  <2>1. /\ UNCHANGED target /\ hand' = [hand EXCEPT ![w] = NoJob]
        /\ stage[w] = "callback" /\ stage' = [stage EXCEPT ![w] = "idle"]
        /\ owner' = IF owner[hand[w].client] = w THEN [owner EXCEPT ![hand[w].client] = NoThread] ELSE owner
    BY <1>14, CompleteType DEF Return, Finish
  <2>2. \A t \in Threads : t # w => stage'[t] = stage[t]
    BY <2>1 DEF TypeOK
  <2>3. stage'[w] \notin Inside /\ stage[w] \in Inside /\ stage[w] # "connecting"
    BY <2>1 DEF TypeOK, Inside, Methods
  <2>4. \A x \in Workers : x # w => hand'[x] = hand[x]
    BY <2>1 DEF TypeOK, Pool!TypeOK
  <2>5. ASSUME NEW c \in Clients, NEW x \in Threads, owner'[c] = x PROVE owner[c] = x /\ x # w
    <3>1. owner[c] = x
      BY <2>1, <2>5 DEF TypeOK
    <3>2. owner[c] = w => hand[w].client = c
      BY <2>3 DEF LockInv
    <3>3. owner'[c] # w
      BY <2>1, <3>2 DEF TypeOK
    <3>. QED
      BY <2>5, <3>1, <3>3
  <2>6. ASSUME NEW c \in Clients, owner[c] # w PROVE owner'[c] = owner[c]
    BY <2>1, <2>6 DEF TypeOK
  <2>7. ASSUME NEW x \in Workers, stage'[x] \in Inside, hand'[x].client \in Accepted
        PROVE  owner'[hand'[x].client] = x
    <3>1. x # w /\ stage[x] \in Inside /\ hand'[x] = hand[x]
      BY <2>2, <2>3, <2>4, <2>7
    <3>2. owner[hand[x].client] = x /\ hand[x].client \in Clients
      BY <2>7, <3>1 DEF LockInv
    <3>. QED
      BY <2>6, <3>1, <3>2
  <2>8. ASSUME NEW c \in Clients, NEW x \in Threads, owner'[c] = x
        PROVE  \/ stage'[x] = "connecting" /\ target'[x] = c
               \/ x \in Workers /\ stage'[x] \in Inside /\ hand'[x].client = c /\ c \in Accepted
    BY <2>1, <2>2, <2>4, <2>5, <2>8 DEF LockInv
  <2>. QED
    BY <2>7, <2>8 DEF LockInv
<1>15. CASE Shutdown
  BY <1>15, LockKept DEF Shutdown
<1>16. CASE UNCHANGED vars
  BY <1>16, LockKept DEF vars
<1>. QED
  BY <1>1, <1>2, <1>3, <1>4, <1>5, <1>6, <1>7, <1>8, <1>9, <1>10, <1>11, <1>12, <1>13, <1>14, <1>15, <1>16
    DEF Next, CallStep, WorkerStep

LEMMA LockInvariant == Spec => []LockInv
<1>1. Init => LockInv
  BY ClientAssumption DEF Init, LockInv, Inside, Methods
<1>. QED
  BY StageInvariant, <1>1, NextLock, PTL DEF Spec

(* Any number of workers: whoever waits for a mutex while another waits    *)
(* for one of its own is a callback of an accepted client that sends on,   *)
(* connects or destroys another one.                                       *)
THEOREM OnlyCallbacksDeadlock == Spec => []OnlyCallbacksBlock
<1>1. TypeOK /\ StageInv /\ LockInv => OnlyCallbacksBlock
  <2>. SUFFICES ASSUME TypeOK, StageInv, LockInv,
                       NEW t \in Threads, NEW u \in Threads, NEW v \in Threads,
                       WaitsFor(t, u), WaitsFor(u, v)
                PROVE  /\ u \in Workers /\ stage[u] \in {"send", "connect", "destructor"}
                       /\ hand[u].client \in Accepted \ {target[u]}
                       /\ owner[hand[u].client] = u /\ owner[target[u]] = v
    BY DEF OnlyCallbacksBlock
  <2>1. PICK c \in Clients : owner[c] = u
    BY DEF WaitsFor, Wants
  <2>2. PICK d \in Wants(u) : owner[d] = v /\ v # u
    BY DEF WaitsFor
  <2>3. stage[u] # "connecting"
    BY <2>2 DEF Wants
  <2>4. u \in Workers /\ stage[u] \in Inside /\ hand[u].client = c /\ c \in Accepted
    BY <2>1, <2>3 DEF LockInv
  <2>5. stage[u] \in {"send", "connect", "destructor"} /\ target[u] = d
    BY <2>2, <2>4 DEF Wants, Inside, Methods
  <2>. QED
    BY <2>1, <2>2, <2>4, <2>5
<1>. QED
  BY StageInvariant, LockInvariant, <1>1, PTL

-----------------------------------------------------------------------------
(* Destructors.                                                            *)

(* A destructor runs on one thread, over a client that is in no other      *)
(* thread's hands but those of the callback the destructor waits for; and  *)
(* the callback of an accepted client has the client, or destroyed it.     *)
CallInv ==
  /\ \A t \in Threads : stage[t] = "destructor" => object[target[t]] \in {"closing", "nulled"}
  /\ \A t, u \in Threads :
       stage[t] = "destructor" /\ stage[u] = "destructor" /\ target[t] = target[u] => t = u
  /\ \A t \in Threads : stage[t] \in {"send", "connect"} =>
       \/ object[target[t]] \in {"limbo", "fresh", "connecting", "open"}
       \/ object[target[t]] = "closing" /\ owner[target[t]] = t
  /\ \A t \in Threads : stage[t] = "destructor" /\ owner[target[t]] = t => target[t] \in ownEnd
  /\ \A w \in Workers : stage[w] \in Inside /\ hand[w].client \in Accepted =>
       content[hand[w].client] \/ hand[w].client \in ownEnd

\* A step in which no thread comes into a method or a callback, and no client
\* or mutex moves.
LEMMA CallKept ==
  ASSUME TypeOK, CallInv, UNCHANGED <<object, content, owner, target, ownEnd>>,
         \A t \in Threads : stage'[t] \in Inside => stage'[t] = stage[t],
         \A w \in Workers : stage'[w] \in Inside => hand'[w] = hand[w]
  PROVE  CallInv'
  BY DEF CallInv, Inside, Methods

LEMMA NextCall == TypeOK /\ StageInv /\ LockInv /\ CallInv /\ [Next]_vars => CallInv'
<1>. SUFFICES ASSUME TypeOK, StageInv, LockInv, CallInv, [Next]_vars PROVE CallInv'
  OBVIOUS
<1>. USE ClientAssumption
<1>0. \A t \in Threads : stage[t] \in Methods => target[t] \in Clients
  BY DEF StageInv
<1>1. ASSUME NEW c \in Clients, Commence(c) PROVE CallInv'
  BY <1>1 DEF Commence, CallInv, TypeOK
<1>2. ASSUME NEW t \in Threads, ConnectPipe(t) PROVE CallInv'
  BY <1>2, CallKept DEF ConnectPipe
<1>3. ASSUME NEW t \in Threads, ConnectFail(t) \/ ConnectReturn(t) PROVE CallInv'
  <2>0. PICK c : c = target[t]
    OBVIOUS
  <2>1. /\ stage[t] = "connecting" /\ c \in Clients /\ object[c] = "connecting" /\ owner[c] = t
        /\ UNCHANGED <<hand, content, ownEnd>> /\ owner' = [owner EXCEPT ![c] = NoThread]
        /\ object' = [object EXCEPT ![c] = "fresh"] \/ object' = [object EXCEPT ![c] = "open"]
        /\ stage' = [stage EXCEPT ![t] = Home(t)] /\ target' = [target EXCEPT ![t] = NoClient]
    BY <1>3, <2>0 DEF ConnectFail, ConnectReturn, StageInv
  <2>2. \A x \in Threads : x # t => stage'[x] = stage[x] /\ target'[x] = target[x]
    BY <2>1 DEF TypeOK
  <2>3. stage'[t] \in {"callback", "idle"} /\ (t \in Workers => stage[t] \in Inside)
    BY <2>1 DEF TypeOK, Inside, Methods
  <2>4. \A d \in Clients : d # c => object'[d] = object[d] /\ owner'[d] = owner[d]
    BY <2>1 DEF TypeOK
  <2>5. object'[c] \in {"fresh", "open"} /\ owner'[c] = NoThread
    BY <2>1 DEF TypeOK
  <2>6. ASSUME NEW x \in Threads, stage'[x] \in Methods
        PROVE  x # t /\ stage[x] \in Methods /\ target[x] \in Clients
    BY <1>0, <2>2, <2>3, <2>6 DEF Methods
  <2>7. \A x \in Threads : stage'[x] = "destructor" => target[x] # c
    BY <2>1, <2>2, <2>3 DEF CallInv
  <2>8. \A x \in Threads : stage'[x] \in {"send", "connect"} =>
       \/ object'[target'[x]] \in {"limbo", "fresh", "connecting", "open"}
       \/ object'[target'[x]] = "closing" /\ owner'[target'[x]] = x
    BY <2>2, <2>4, <2>5, <2>6 DEF CallInv, Methods
  <2>9. \A w \in Workers : stage'[w] \in Inside => stage[w] \in Inside
    BY <2>2, <2>3
  <2>. QED
    BY <2>1, <2>2, <2>3, <2>4, <2>6, <2>7, <2>8, <2>9 DEF CallInv, Methods
<1>4. ASSUME NEW t \in Threads, NEW error \in BOOLEAN, ConnectLock(t, error) PROVE CallInv'
  <2>0. PICK c : c = target[t]
    OBVIOUS
  <2>1. /\ stage[t] = "connect" /\ c \in Clients /\ object[c] = "fresh" /\ owner[c] = NoThread
        /\ UNCHANGED <<hand, content, ownEnd, target>> /\ owner' = [owner EXCEPT ![c] = t]
        /\ object' = [object EXCEPT ![c] = "connecting"]
        /\ stage' = [stage EXCEPT ![t] = "connecting"]
    BY <1>0, <1>4, <2>0 DEF ConnectLock, Methods
  <2>2. \A x \in Threads : x # t => stage'[x] = stage[x]
    BY <2>1 DEF TypeOK
  <2>3. stage'[t] = "connecting" /\ (t \in Workers => stage[t] \in Inside)
    BY <2>1 DEF TypeOK, Inside, Methods
  <2>4. \A d \in Clients : d # c => object'[d] = object[d] /\ owner'[d] = owner[d]
    BY <2>1 DEF TypeOK
  <2>5. object'[c] = "connecting"
    BY <2>1 DEF TypeOK
  <2>6. \A x \in Threads : stage'[x] = "destructor" => target[x] # c /\ target[x] \in Clients
    BY <1>0, <2>1, <2>2, <2>3 DEF CallInv, Methods
  <2>7. \A x \in Threads : stage'[x] \in {"send", "connect"} =>
       \/ object'[target'[x]] \in {"limbo", "fresh", "connecting", "open"}
       \/ object'[target'[x]] = "closing" /\ owner'[target'[x]] = x
    BY <1>0, <2>1, <2>2, <2>3, <2>4, <2>5 DEF CallInv, Methods
  <2>8. \A w \in Workers : stage'[w] \in Inside => stage[w] \in Inside
    BY <2>2, <2>3
  <2>. QED
    BY <2>1, <2>2, <2>3, <2>4, <2>6, <2>7, <2>8 DEF CallInv
<1>5. ASSUME NEW t \in Threads, SendEnd(t) \/ ConnectRefused(t) PROVE CallInv'
  <2>1. /\ stage[t] \in {"send", "connect"} /\ UNCHANGED <<object, content, owner, hand, ownEnd>>
        /\ stage' = [stage EXCEPT ![t] = Home(t)] /\ target' = [target EXCEPT ![t] = NoClient]
    BY <1>5 DEF SendEnd, ConnectRefused
  <2>2. \A x \in Threads : x # t => stage'[x] = stage[x] /\ target'[x] = target[x]
    BY <2>1 DEF TypeOK
  <2>3. stage'[t] \in {"callback", "idle"} /\ (t \in Workers => stage[t] \in Inside)
    BY <2>1 DEF TypeOK, Inside, Methods
  <2>. QED
    BY <2>1, <2>2, <2>3 DEF CallInv
<1>6. ASSUME NEW t \in Threads, DestroyNull(t) PROVE CallInv'
  <2>0. PICK c : c = target[t]
    OBVIOUS
  <2>1. /\ stage[t] = "destructor" /\ c \in Clients /\ object[c] = "closing" /\ owner[c] \in {NoThread, t}
        /\ UNCHANGED <<hand, owner, ownEnd, stage, target>> /\ content' = [content EXCEPT ![c] = FALSE]
        /\ object' = [object EXCEPT ![c] = "nulled"]
    BY <1>0, <1>6, <2>0 DEF DestroyNull, Methods
  <2>2. \A d \in Clients : d # c => object'[d] = object[d] /\ content'[d] = content[d]
    BY <2>1 DEF TypeOK
  <2>3. object'[c] = "nulled"
    BY <2>1 DEF TypeOK
  <2>4. \A x \in Threads : stage[x] \in {"send", "connect"} => target[x] # c
    BY <2>1 DEF CallInv
  <2>5. ASSUME NEW w \in Workers, stage[w] \in Inside, hand[w].client \in Accepted
        PROVE  content'[hand[w].client] \/ hand[w].client \in ownEnd
    <3>1. CASE hand[w].client # c
      BY <2>2, <2>5, <3>1 DEF CallInv
    <3>2. CASE hand[w].client = c
      <4>1. owner[c] = w
        BY <2>5, <3>2 DEF LockInv
      <4>2. w = t
        BY <2>1, <4>1
      <4>. QED
        BY <2>0, <2>1, <3>2, <4>1, <4>2 DEF CallInv
    <3>. QED
      BY <3>1, <3>2
  <2>6. \A x \in Threads : stage[x] = "destructor" => object'[target[x]] \in {"closing", "nulled"}
    BY <1>0, <2>2, <2>3 DEF CallInv, Methods
  <2>7. \A x \in Threads : stage[x] \in {"send", "connect"} =>
       \/ object'[target[x]] \in {"limbo", "fresh", "connecting", "open"}
       \/ object'[target[x]] = "closing" /\ owner[target[x]] = x
    BY <1>0, <2>2, <2>4 DEF CallInv, Methods
  <2>. QED
    BY <2>1, <2>5, <2>6, <2>7 DEF CallInv
<1>7. ASSUME NEW t \in Threads, DestroyEnd(t) PROVE CallInv'
  <2>0. PICK c : c = target[t]
    OBVIOUS
  <2>1. /\ stage[t] = "destructor" /\ c \in Clients /\ object[c] = "nulled"
        /\ UNCHANGED <<hand, content, owner, ownEnd>> /\ object' = [object EXCEPT ![c] = "gone"]
        /\ stage' = [stage EXCEPT ![t] = Home(t)] /\ target' = [target EXCEPT ![t] = NoClient]
    BY <1>0, <1>7, <2>0 DEF DestroyEnd, Methods
  <2>2. \A x \in Threads : x # t => stage'[x] = stage[x] /\ target'[x] = target[x]
    BY <2>1 DEF TypeOK
  <2>3. stage'[t] \in {"callback", "idle"} /\ (t \in Workers => stage[t] \in Inside)
    BY <2>1 DEF TypeOK, Inside, Methods
  <2>4. \A d \in Clients : d # c => object'[d] = object[d]
    BY <2>1 DEF TypeOK
  <2>5. \A x \in Threads : x # t /\ stage[x] \in {"destructor", "send", "connect"} =>
          target[x] # c /\ target[x] \in Clients
    BY <1>0, <2>0, <2>1 DEF CallInv, Methods
  <2>. QED
    BY <2>1, <2>2, <2>3, <2>4, <2>5 DEF CallInv
<1>8. ASSUME NEW t \in Threads, NEW c \in Clients, SendBegin(t, c) \/ ConnectBegin(t, c) PROVE CallInv'
  <2>1. /\ stage[t] = Home(t) /\ c \in Callable(t) /\ UNCHANGED <<object, content, owner, hand, ownEnd>>
        /\ stage' = [stage EXCEPT ![t] = "send"] \/ stage' = [stage EXCEPT ![t] = "connect"]
        /\ target' = [target EXCEPT ![t] = c]
    BY <1>8 DEF SendBegin, ConnectBegin
  <2>2. \A x \in Threads : x # t => stage'[x] = stage[x] /\ target'[x] = target[x]
    BY <2>1 DEF TypeOK
  <2>3. stage'[t] \in {"send", "connect"} /\ target'[t] = c /\ (t \in Workers => stage[t] \in Inside)
    BY <2>1 DEF TypeOK, Inside, Methods
  <2>. QED
    BY <2>1, <2>2, <2>3 DEF CallInv, Callable
<1>9. ASSUME NEW t \in Threads, NEW c \in Clients, DestroyBegin(t, c) PROVE CallInv'
  <2>1. /\ stage[t] = Home(t) /\ \A x \in Threads : target[x] # c
        /\ UNCHANGED <<content, owner, hand>> /\ object' = [object EXCEPT ![c] = "closing"]
        /\ stage' = [stage EXCEPT ![t] = "destructor"] /\ target' = [target EXCEPT ![t] = c]
        /\ ownEnd' = IF owner[c] = t THEN ownEnd \cup {c} ELSE ownEnd
    BY <1>9 DEF DestroyBegin
  <2>2. \A x \in Threads : x # t => stage'[x] = stage[x] /\ target'[x] = target[x]
    BY <2>1 DEF TypeOK
  <2>3. stage'[t] = "destructor" /\ target'[t] = c /\ (t \in Workers => stage[t] \in Inside)
    BY <2>1 DEF TypeOK, Inside, Methods
  <2>4. object'[c] = "closing" /\ \A d \in Clients : d # c => object'[d] = object[d]
    BY <2>1 DEF TypeOK
  <2>5. ownEnd \subseteq ownEnd' /\ (owner[c] = t => c \in ownEnd')
    BY <2>1
  <2>6. \A x \in Threads : x # t /\ stage[x] \in Methods => target[x] \in Clients /\ target[x] # c
    BY <1>0, <2>1
  <2>7. \A x \in Threads : stage'[x] \in {"send", "connect"} => x # t /\ stage[x] \in Methods
    BY <2>2, <2>3 DEF Methods
  <2>8. \A x \in Threads : stage'[x] = "destructor" =>
          x = t \/ (stage[x] = "destructor" /\ stage[x] \in Methods /\ x # t)
    BY <2>2 DEF Methods
  <2>9. \A x \in Threads : stage'[x] = "destructor" => object'[target'[x]] \in {"closing", "nulled"}
    BY <2>2, <2>3, <2>4, <2>6, <2>8 DEF CallInv
  <2>10. \A x \in Threads : stage'[x] \in {"send", "connect"} =>
       \/ object'[target'[x]] \in {"limbo", "fresh", "connecting", "open"}
       \/ object'[target'[x]] = "closing" /\ owner'[target'[x]] = x
    BY <2>1, <2>2, <2>4, <2>6, <2>7 DEF CallInv
  <2>11. \A x, y \in Threads :
       stage'[x] = "destructor" /\ stage'[y] = "destructor" /\ target'[x] = target'[y] => x = y
    BY <2>2, <2>3, <2>6, <2>8 DEF CallInv
  <2>12. \A x \in Threads : stage'[x] = "destructor" /\ owner'[target'[x]] = x => target'[x] \in ownEnd'
    BY <2>1, <2>2, <2>3, <2>5, <2>8 DEF CallInv
  <2>13. \A w \in Workers : stage'[w] \in Inside => stage[w] \in Inside
    BY <2>2, <2>3
  <2>. QED
    BY <2>1, <2>5, <2>9, <2>10, <2>11, <2>12, <2>13 DEF CallInv
<1>10. ASSUME NEW c \in Clients, DancerStep(c) PROVE CallInv'
  <2>1. UNCHANGED <<object, content, owner, hand, stage, target, ownEnd>>
    BY <1>10 DEF DancerStep, DancerAdd, DancerForget, DancerIgnore, ShutdownCleanup, DancerData,
                DancerError, DancerCleanup, Pool!Accept
  <2>. QED
    BY <2>1, CallKept
<1>11. ASSUME NEW w \in Workers, Take(w) PROVE CallInv'
  <2>1. /\ hand' = [hand EXCEPT ![w] = pending[1]] /\ stage' = [stage EXCEPT ![w] = "begin"]
        /\ UNCHANGED <<object, content, owner, target, ownEnd>>
    BY <1>11, StartType DEF Take
  <2>2. /\ \A t \in Threads : stage'[t] \in Inside => t # w /\ stage'[t] = stage[t]
        /\ \A x \in Workers : x # w => hand'[x] = hand[x]
    BY <2>1 DEF TypeOK, Pool!TypeOK, Inside, Methods
  <2>. QED
    BY <2>1, <2>2, CallKept
<1>12. ASSUME NEW w \in Workers, Dereference(w) \/ CleanupLock(w) PROVE CallInv'
  <2>1. /\ UNCHANGED <<object, content, owner, target, ownEnd, hand>>
        /\ stage' = [stage EXCEPT ![w] = "lock"] \/ stage' = [stage EXCEPT ![w] = "delete"]
    BY <1>12 DEF Dereference, CleanupLock
  <2>2. \A t \in Threads : stage'[t] \in Inside => stage'[t] = stage[t]
    BY <2>1 DEF TypeOK, Inside, Methods
  <2>. QED
    BY <2>1, <2>2, CallKept
<1>13. ASSUME NEW w \in Workers, CallRaw(w) PROVE CallInv'
  <2>1. /\ UNCHANGED <<object, content, owner, target, ownEnd, hand>> /\ hand[w].client \notin Accepted
        /\ stage' = [stage EXCEPT ![w] = "callback"]
    BY <1>13 DEF CallRaw, Guarded
  <2>2. stage'[w] = "callback" /\ \A t \in Threads : t # w => stage'[t] = stage[t]
    BY <2>1 DEF TypeOK
  <2>. QED
    BY <2>1, <2>2 DEF CallInv
<1>14. ASSUME NEW w \in Workers, Enter(w) PROVE CallInv'
  <2>0. PICK c : c = hand[w].client
    OBVIOUS
  <2>1. /\ UNCHANGED <<object, content, target, ownEnd, hand>> /\ stage[w] = "lock"
        /\ content[c] /\ owner[c] = NoThread
        /\ stage' = [stage EXCEPT ![w] = "callback"] /\ owner' = [owner EXCEPT ![c] = w]
    BY <1>14, <2>0 DEF Enter
  <2>2. stage'[w] = "callback" /\ \A t \in Threads : t # w => stage'[t] = stage[t]
    BY <2>1 DEF TypeOK
  <2>3. \A t \in Threads, d \in Clients : t # w => (owner'[d] = t <=> owner[d] = t)
    BY <2>1 DEF TypeOK
  <2>4. \A t \in Threads : stage'[t] \in Methods => t # w /\ stage[t] \in Methods /\ target[t] \in Clients
    BY <1>0, <2>2 DEF Methods
  <2>. QED
    BY <2>0, <2>1, <2>2, <2>3, <2>4 DEF CallInv, Methods
<1>15. ASSUME NEW w \in Workers, ErrorLost(w) \/ Skip(w) \/ CleanupDelete(w) PROVE CallInv'
  <2>1. /\ UNCHANGED <<object, content, owner, target, ownEnd>> /\ hand' = [hand EXCEPT ![w] = NoJob]
        /\ stage' = [stage EXCEPT ![w] = "idle"]
    BY <1>15, CompleteType DEF ErrorLost, Skip, CleanupDelete, Finish
  <2>2. /\ \A t \in Threads : stage'[t] \in Inside => t # w /\ stage'[t] = stage[t]
        /\ \A x \in Workers : x # w => hand'[x] = hand[x]
    BY <2>1 DEF TypeOK, Pool!TypeOK, Inside, Methods
  <2>. QED
    BY <2>1, <2>2, CallKept
<1>16. ASSUME NEW w \in Workers, Return(w) PROVE CallInv'
  <2>0. PICK c : c = hand[w].client
    OBVIOUS
  <2>1. /\ UNCHANGED <<object, content, target>> /\ hand' = [hand EXCEPT ![w] = NoJob]
        /\ stage[w] = "callback" /\ stage' = [stage EXCEPT ![w] = "idle"]
        /\ owner' = IF owner[c] = w THEN [owner EXCEPT ![c] = NoThread] ELSE owner
        /\ ownEnd' = ownEnd \ {c}
    BY <1>16, <2>0, CompleteType DEF Return, Finish
  <2>2. stage'[w] = "idle" /\ \A t \in Threads : t # w => stage'[t] = stage[t]
    BY <2>1 DEF TypeOK
  <2>3. \A x \in Workers : x # w => hand'[x] = hand[x]
    BY <2>1 DEF TypeOK, Pool!TypeOK
  <2>4. stage[w] \in Inside
    BY <2>1 DEF Inside
  <2>5. \A t \in Threads, d \in Clients : t # w => (owner'[d] = t <=> owner[d] = t)
    BY <2>1 DEF TypeOK
  <2>6. ASSUME NEW t \in Threads, stage'[t] \in Methods
        PROVE  t # w /\ stage'[t] = stage[t] /\ target[t] \in Clients
    BY <1>0, <2>2, <2>6 DEF Methods
  <2>7. ASSUME NEW t \in Threads, stage'[t] = "destructor", owner[target[t]] = t PROVE target[t] # c
    <3>1. t # w /\ stage[t] = "destructor" /\ target[t] \in Clients
      BY <2>6, <2>7 DEF Methods
    <3>2. target[t] \in Accepted
      BY <2>7, <3>1 DEF LockInv
    <3>3. c \in Accepted => owner[c] = w
      BY <2>0, <2>4 DEF LockInv
    <3>. QED
      BY <2>7, <3>1, <3>2, <3>3
  <2>8. ASSUME NEW x \in Workers, x # w, stage[x] \in Inside, hand[x].client \in Accepted
        PROVE  hand[x].client # c
    BY <2>0, <2>4, <2>8 DEF LockInv
  <2>9. \A t \in Threads : stage'[t] \in {"send", "connect"} =>
       \/ object'[target'[t]] \in {"limbo", "fresh", "connecting", "open"}
       \/ object'[target'[t]] = "closing" /\ owner'[target'[t]] = t
    BY <2>1, <2>5, <2>6 DEF CallInv, Methods
  <2>10. \A t \in Threads : stage'[t] = "destructor" /\ owner'[target'[t]] = t => target'[t] \in ownEnd'
    BY <2>1, <2>5, <2>6, <2>7 DEF CallInv, Methods
  <2>11. ASSUME NEW x \in Workers, stage'[x] \in Inside, hand'[x].client \in Accepted
         PROVE  content'[hand'[x].client] \/ hand'[x].client \in ownEnd'
    <3>1. x # w /\ stage[x] \in Inside /\ hand'[x] = hand[x]
      BY <2>2, <2>3, <2>11 DEF Inside, Methods
    <3>. QED
      BY <2>1, <2>8, <2>11, <3>1 DEF CallInv
  <2>. QED
    BY <2>1, <2>6, <2>9, <2>10, <2>11 DEF CallInv, Methods
<1>17. CASE Shutdown
  BY <1>17, CallKept DEF Shutdown
<1>18. CASE UNCHANGED vars
  BY <1>18, CallKept DEF vars
<1>. QED
  BY <1>1, <1>2, <1>3, <1>4, <1>5, <1>6, <1>7, <1>8, <1>9, <1>10, <1>11, <1>12, <1>13, <1>14, <1>15,
     <1>16, <1>17, <1>18
    DEF Next, CallStep, ProgramStep, WorkerStep

LEMMA CallInvariant == Spec => []CallInv
<1>1. Init => CallInv
  BY ClientAssumption DEF Init, CallInv, Inside, Methods
<1>. QED
  BY StageInvariant, LockInvariant, <1>1, NextCall, PTL DEF Spec

(* Any number of workers: the callback of an accepted client owns the      *)
(* mutex of its GuardedVar, so two of them never run at once, and it runs  *)
(* with the client there unless it destroyed the client itself.            *)
THEOREM CallbacksAreGuarded == Spec => []AcceptedCallbacksGuarded
<1>1. LockInv /\ CallInv => AcceptedCallbacksGuarded
  BY DEF LockInv, CallInv, AcceptedCallbacksGuarded, CallbacksOf, Inside
<1>. QED
  BY LockInvariant, CallInvariant, <1>1, PTL

-----------------------------------------------------------------------------
(* The entries of Networking::clients.                                     *)

(* Of a job that was pushed: the dancer has had the entry of its client,   *)
(* and has erased it if this is the cleanup.                               *)
Pushed(j) ==
  /\ node[j.client] \in {"polled", "erased"}
  /\ j.kind = "cleanup" => node[j.client] = "erased"

(* A connection whose entry is not erased has its copy; and a job is in    *)
(* the pool only after its entry came, a cleanup job after it went.        *)
NodeInv ==
  /\ \A c \in Clients :
       /\ node[c] \in {"piped", "polled"} => holder[c] = "live"
       /\ node[c] # "none" => holder[c] # "none"
       /\ object[c] = "connecting" /\ node[c] = "none" => holder[c] = "live"
       /\ object[c] \in {"limbo", "fresh"} => node[c] = "none"
       /\ holder[c] = "freed" => node[c] = "erased"
  /\ removing \in Clients => node[removing] = "polled" /\ ~down
  /\ \A i \in 1 .. Len(pending) : Pushed(pending[i])
  /\ \A w \in Workers : hand[w] # NoJob => Pushed(hand[w])

\* The jobs of the pool are jobs.
LEMMA PoolJobs ==
  ASSUME TypeOK
  PROVE  /\ Len(pending) \in Nat
         /\ \A i \in 1 .. Len(pending) : pending[i] \in Jobs /\ pending[i].client \in Clients
         /\ \A w \in Workers : hand[w] # NoJob => hand[w] \in Jobs /\ hand[w].client \in Clients
  BY JobFields DEF TypeOK, Pool!TypeOK

\* A step that leaves the jobs alone and moves no entry backwards.
LEMMA PushedKept ==
  ASSUME TypeOK, NodeInv, UNCHANGED <<pending, hand>>,
         \A c \in Clients : /\ node[c] \in {"polled", "erased"} => node'[c] \in {"polled", "erased"}
                            /\ node[c] = "erased" => node'[c] = "erased"
  PROVE  /\ \A i \in 1 .. Len(pending') : Pushed(pending[i])'
         /\ \A w \in Workers : hand'[w] # NoJob => Pushed(hand[w])'
  BY PoolJobs DEF NodeInv, Pushed

\* A step that leaves them and the entries alone, but for one client's object.
LEMMA NodeKept ==
  ASSUME TypeOK, NodeInv, UNCHANGED <<node, holder, removing, down, pending, hand>>,
         \A c \in Clients :
           /\ object'[c] = "connecting" => object[c] = "connecting"
           /\ object'[c] \in {"limbo", "fresh"} => object[c] \in {"limbo", "fresh"} \/ node[c] = "none"
  PROVE  NodeInv'
  BY PushedKept DEF NodeInv

LEMMA PushedAccept ==
  ASSUME TypeOK, NodeInv, NEW j \in Jobs, Pool!Accept(j),
         node[j.client] \in {"polled", "erased"},
         j.kind = "cleanup" => node'[j.client] = "erased",
         \A c \in Clients : node'[c] = node[c] \/ node'[c] = "erased"
  PROVE  /\ \A i \in 1 .. Len(pending') : Pushed(pending[i])'
         /\ \A w \in Workers : hand'[w] # NoJob => Pushed(hand[w])'
<1>1. /\ UNCHANGED hand
      /\ Len(pending') = Len(pending) + 1
      /\ \A i \in 1 .. Len(pending) + 1 : pending'[i] = IF i <= Len(pending) THEN pending[i] ELSE j
  BY AcceptType
<1>2. j.client \in Clients
  BY JobFields
<1>. QED
  BY <1>1, <1>2, PoolJobs DEF NodeInv, Pushed

\* What a worker that has a job in hand does with the queue: nothing.
LEMMA FinishPool ==
  ASSUME TypeOK, NEW w \in Workers, Finish(w)
  PROVE  /\ UNCHANGED pending
         /\ hand' = [hand EXCEPT ![w] = NoJob] /\ hand[w] # NoJob
         /\ stage' = [stage EXCEPT ![w] = "idle"]
  BY CompleteType DEF Finish

LEMMA NextNode == TypeOK /\ StageInv /\ NodeInv /\ [Next]_vars => NodeInv'
<1>. SUFFICES ASSUME TypeOK, StageInv, NodeInv, [Next]_vars PROVE NodeInv'
  OBVIOUS
<1>. USE ClientAssumption
<1>0. \A t \in Threads : stage[t] \in Methods => target[t] \in Clients
  BY DEF StageInv
<1>1. ASSUME NEW c \in Clients, Commence(c) PROVE NodeInv'
  BY <1>1, PushedKept DEF Commence, TypeOK, NodeInv
<1>2. ASSUME NEW t \in Threads, NEW c \in Clients, SendBegin(t, c) \/ ConnectBegin(t, c) PROVE NodeInv'
  BY <1>2, NodeKept DEF SendBegin, ConnectBegin
<1>17. ASSUME NEW t \in Threads, SendEnd(t) \/ ConnectRefused(t) PROVE NodeInv'
  BY <1>17, NodeKept DEF SendEnd, ConnectRefused
<1>3. ASSUME NEW t \in Threads, NEW error \in BOOLEAN, ConnectLock(t, error) PROVE NodeInv'
  <2>0. PICK c : c = target[t]
    OBVIOUS
  <2>1. /\ c \in Clients /\ object[c] = "fresh" /\ object' = [object EXCEPT ![c] = "connecting"]
        /\ holder' = [holder EXCEPT ![c] = "live"] /\ UNCHANGED <<node, removing, down, pending, hand>>
    BY <1>3, <1>0, <2>0 DEF ConnectLock, Methods
  <2>. QED
    BY <2>1, PushedKept DEF NodeInv, TypeOK
<1>4. ASSUME NEW t \in Threads, ConnectPipe(t) PROVE NodeInv'
  <2>0. PICK c : c = target[t]
    OBVIOUS
  <2>1. /\ c \in Clients /\ object[c] = "connecting" /\ node[c] = "none"
        /\ node' = [node EXCEPT ![c] = "piped"] /\ UNCHANGED <<object, holder, removing, down, pending, hand>>
    BY <1>4, <1>0, <2>0 DEF ConnectPipe, StageInv, Methods
  <2>. QED
    BY <2>1, PushedKept DEF NodeInv, TypeOK
<1>5. ASSUME NEW t \in Threads, ConnectFail(t) \/ ConnectReturn(t) PROVE NodeInv'
  <2>0. PICK c : c = target[t]
    OBVIOUS
  <2>1. /\ c \in Clients /\ UNCHANGED <<node, holder, removing, down, pending, hand>>
        /\ \/ node[c] = "none" /\ object' = [object EXCEPT ![c] = "fresh"]
           \/ object' = [object EXCEPT ![c] = "open"]
    BY <1>5, <1>0, <2>0 DEF ConnectFail, ConnectReturn, Methods
  <2>. QED
    BY <2>1, NodeKept DEF TypeOK
<1>6. ASSUME NEW t \in Threads, NEW c \in Clients, DestroyBegin(t, c) PROVE NodeInv'
  BY <1>6, NodeKept DEF DestroyBegin, TypeOK
<1>7. ASSUME NEW t \in Threads, DestroyNull(t) \/ DestroyEnd(t) PROVE NodeInv'
  <2>0. PICK c : c = target[t]
    OBVIOUS
  <2>1. /\ c \in Clients /\ UNCHANGED <<node, holder, removing, down, pending, hand>>
        /\ object' = [object EXCEPT ![c] = "nulled"] \/ object' = [object EXCEPT ![c] = "gone"]
    BY <1>7, <1>0, <2>0 DEF DestroyNull, DestroyEnd, Methods
  <2>. QED
    BY <2>1, NodeKept DEF TypeOK
<1>8. ASSUME NEW c \in Clients, DancerAdd(c) \/ DancerForget(c) \/ DancerIgnore(c) \/ ShutdownCleanup(c)
      PROVE  NodeInv'
  BY <1>8, PushedKept DEF DancerAdd, DancerForget, DancerIgnore, ShutdownCleanup, DancerIdle, TypeOK, NodeInv
<1>9. ASSUME NEW c \in Clients, DancerData(c) PROVE NodeInv'
  <2>1. arrived'[c] \in 1 .. MaxData
    BY <1>9 DEF DancerData, TypeOK
  <2>. QED
    BY <1>9, <2>1, PushedAccept, JobFields DEF DancerData, NodeInv
<1>10. ASSUME NEW c \in Clients, DancerError(c) PROVE NodeInv'
  BY <1>10, PushedAccept, JobFields DEF DancerError, DancerIdle, NodeInv
<1>11. ASSUME NEW c \in Clients, DancerCleanup(c) PROVE NodeInv'
  <2>1. /\ node[c] = "polled" /\ node' = [node EXCEPT ![c] = "erased"] /\ removing' = NoClient
        /\ UNCHANGED <<object, holder, down>> /\ Pool!Accept(Job(c, "cleanup", 0))
    BY <1>11 DEF DancerCleanup, NodeInv
  <2>2. /\ \A i \in 1 .. Len(pending') : Pushed(pending[i])'
        /\ \A w \in Workers : hand'[w] # NoJob => Pushed(hand[w])'
    BY <2>1, PushedAccept, JobFields DEF TypeOK
  <2>. QED
    BY <2>1, <2>2 DEF NodeInv, TypeOK
<1>12. ASSUME NEW w \in Workers, Take(w) PROVE NodeInv'
  <2>1. /\ hand' = [hand EXCEPT ![w] = pending[1]]
        /\ Len(pending) \in Nat \ {0} /\ Len(pending') = Len(pending) - 1
        /\ \A i \in 1 .. Len(pending) - 1 : pending'[i] = pending[i + 1]
    BY <1>12, StartType DEF Take
  <2>2. UNCHANGED <<node, object, holder, removing, down>>
    BY <1>12 DEF Take
  <2>3. \A i \in 1 .. Len(pending') : Pushed(pending[i])'
    <3>1. ASSUME NEW i \in 1 .. Len(pending') PROVE pending'[i] = pending[i + 1] /\ Pushed(pending[i + 1])
      BY <2>1 DEF NodeInv
    <3>. QED
      BY <2>2, <3>1 DEF Pushed
  <2>4. \A x \in Workers : hand'[x] # NoJob => Pushed(hand[x])'
    BY <2>1, <2>2 DEF NodeInv, Pushed, TypeOK, Pool!TypeOK
  <2>. QED
    BY <2>2, <2>3, <2>4 DEF NodeInv
<1>13. ASSUME NEW w \in Workers, Dereference(w) \/ CallRaw(w) \/ Enter(w) \/ CleanupLock(w) PROVE NodeInv'
  BY <1>13, NodeKept DEF Dereference, CallRaw, Enter, CleanupLock
<1>14. ASSUME NEW w \in Workers, ErrorLost(w) \/ Skip(w) \/ Return(w) \/ CleanupDelete(w) PROVE NodeInv'
  <2>1. UNCHANGED pending /\ hand' = [hand EXCEPT ![w] = NoJob] /\ hand[w] # NoJob
    BY <1>14, FinishPool DEF ErrorLost, Skip, Return, CleanupDelete
  <2>2. UNCHANGED <<node, object, removing, down>>
    BY <1>14 DEF ErrorLost, Skip, Return, CleanupDelete
  <2>3. /\ \A i \in 1 .. Len(pending') : Pushed(pending[i])'
        /\ \A x \in Workers : hand'[x] # NoJob => Pushed(hand[x])'
    BY <2>1, <2>2 DEF NodeInv, Pushed, TypeOK, Pool!TypeOK
  <2>4. \A c \in Clients : holder'[c] = holder[c] \/ (holder'[c] = "freed" /\ node[c] = "erased")
    <3>1. CASE CleanupDelete(w)
      <4>1. hand[w].kind = "cleanup" /\ holder' = [holder EXCEPT ![hand[w].client] = "freed"]
        BY <3>1 DEF CleanupDelete, StageInv
      <4>. QED
        BY <2>1, <4>1 DEF TypeOK, NodeInv, Pushed
    <3>. QED
      BY <1>14, <3>1 DEF ErrorLost, Skip, Return
  <2>. QED
    BY <2>2, <2>3, <2>4 DEF NodeInv
<1>15. CASE Shutdown
  BY <1>15, PushedKept DEF Shutdown, DancerIdle, NodeInv
<1>16. CASE UNCHANGED vars
  BY <1>16, NodeKept DEF vars
<1>. QED
  BY <1>1, <1>2, <1>3, <1>4, <1>5, <1>6, <1>7, <1>8, <1>9, <1>10, <1>11, <1>12, <1>13, <1>14, <1>15, <1>16,
     <1>17
    DEF Next, CallStep, ProgramStep, DancerStep, WorkerStep

LEMMA NodeInvariant == Spec => []NodeInv
<1>1. Init => NodeInv
  BY ClientAssumption DEF Init, NodeInv, Pool!Init
<1>. QED
  BY StageInvariant, <1>1, NextNode, PTL DEF Spec

-----------------------------------------------------------------------------
(* The copy of the shared pointer, and the GuardedVar.                     *)

\* The cleanup lambda of c has had the mutex, or is done.
Passed(c) == holder[c] = "freed" \/ \E w \in Workers : stage[w] = "delete" /\ hand[w].client = c

(* The cleanup job of a client is the last of it that is pushed, and there *)
(* is one; until it is run the copy is there, and while the pipe is open   *)
(* nothing else frees the copy.  Once it had the mutex no job of the       *)
(* client goes through the copy, if it waited for them all.                *)
QueueInv ==
  /\ \A i, k \in 1 .. Len(pending) :
       i < k /\ pending[i].kind = "cleanup" => pending[k].client # pending[i].client
  /\ \A w \in Workers : hand[w] # NoJob /\ hand[w].kind = "cleanup" =>
       /\ holder[hand[w].client] = "live"
       /\ \A i \in 1 .. Len(pending) : pending[i].client # hand[w].client
       /\ \A x \in Workers \ {w} :
            hand[x] # NoJob /\ hand[x].kind = "cleanup" => hand[x].client # hand[w].client
  /\ \A i \in 1 .. Len(pending) :
       pending[i].kind = "cleanup" \/ (~down /\ Guarded(pending[i])) => holder[pending[i].client] = "live"
  /\ \A c \in Clients \ overtaken : Passed(c) =>
       /\ \A i \in 1 .. Len(pending) : Guarded(pending[i]) => pending[i].client # c
       /\ \A w \in Workers :
            hand[w] # NoJob /\ Guarded(hand[w]) /\ hand[w].client = c => stage[w] = "delete"

\* A step that leaves the jobs alone and frees no copy.
LEMMA QueueKept ==
  ASSUME TypeOK, QueueInv, UNCHANGED <<pending, hand>>, overtaken \subseteq overtaken',
         ~down' => ~down,
         \A c \in Clients : /\ holder[c] = "live" => holder'[c] = "live"
                            /\ holder'[c] = "freed" => holder[c] = "freed",
         \A w \in Workers : stage'[w] = "delete" <=> stage[w] = "delete"
  PROVE  QueueInv'
<1>1. \A c \in Clients : Passed(c)' => Passed(c)
  BY DEF Passed
<1>. QED
  BY <1>1, PoolJobs DEF QueueInv, Guarded

\* The dancer pushes a job of a client whose entry it has.
LEMMA QueueAccept ==
  ASSUME TypeOK, StageInv, NodeInv, QueueInv, NEW j \in Jobs, Pool!Accept(j), node[j.client] = "polled",
         UNCHANGED <<stage, holder, down, overtaken>>
  PROVE  QueueInv'
<1>1. /\ UNCHANGED hand
      /\ Len(pending') = Len(pending) + 1 /\ Len(pending) \in Nat
      /\ \A i \in 1 .. Len(pending) + 1 : pending'[i] = IF i <= Len(pending) THEN pending[i] ELSE j
  BY AcceptType, PoolJobs
<1>2. j.client \in Clients /\ holder[j.client] = "live"
  BY JobFields DEF TypeOK, NodeInv
<1>3. \A i \in 1 .. Len(pending) : pending[i].kind = "cleanup" => pending[i].client # j.client
  BY DEF NodeInv, Pushed
<1>4. \A w \in Workers : hand[w] # NoJob /\ hand[w].kind = "cleanup" => hand[w].client # j.client
  BY DEF NodeInv, Pushed
<1>5. \A w \in Workers : stage[w] = "delete" => hand[w] # NoJob /\ hand[w].kind = "cleanup"
  BY DEF StageInv
<1>6. ~Passed(j.client)
  BY <1>2, <1>4, <1>5 DEF Passed
<1>7. \A c \in Clients : Passed(c)' <=> Passed(c)
  BY <1>1 DEF Passed
<1>8. \A i, k \in 1 .. Len(pending') :
        i < k /\ pending'[i].kind = "cleanup" => pending'[k].client # pending'[i].client
  BY <1>1, <1>3 DEF QueueInv
<1>9. \A w \in Workers : hand[w] # NoJob /\ hand[w].kind = "cleanup" =>
        \A i \in 1 .. Len(pending') : pending'[i].client # hand[w].client
  BY <1>1, <1>4 DEF QueueInv
<1>10. \A i \in 1 .. Len(pending') :
         pending'[i].kind = "cleanup" \/ (~down /\ Guarded(pending'[i])) => holder[pending'[i].client] = "live"
  BY <1>1, <1>2 DEF QueueInv
<1>11. \A c \in Clients \ overtaken : Passed(c) =>
         \A i \in 1 .. Len(pending') : Guarded(pending'[i]) => pending'[i].client # c
  BY <1>1, <1>6 DEF QueueInv
<1>. QED
  BY <1>1, <1>7, <1>8, <1>9, <1>10, <1>11 DEF QueueInv, Guarded

LEMMA NextQueue ==
  TypeOK /\ StageInv /\ LockInv /\ NodeInv /\ QueueInv /\ [Next]_vars => QueueInv'
<1>. SUFFICES ASSUME TypeOK, StageInv, LockInv, NodeInv, QueueInv, [Next]_vars PROVE QueueInv'
  OBVIOUS
<1>. USE ClientAssumption
<1>0. \A t \in Threads : stage[t] \in Methods => target[t] \in Clients
  BY DEF StageInv
<1>1. ASSUME NEW c \in Clients, Commence(c) PROVE QueueInv'
  BY <1>1, QueueKept DEF Commence, TypeOK, NodeInv
<1>2. ASSUME NEW t \in Threads, NEW c \in Clients, ProgramStep(t, c) PROVE QueueInv'
  <2>1. /\ UNCHANGED <<pending, hand, holder, down, overtaken>>
        /\ stage[t] = Home(t) /\ \E m \in Methods : stage' = [stage EXCEPT ![t] = m]
    BY <1>2 DEF ProgramStep, SendBegin, ConnectBegin, DestroyBegin, Methods
  <2>2. \A w \in Workers : stage'[w] = "delete" <=> stage[w] = "delete"
    BY <2>1 DEF Methods, TypeOK
  <2>. QED
    BY <2>1, <2>2, QueueKept
<1>3. ASSUME NEW t \in Threads, SendEnd(t) \/ ConnectRefused(t) \/ ConnectFail(t) \/ ConnectPipe(t)
                                  \/ ConnectReturn(t) \/ DestroyNull(t) \/ DestroyEnd(t)
      PROVE  QueueInv'
  <2>1. /\ UNCHANGED <<pending, hand, holder, down, overtaken>>
        /\ UNCHANGED stage \/ (stage[t] \in Methods /\ stage' = [stage EXCEPT ![t] = Home(t)])
    BY <1>3 DEF SendEnd, ConnectRefused, ConnectFail, ConnectPipe, ConnectReturn, DestroyNull, DestroyEnd, Methods
  <2>2. \A w \in Workers : stage'[w] = "delete" <=> stage[w] = "delete"
    BY <2>1 DEF Methods, TypeOK
  <2>. QED
    BY <2>1, <2>2, QueueKept
<1>4. ASSUME NEW t \in Threads, NEW error \in BOOLEAN, ConnectLock(t, error) PROVE QueueInv'
  <2>0. PICK c : c = target[t]
    OBVIOUS
  <2>1. /\ c \in Clients /\ holder' = [holder EXCEPT ![c] = "live"]
        /\ UNCHANGED <<pending, hand, down, overtaken>>
        /\ stage[t] = "connect" /\ stage' = [stage EXCEPT ![t] = "connecting"]
    BY <1>4, <1>0, <2>0 DEF ConnectLock, Methods
  <2>2. \A w \in Workers : stage'[w] = "delete" <=> stage[w] = "delete"
    BY <2>1 DEF TypeOK
  <2>3. \A d \in Clients : /\ holder[d] = "live" => holder'[d] = "live"
                           /\ holder'[d] = "freed" => holder[d] = "freed"
    BY <2>1 DEF TypeOK
  <2>. QED
    BY <2>1, <2>2, <2>3, QueueKept
<1>5. ASSUME NEW c \in Clients, DancerAdd(c) \/ DancerForget(c) \/ DancerIgnore(c) PROVE QueueInv'
  BY <1>5, QueueKept DEF DancerAdd, DancerForget, DancerIgnore
<1>6. ASSUME NEW c \in Clients, DancerData(c) PROVE QueueInv'
  <2>1. arrived'[c] \in 1 .. MaxData
    BY <1>6 DEF DancerData, TypeOK
  <2>. QED
    BY <1>6, <2>1, QueueAccept, JobFields DEF DancerData
<1>7. ASSUME NEW c \in Clients, DancerError(c) PROVE QueueInv'
  BY <1>7, QueueAccept, JobFields DEF DancerError
<1>8. ASSUME NEW c \in Clients, DancerCleanup(c) PROVE QueueInv'
  BY <1>8, QueueAccept, JobFields DEF DancerCleanup, NodeInv
<1>9. ASSUME NEW c \in Clients, ShutdownCleanup(c) PROVE QueueInv'
  <2>1. /\ node[c] = "polled" /\ owner[c] = NoThread /\ down /\ down'
        /\ holder' = [holder EXCEPT ![c] = "freed"]
        /\ UNCHANGED <<pending, hand, stage>>
        /\ overtaken \subseteq overtaken' /\ (c \notin overtaken' => Waiting(c) = {})
    BY <1>9 DEF ShutdownCleanup
  <2>2. \A i \in 1 .. Len(pending) : pending[i].kind = "cleanup" => pending[i].client # c
    BY <2>1 DEF NodeInv, Pushed
  <2>3. \A w \in Workers : hand[w] # NoJob /\ hand[w].kind = "cleanup" => hand[w].client # c
    BY <2>1 DEF NodeInv, Pushed
  <2>4. ASSUME c \notin overtaken'
        PROVE  /\ \A i \in 1 .. Len(pending) : Guarded(pending[i]) => pending[i].client # c
               /\ \A w \in Workers : ~(hand[w] # NoJob /\ Guarded(hand[w]) /\ hand[w].client = c)
    <3>1. \A j : j \in Range(pending) \/ (\E w \in Workers : stage[w] \in {"begin", "lock"} /\ j = hand[w])
                  => ~(Guarded(j) /\ j.client = c)
      BY <2>1, <2>4 DEF Waiting
    <3>2. \A i \in 1 .. Len(pending) : pending[i] \in Range(pending)
      BY DEF TypeOK, Pool!TypeOK, Range
    <3>3. ASSUME NEW w \in Workers, hand[w] # NoJob, Guarded(hand[w]), hand[w].client = c PROVE FALSE
      <4>1. hand[w].kind # "cleanup" /\ c \in Accepted
        BY <2>3, <3>3 DEF Guarded
      <4>2. stage[w] \notin {"begin", "lock"}
        BY <3>1, <3>3
      <4>3. stage[w] \in Inside
        BY <3>3, <4>1, <4>2 DEF StageInv, TypeOK, Inside, Methods
      <4>. QED
        BY <2>1, <3>3, <4>1, <4>3 DEF LockInv
    <3>. QED
      BY <3>1, <3>2, <3>3
  <2>5. \A d \in Clients \ {c} : holder'[d] = holder[d] /\ (Passed(d)' => Passed(d))
    BY <2>1 DEF Passed, TypeOK
  <2>6. \A i, k \in 1 .. Len(pending) :
          i < k /\ pending[i].kind = "cleanup" => pending[k].client # pending[i].client
    BY DEF QueueInv
  <2>7. \A w \in Workers : hand[w] # NoJob /\ hand[w].kind = "cleanup" =>
       /\ holder'[hand[w].client] = "live"
       /\ \A i \in 1 .. Len(pending) : pending[i].client # hand[w].client
       /\ \A x \in Workers \ {w} :
            hand[x] # NoJob /\ hand[x].kind = "cleanup" => hand[x].client # hand[w].client
    BY <2>3, <2>5, PoolJobs DEF QueueInv
  <2>8. \A i \in 1 .. Len(pending) : pending[i].kind = "cleanup" => holder'[pending[i].client] = "live"
    BY <2>2, <2>5, PoolJobs DEF QueueInv
  <2>9. \A d \in Clients \ overtaken' : Passed(d)' =>
       /\ \A i \in 1 .. Len(pending) : Guarded(pending[i]) => pending[i].client # d
       /\ \A w \in Workers :
            hand[w] # NoJob /\ Guarded(hand[w]) /\ hand[w].client = d => stage[w] = "delete"
    BY <2>1, <2>4, <2>5 DEF QueueInv
  <2>. QED
    BY <2>1, <2>6, <2>7, <2>8, <2>9 DEF QueueInv, Guarded
<1>10. ASSUME NEW w \in Workers, Take(w) PROVE QueueInv'
  <2>1. /\ hand[w] = NoJob /\ hand' = [hand EXCEPT ![w] = pending[1]]
        /\ pending[1] \in Jobs
        /\ Len(pending) \in Nat \ {0} /\ Len(pending') = Len(pending) - 1
        /\ \A i \in 1 .. Len(pending) - 1 : pending'[i] = pending[i + 1]
    BY <1>10, StartType DEF Take
  <2>2. UNCHANGED <<holder, down, overtaken>> /\ stage' = [stage EXCEPT ![w] = "begin"] /\ hand \in [Workers -> Jobs \cup {NoJob}]
    BY <1>10 DEF Take, TypeOK, Pool!TypeOK
  <2>3. /\ hand'[w] = pending[1] /\ \A x \in Workers \ {w} : hand'[x] = hand[x]
        /\ stage'[w] = "begin" /\ \A x \in Workers \ {w} : stage'[x] = stage[x]
        /\ stage[w] = "idle"
    BY <2>1, <2>2 DEF TypeOK, StageInv
  <2>4. \A c \in Clients : Passed(c)' => Passed(c)
    BY <2>2, <2>3 DEF Passed
  <2>5. ASSUME NEW i \in 1 .. Len(pending')
        PROVE  i + 1 \in 1 .. Len(pending) /\ pending'[i] = pending[i + 1]
    BY <2>1
  <2>6. 1 \in 1 .. Len(pending) /\ \A i \in 1 .. Len(pending') : 1 < i + 1
    BY <2>1
  <2>7. \A i, k \in 1 .. Len(pending') :
          i < k /\ pending'[i].kind = "cleanup" => pending'[k].client # pending'[i].client
    BY <2>1, <2>5 DEF QueueInv
  <2>8. ASSUME NEW x \in Workers, hand'[x] # NoJob, hand'[x].kind = "cleanup"
        PROVE  /\ holder[hand'[x].client] = "live"
               /\ \A i \in 1 .. Len(pending') : pending'[i].client # hand'[x].client
               /\ \A y \in Workers \ {x} :
                    hand'[y] # NoJob /\ hand'[y].kind = "cleanup" => hand'[y].client # hand'[x].client
    <3>1. CASE x = w
      <4>1. holder[pending[1].client] = "live"
        BY <2>3, <2>6, <2>8, <3>1 DEF QueueInv
      <4>2. \A i \in 1 .. Len(pending') : pending'[i].client # pending[1].client
        BY <2>3, <2>5, <2>6, <2>8, <3>1 DEF QueueInv
      <4>3. \A y \in Workers \ {w} : hand[y] # NoJob /\ hand[y].kind = "cleanup" => hand[y].client # pending[1].client
        BY <2>6 DEF QueueInv
      <4>. QED
        BY <2>3, <3>1, <4>1, <4>2, <4>3
    <3>2. CASE x # w
      <4>1. /\ holder[hand[x].client] = "live"
            /\ \A i \in 1 .. Len(pending) : pending[i].client # hand[x].client
            /\ \A y \in Workers \ {x} : hand[y] # NoJob /\ hand[y].kind = "cleanup" => hand[y].client # hand[x].client
        BY <2>3, <2>8, <3>2 DEF QueueInv
      <4>. QED
        BY <2>3, <2>5, <2>6, <3>2, <4>1
    <3>. QED
      BY <3>1, <3>2
  <2>9. \A i \in 1 .. Len(pending') :
          pending'[i].kind = "cleanup" \/ (~down /\ Guarded(pending'[i])) => holder[pending'[i].client] = "live"
    BY <2>5 DEF QueueInv
  <2>10. ASSUME NEW c \in Clients \ overtaken, Passed(c)'
         PROVE  /\ \A i \in 1 .. Len(pending') : Guarded(pending'[i]) => pending'[i].client # c
                /\ \A x \in Workers :
                     hand'[x] # NoJob /\ Guarded(hand'[x]) /\ hand'[x].client = c => stage'[x] = "delete"
    <3>1. /\ \A i \in 1 .. Len(pending) : Guarded(pending[i]) => pending[i].client # c
          /\ \A x \in Workers : hand[x] # NoJob /\ Guarded(hand[x]) /\ hand[x].client = c => stage[x] = "delete"
      BY <2>4, <2>10 DEF QueueInv
    <3>. QED
      BY <2>3, <2>5, <2>6, <3>1
  <2>. QED
    BY <2>2, <2>7, <2>8, <2>9, <2>10 DEF QueueInv, Guarded
<1>11. ASSUME NEW w \in Workers, Dereference(w) \/ CallRaw(w) \/ Enter(w) PROVE QueueInv'
  <2>1. \A x \in Workers : stage'[x] = "delete" <=> stage[x] = "delete"
    BY <1>11 DEF Dereference, CallRaw, Enter, TypeOK
  <2>. QED
    BY <1>11, <2>1, QueueKept DEF Dereference, CallRaw, Enter
<1>12. ASSUME NEW w \in Workers, CleanupLock(w) PROVE QueueInv'
  <2>0. PICK c : c = hand[w].client
    OBVIOUS
  <2>1. /\ stage[w] = "lock" /\ hand[w].kind = "cleanup" /\ owner[c] = NoThread
        /\ UNCHANGED <<pending, hand, holder, down>> /\ stage' = [stage EXCEPT ![w] = "delete"]
        /\ overtaken \subseteq overtaken' /\ (c \notin overtaken' => Waiting(c) = {hand[w]})
    BY <1>12, <2>0 DEF CleanupLock
  <2>2. hand[w] # NoJob /\ hand[w] \in Jobs /\ c \in Clients
    BY <2>0, <2>1, PoolJobs DEF StageInv
  <2>3. stage'[w] = "delete" /\ \A x \in Workers \ {w} : stage'[x] = stage[x]
    BY <2>1 DEF TypeOK
  <2>4. \A d \in Clients \ {c} : Passed(d)' => Passed(d)
    BY <2>0, <2>1, <2>3 DEF Passed
  <2>5. ASSUME c \notin overtaken'
        PROVE  /\ \A i \in 1 .. Len(pending) : Guarded(pending[i]) => pending[i].client # c
               /\ \A x \in Workers :
                    hand[x] # NoJob /\ Guarded(hand[x]) /\ hand[x].client = c => stage'[x] = "delete"
    <3>1. \A j : (\E x \in Workers : stage[x] \in {"begin", "lock"} /\ j = hand[x]) /\ Guarded(j) /\ j.client = c
                  => j = hand[w]
      BY <2>1, <2>5 DEF Waiting
    <3>2. \A i \in 1 .. Len(pending) : pending[i].client # c
      BY <2>0, <2>1, <2>2 DEF QueueInv
    <3>3. ASSUME NEW x \in Workers \ {w}, hand[x] # NoJob, Guarded(hand[x]), hand[x].client = c
          PROVE  stage[x] = "delete"
      <4>1. hand[x].kind # "cleanup" /\ c \in Accepted
        BY <2>0, <2>1, <2>2, <3>3 DEF QueueInv, Guarded
      <4>2. stage[x] \notin {"begin", "lock"}
        BY <2>1, <3>1, <3>3, <4>1
      <4>3. stage[x] \in Inside
        BY <3>3, <4>1, <4>2 DEF StageInv, TypeOK, Inside, Methods
      <4>. QED
        BY <2>1, <3>3, <4>1, <4>3 DEF LockInv
    <3>. QED
      BY <2>3, <3>2, <3>3
  <2>6. ASSUME NEW d \in Clients \ overtaken', Passed(d)'
        PROVE  /\ \A i \in 1 .. Len(pending) : Guarded(pending[i]) => pending[i].client # d
               /\ \A x \in Workers :
                    hand[x] # NoJob /\ Guarded(hand[x]) /\ hand[x].client = d => stage'[x] = "delete"
    <3>1. CASE d = c
      BY <2>5, <2>6, <3>1
    <3>2. CASE d # c
      BY <2>1, <2>3, <2>4, <2>6, <3>2 DEF QueueInv
    <3>. QED
      BY <3>1, <3>2
  <2>. QED
    BY <2>1, <2>6 DEF QueueInv, Guarded
<1>13. ASSUME NEW w \in Workers, Finish(w), UNCHANGED <<down, overtaken>>,
              stage[w] # "delete", UNCHANGED holder
       PROVE  QueueInv'
  <2>1. /\ UNCHANGED pending /\ hand' = [hand EXCEPT ![w] = NoJob] /\ stage' = [stage EXCEPT ![w] = "idle"]
        /\ hand \in [Workers -> Jobs \cup {NoJob}]
    BY <1>13, FinishPool DEF TypeOK, Pool!TypeOK
  <2>2. /\ hand'[w] = NoJob /\ \A x \in Workers \ {w} : hand'[x] = hand[x] /\ stage'[x] = stage[x]
        /\ stage'[w] = "idle"
    BY <2>1 DEF TypeOK
  <2>3. \A c \in Clients : Passed(c)' => Passed(c)
    BY <1>13, <2>2 DEF Passed
  <2>. QED
    BY <1>13, <2>1, <2>2, <2>3 DEF QueueInv, Guarded
<1>14. ASSUME NEW w \in Workers, ErrorLost(w) \/ Skip(w) \/ Return(w) PROVE QueueInv'
  BY <1>13, <1>14 DEF ErrorLost, Skip, Return
<1>15. ASSUME NEW w \in Workers, CleanupDelete(w) PROVE QueueInv'
  <2>0. PICK c : c = hand[w].client
    OBVIOUS
  <2>1. /\ UNCHANGED <<pending, down, overtaken>> /\ hand' = [hand EXCEPT ![w] = NoJob] /\ hand[w] # NoJob
        /\ stage' = [stage EXCEPT ![w] = "idle"] /\ stage[w] = "delete" /\ hand[w].kind = "cleanup"
        /\ holder' = [holder EXCEPT ![c] = "freed"] /\ hand \in [Workers -> Jobs \cup {NoJob}]
    BY <1>15, <2>0, FinishPool DEF CleanupDelete, StageInv, TypeOK, Pool!TypeOK
  <2>2. /\ hand'[w] = NoJob /\ \A x \in Workers \ {w} : hand'[x] = hand[x] /\ stage'[x] = stage[x]
        /\ stage'[w] = "idle" /\ c \in Clients
    BY <2>0, <2>1, PoolJobs DEF TypeOK
  <2>3. Passed(c) /\ \A d \in Clients : Passed(d)' => Passed(d)
    BY <2>0, <2>1, <2>2 DEF Passed, TypeOK
  <2>4. \A d \in Clients \ {c} : holder'[d] = holder[d]
    BY <2>1 DEF TypeOK
  <2>5. /\ \A i \in 1 .. Len(pending) : pending[i].client # c
        /\ \A x \in Workers \ {w} : hand[x] # NoJob /\ hand[x].kind = "cleanup" => hand[x].client # c
    BY <2>0, <2>1 DEF QueueInv
  <2>6. ASSUME NEW x \in Workers, hand'[x] # NoJob, hand'[x].kind = "cleanup"
        PROVE  /\ holder'[hand'[x].client] = "live"
               /\ \A i \in 1 .. Len(pending) : pending[i].client # hand'[x].client
               /\ \A y \in Workers \ {x} :
                    hand'[y] # NoJob /\ hand'[y].kind = "cleanup" => hand'[y].client # hand'[x].client
    BY <2>2, <2>4, <2>5, <2>6, PoolJobs DEF QueueInv
  <2>7. \A i \in 1 .. Len(pending) :
          pending[i].kind = "cleanup" \/ (~down /\ Guarded(pending[i])) => holder'[pending[i].client] = "live"
    BY <2>4, <2>5, PoolJobs DEF QueueInv
  <2>8. \A d \in Clients \ overtaken : Passed(d)' =>
       /\ \A i \in 1 .. Len(pending) : Guarded(pending[i]) => pending[i].client # d
       /\ \A x \in Workers :
            hand'[x] # NoJob /\ Guarded(hand'[x]) /\ hand'[x].client = d => stage'[x] = "delete"
    BY <2>2, <2>3 DEF QueueInv
  <2>9. \A i, k \in 1 .. Len(pending) :
          i < k /\ pending[i].kind = "cleanup" => pending[k].client # pending[i].client
    BY DEF QueueInv
  <2>. QED
    BY <2>1, <2>6, <2>7, <2>8, <2>9 DEF QueueInv, Guarded
<1>16. CASE Shutdown
  BY <1>16, QueueKept DEF Shutdown
<1>17. CASE UNCHANGED vars
  BY <1>17, QueueKept DEF vars
<1>. QED
  BY <1>1, <1>2, <1>3, <1>4, <1>5, <1>6, <1>7, <1>8, <1>9, <1>10, <1>11, <1>12, <1>14, <1>15, <1>16, <1>17
    DEF Next, CallStep, DancerStep, WorkerStep

LEMMA QueueInvariant == Spec => []QueueInv
<1>1. Init => QueueInv
  BY ClientAssumption DEF Init, QueueInv, Passed, Pool!Init
<1>. QED
  BY StageInvariant, LockInvariant, NodeInvariant, <1>1, NextQueue, PTL DEF Spec

(* Any number of workers: every job in the queue that goes through the     *)
(* copy of the shared pointer finds it as long as the pipe is open, and    *)
(* the cleanup job, which deletes it, always does: it is freed once.       *)
THEOREM SharedCopyOutlivesQueueAlways == Spec => []SharedCopyOutlivesQueue
<1>1. TypeOK /\ QueueInv => SharedCopyOutlivesQueue
  <2>. SUFFICES ASSUME TypeOK, QueueInv PROVE SharedCopyOutlivesQueue
    OBVIOUS
  <2>1. \A j \in Range(pending) : \E i \in 1 .. Len(pending) : j = pending[i]
    BY DEF TypeOK, Pool!TypeOK, Range
  <2>2. \A j \in Range(hand) \ {NoJob} : \E w \in Workers : hand[w] # NoJob /\ j = hand[w]
    BY DEF TypeOK, Pool!TypeOK, Range
  <2>. QED
    BY <2>1, <2>2 DEF QueueInv, SharedCopyOutlivesQueue
<1>. QED
  BY StageInvariant, QueueInvariant, <1>1, PTL

(* Any number of workers: whoever is about to use the copy finds it, and   *)
(* whoever wants or owns the mutex of a GuardedVar finds that there, unless *)
(* the cleanup did not wait for a job of the same connection.              *)
THEOREM GuardedVarOutlivesTokensAlways == Spec => []GuardedVarOutlivesTokens
<1>1. TypeOK /\ StageInv /\ CallInv /\ NodeInv /\ QueueInv => GuardedVarOutlivesTokens
  <2>. SUFFICES ASSUME TypeOK, StageInv, CallInv, NodeInv, QueueInv, NEW c \in Clients \ overtaken
                PROVE  /\ \A w \in Workers :
                            stage[w] = "begin" /\ hand[w].client = c /\ Guarded(hand[w]) => holder[c] = "live"
                       /\ TokenHolders(c) # {} => object[c] # "gone" \/ holder[c] = "live"
    BY DEF GuardedVarOutlivesTokens
  <2>1. ASSUME NEW w \in Workers, stage[w] # "idle", hand[w].client = c, Guarded(hand[w])
        PROVE  holder[c] = "live"
    <3>1. hand[w] # NoJob /\ Pushed(hand[w])
      BY <2>1 DEF StageInv, NodeInv
    <3>2. holder[c] # "none"
      BY <2>1, <3>1 DEF NodeInv, Pushed
    <3>3. CASE stage[w] = "delete"
      BY <2>1, <3>1, <3>3 DEF StageInv, QueueInv
    <3>4. CASE stage[w] # "delete"
      BY <2>1, <3>1, <3>2, <3>4 DEF QueueInv, Passed, TypeOK
    <3>. QED
      BY <3>3, <3>4
  <2>2. ASSUME NEW t \in Threads, target[t] = c PROVE object[c] # "gone"
    <3>1. stage[t] \in Methods
      BY <2>2 DEF StageInv
    <3>. QED
      BY <2>2, <3>1 DEF StageInv, CallInv, Methods
  <2>. QED
    BY <2>1, <2>2 DEF TokenHolders
<1>. QED
  BY StageInvariant, CallInvariant, NodeInvariant, QueueInvariant, <1>1, PTL

-----------------------------------------------------------------------------
(* The removal of a destroyed client.                                      *)

\* The cleanup job of c is in the pool.
CleanupQueued(c) ==
  \/ \E i \in 1 .. Len(pending) : pending[i] = Job(c, "cleanup", 0)
  \/ \E w \in Workers : hand[w] = Job(c, "cleanup", 0)

(* An accepted client has an entry as long as it has a copy; the removal   *)
(* of one that is gone has been asked for until the entry is erased, and   *)
(* then its cleanup job is in the pool until it has freed the copy.        *)
AccountInv ==
  \A c \in Accepted :
    /\ node[c] # "none" => errorGiven[c]
    /\ node[c] = "none" => holder[c] = "none"
    /\ ~down /\ object[c] = "gone" /\ node[c] \in {"piped", "polled"} => closeAsked[c] \/ removing = c
    /\ ~down /\ node[c] = "erased" /\ holder[c] = "live" => CleanupQueued(c)

\* A step that moves no accepted client's connection.
LEMMA AccountKept ==
  ASSUME TypeOK, AccountInv, UNCHANGED <<removing, pending, hand>>, ~down' => ~down,
         \A c \in Accepted : /\ node'[c] = node[c] /\ errorGiven'[c] = errorGiven[c]
                             /\ holder'[c] = holder[c] /\ closeAsked'[c] = closeAsked[c]
                             /\ object'[c] = "gone" => object[c] = "gone"
  PROVE  AccountInv'
<1>1. \A c \in Accepted : CleanupQueued(c)' <=> CleanupQueued(c)
  BY DEF CleanupQueued
<1>. QED
  BY <1>1 DEF AccountInv

LEMMA NextAccount == TypeOK /\ StageInv /\ NodeInv /\ AccountInv /\ [Next]_vars => AccountInv'
<1>. SUFFICES ASSUME TypeOK, StageInv, NodeInv, AccountInv, [Next]_vars PROVE AccountInv'
  OBVIOUS
<1>. USE ClientAssumption
<1>0. \A t \in Threads : stage[t] \in Methods => target[t] \in Clients
  BY DEF StageInv
<1>1. ASSUME NEW c \in Clients, Commence(c) PROVE AccountInv'
  <2>1. \A d \in Accepted : CleanupQueued(d)' <=> CleanupQueued(d)
    BY <1>1 DEF Commence, CleanupQueued
  <2>. QED
    BY <1>1, <2>1 DEF Commence, AccountInv, TypeOK
<1>2. ASSUME NEW t \in Threads, NEW c \in Clients, ProgramStep(t, c) PROVE AccountInv'
  BY <1>2, AccountKept DEF ProgramStep, SendBegin, ConnectBegin, DestroyBegin, TypeOK
<1>3. ASSUME NEW t \in Threads, SendEnd(t) \/ ConnectRefused(t) PROVE AccountInv'
  BY <1>3, AccountKept DEF SendEnd, ConnectRefused
<1>4. ASSUME NEW t \in Threads, NEW error \in BOOLEAN, ConnectLock(t, error) PROVE AccountInv'
  <2>0. PICK c : c = target[t]
    OBVIOUS
  <2>1. /\ c \in Clients /\ c \notin Accepted
        /\ object' = [object EXCEPT ![c] = "connecting"] /\ holder' = [holder EXCEPT ![c] = "live"]
        /\ errorGiven' = [errorGiven EXCEPT ![c] = error]
        /\ UNCHANGED <<node, closeAsked, removing, down, pending, hand>>
    BY <1>4, <1>0, <2>0 DEF ConnectLock, Methods, StageInv
  <2>. QED
    BY <2>1, AccountKept DEF TypeOK
<1>5. ASSUME NEW t \in Threads, ConnectPipe(t) \/ ConnectFail(t) \/ ConnectReturn(t) PROVE AccountInv'
  <2>0. PICK c : c = target[t]
    OBVIOUS
  <2>1. stage[t] = "connecting" /\ c \in Outgoing
    BY <1>5, <2>0 DEF ConnectPipe, ConnectFail, ConnectReturn, StageInv
  <2>2. /\ UNCHANGED object \/ object' = [object EXCEPT ![c] = "fresh"] \/ object' = [object EXCEPT ![c] = "open"]
        /\ UNCHANGED node \/ node' = [node EXCEPT ![c] = "piped"]
        /\ UNCHANGED <<holder, errorGiven, closeAsked, removing, down, pending, hand>>
    BY <1>5, <2>0 DEF ConnectPipe, ConnectFail, ConnectReturn
  <2>. QED
    BY <2>1, <2>2, AccountKept DEF TypeOK
<1>6. ASSUME NEW t \in Threads, DestroyNull(t) PROVE AccountInv'
  BY <1>6, AccountKept DEF DestroyNull, TypeOK
<1>7. ASSUME NEW t \in Threads, DestroyEnd(t) PROVE AccountInv'
  <2>0. PICK c : c = target[t]
    OBVIOUS
  <2>1. /\ object' = [object EXCEPT ![c] = "gone"]
        /\ closeAsked' = [closeAsked EXCEPT ![c] = node[c] # "none" /\ ~down]
        /\ UNCHANGED <<holder, node, errorGiven, removing, down, pending, hand>>
    BY <1>7, <2>0 DEF DestroyEnd
  <2>2. \A d \in Accepted : CleanupQueued(d)' <=> CleanupQueued(d)
    BY <2>1 DEF CleanupQueued
  <2>3. \A d \in Accepted : d # c => object'[d] = object[d] /\ closeAsked'[d] = closeAsked[d]
    BY <2>1 DEF TypeOK
  <2>4. c \in Accepted => closeAsked'[c] = (node[c] # "none" /\ ~down)
    BY <2>1 DEF TypeOK
  <2>. QED
    BY <2>1, <2>2, <2>3, <2>4 DEF AccountInv
<1>8. ASSUME NEW c \in Clients, DancerAdd(c) PROVE AccountInv'
  <2>1. \A d \in Accepted : CleanupQueued(d)' <=> CleanupQueued(d)
    BY <1>8 DEF DancerAdd, CleanupQueued
  <2>. QED
    BY <1>8, <2>1 DEF DancerAdd, AccountInv, TypeOK
<1>9. ASSUME NEW j \in Jobs, Pool!Accept(j), NEW c \in Accepted, CleanupQueued(c) \/ j = Job(c, "cleanup", 0)
      PROVE  CleanupQueued(c)'
  <2>1. /\ UNCHANGED hand
        /\ Len(pending') = Len(pending) + 1 /\ Len(pending) \in Nat
        /\ \A i \in 1 .. Len(pending) + 1 : pending'[i] = IF i <= Len(pending) THEN pending[i] ELSE j
    BY <1>9, AcceptType, PoolJobs
  <2>. QED
    BY <1>9, <2>1 DEF CleanupQueued
<1>10. ASSUME NEW c \in Clients, DancerData(c) PROVE AccountInv'
  <2>1. arrived'[c] \in 1 .. MaxData
    BY <1>10 DEF DancerData, TypeOK
  <2>2. \A d \in Accepted : CleanupQueued(d) => CleanupQueued(d)'
    BY <1>9, <1>10, <2>1, JobFields DEF DancerData
  <2>. QED
    BY <1>10, <2>2 DEF DancerData, AccountInv
<1>11. ASSUME NEW c \in Clients, DancerError(c) PROVE AccountInv'
  <2>1. \A d \in Accepted : CleanupQueued(d) => CleanupQueued(d)'
    BY <1>9, <1>11, JobFields DEF DancerError
  <2>. QED
    BY <1>11, <2>1 DEF DancerError, DancerIdle, AccountInv
<1>12. ASSUME NEW c \in Clients, DancerCleanup(c) PROVE AccountInv'
  <2>1. \A d \in Accepted : CleanupQueued(d) \/ d = c => CleanupQueued(d)'
    BY <1>9, <1>12, JobFields DEF DancerCleanup
  <2>2. /\ removing = c /\ node' = [node EXCEPT ![c] = "erased"]
        /\ closeAsked' = [closeAsked EXCEPT ![c] = FALSE] /\ node[c] = "polled"
        /\ UNCHANGED <<object, holder, errorGiven, down>>
    BY <1>12 DEF DancerCleanup, NodeInv
  <2>3. \A d \in Accepted : d # c => node'[d] = node[d] /\ closeAsked'[d] = closeAsked[d] /\ removing # d
    BY <2>2 DEF TypeOK
  <2>4. node'[c] = "erased"
    BY <2>2 DEF TypeOK
  <2>. QED
    BY <2>1, <2>2, <2>3, <2>4 DEF AccountInv
<1>13. ASSUME NEW c \in Clients, DancerForget(c) \/ DancerIgnore(c) PROVE AccountInv'
  <2>1. \A d \in Accepted : CleanupQueued(d)' <=> CleanupQueued(d)
    BY <1>13 DEF DancerForget, DancerIgnore, CleanupQueued
  <2>2. CASE DancerForget(c)
    <3>1. c \notin Accepted
      BY <2>2 DEF DancerForget, AccountInv
    <3>. QED
      BY <2>2, <3>1, AccountKept DEF DancerForget, TypeOK
  <2>3. CASE DancerIgnore(c)
    BY <2>1, <2>3 DEF DancerIgnore, AccountInv, TypeOK
  <2>. QED
    BY <1>13, <2>2, <2>3
<1>14. ASSUME NEW c \in Clients, ShutdownCleanup(c) PROVE AccountInv'
  BY <1>14 DEF ShutdownCleanup, AccountInv, TypeOK
<1>15. ASSUME NEW w \in Workers, Take(w) PROVE AccountInv'
  <2>1. /\ hand[w] = NoJob /\ hand' = [hand EXCEPT ![w] = pending[1]]
        /\ Len(pending) \in Nat \ {0} /\ Len(pending') = Len(pending) - 1
        /\ \A i \in 1 .. Len(pending) - 1 : pending'[i] = pending[i + 1]
        /\ hand \in [Workers -> Jobs \cup {NoJob}]
    BY <1>15, StartType DEF Take, TypeOK, Pool!TypeOK
  <2>2. ASSUME NEW c \in Accepted, CleanupQueued(c) PROVE CleanupQueued(c)'
    <3>1. CASE \E i \in 1 .. Len(pending) : pending[i] = Job(c, "cleanup", 0)
      <4>1. PICK i \in 1 .. Len(pending) : pending[i] = Job(c, "cleanup", 0)
        BY <3>1
      <4>2. CASE i = 1
        BY <2>1, <4>1, <4>2 DEF CleanupQueued
      <4>3. CASE i # 1
        <5>1. i - 1 \in 1 .. Len(pending') /\ pending'[i - 1] = pending[i]
          BY <2>1, <4>1, <4>3
        <5>. QED
          BY <4>1, <5>1 DEF CleanupQueued
      <4>. QED
        BY <4>2, <4>3
    <3>2. CASE \E x \in Workers : hand[x] = Job(c, "cleanup", 0)
      <4>1. PICK x \in Workers : hand[x] = Job(c, "cleanup", 0)
        BY <3>2
      <4>2. hand[x] # NoJob
        BY <4>1, JobFields
      <4>. QED
        BY <2>1, <4>1, <4>2 DEF CleanupQueued
    <3>. QED
      BY <2>2, <3>1, <3>2 DEF CleanupQueued
  <2>. QED
    BY <1>15, <2>2 DEF Take, AccountInv
<1>16. ASSUME NEW w \in Workers, Dereference(w) \/ CallRaw(w) \/ Enter(w) \/ CleanupLock(w) PROVE AccountInv'
  BY <1>16, AccountKept DEF Dereference, CallRaw, Enter, CleanupLock
<1>17. ASSUME NEW w \in Workers, Finish(w), NEW c \in Accepted,
              hand[w] # Job(c, "cleanup", 0), CleanupQueued(c)
       PROVE  CleanupQueued(c)'
  <2>1. UNCHANGED pending /\ hand' = [hand EXCEPT ![w] = NoJob] /\ hand \in [Workers -> Jobs \cup {NoJob}]
    BY <1>17, FinishPool DEF TypeOK, Pool!TypeOK
  <2>. QED
    BY <1>17, <2>1 DEF CleanupQueued
<1>18. ASSUME NEW w \in Workers, ErrorLost(w) \/ Skip(w) \/ Return(w) PROVE AccountInv'
  <2>1. /\ hand[w].kind # "cleanup" /\ Finish(w)
        /\ UNCHANGED <<object, holder, node, errorGiven, closeAsked, removing, down>>
    BY <1>18 DEF ErrorLost, Skip, Return, StageInv, Inside
  <2>2. \A c \in Accepted : hand[w] # Job(c, "cleanup", 0)
    BY <2>1, JobFields
  <2>3. \A c \in Accepted : CleanupQueued(c) => CleanupQueued(c)'
    BY <1>17, <2>1, <2>2
  <2>. QED
    BY <2>1, <2>3 DEF AccountInv
<1>19. ASSUME NEW w \in Workers, CleanupDelete(w) PROVE AccountInv'
  <2>0. PICK c : c = hand[w].client
    OBVIOUS
  <2>1. /\ holder' = [holder EXCEPT ![c] = "freed"] /\ Finish(w)
        /\ UNCHANGED <<object, node, errorGiven, closeAsked, removing, down>>
        /\ hand[w] # NoJob /\ Pushed(hand[w])
    BY <1>19, <2>0, FinishPool DEF CleanupDelete, NodeInv
  <2>2. \A d \in Accepted : d # c => hand[w] # Job(d, "cleanup", 0)
    BY <2>0, JobFields
  <2>3. \A d \in Accepted : d # c /\ CleanupQueued(d) => CleanupQueued(d)'
    BY <1>17, <2>1, <2>2
  <2>4. \A d \in Accepted : IF d = c THEN holder'[d] = "freed" /\ node[d] # "none" ELSE holder'[d] = holder[d]
    BY <2>0, <2>1 DEF TypeOK, Pushed
  <2>. QED
    BY <2>1, <2>3, <2>4 DEF AccountInv
<1>20. CASE Shutdown
  <2>1. down'
    BY <1>20 DEF Shutdown
  <2>. QED
    BY <1>20, <2>1 DEF Shutdown, AccountInv
<1>21. CASE UNCHANGED vars
  BY <1>21, AccountKept DEF vars
<1>. QED
  BY <1>1, <1>2, <1>3, <1>4, <1>5, <1>6, <1>7, <1>8, <1>10, <1>11, <1>12, <1>13, <1>14, <1>15, <1>16, <1>18,
     <1>19, <1>20, <1>21
    DEF Next, CallStep, DancerStep, WorkerStep

(* The copy of a destroyed client that was accepted is never forgotten     *)
(* while the pipe is open: its removal is in the pipe, at the dancer or in *)
(* the pool, with any number of clients and workers.                       *)
THEOREM AcceptedCopyAccountedAlways == Spec => []AcceptedCopyAccounted
<1>1. Init => AccountInv
  BY ClientAssumption DEF Init, AccountInv
<1>2. TypeOK /\ StageInv /\ NodeInv /\ AccountInv => AcceptedCopyAccounted
  <2>. SUFFICES ASSUME TypeOK, NodeInv, AccountInv, ~down, NEW c \in Accepted,
                       object[c] = "gone", holder[c] = "live", ~closeAsked[c], removing # c
                PROVE  Job(c, "cleanup", 0) \in Range(pending) \cup Range(hand)
    BY DEF AcceptedCopyAccounted
  <2>1. CleanupQueued(c)
    BY DEF AccountInv, TypeOK
  <2>. QED
    BY <2>1 DEF CleanupQueued, Range, TypeOK, Pool!TypeOK
<1>. QED
  BY StageInvariant, NodeInvariant, <1>1, <1>2, NextAccount, PTL DEF Spec

=============================================================================
