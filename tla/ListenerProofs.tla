---------------------------- MODULE ListenerProofs ----------------------------
(***************************************************************************)
(* What TLAPS proves about Listener, for any number of threads, workers,   *)
(* sockets and clients: that the program's callbacks are guarded, and that *)
(* no socket is forgotten but in the three overlaps that orderly names.    *)
(***************************************************************************)
EXTENDS Listener, TLAPS

TypeInv ==
  /\ identifier \in 0 .. MaxListens
  /\ object \in {"alive", "closing", "nulled", "gone"}
  /\ owner \in Threads \cup {NoThread}
  /\ call \in [Threads -> [at : {"none", "open", "store", "stop"}, got : 0 .. MaxListens]]
  /\ node \in [Sockets -> {"none", "open", "erased"}]
  /\ stage \in [Workers -> {"idle", "begin", "callback"}]
  /\ orderly \in BOOLEAN
  /\ pending \in Seq(Jobs)
  /\ hand \in [Workers -> Jobs \cup {NoJob}]
  /\ \A w \in Workers : stage[w] = "idle" <=> hand[w] = NoJob

\* Who is in Stop owns the mutex, and nobody is in a call of a listener that is being
\* destroyed.
CallInv ==
  /\ \A t \in Threads : call[t].at = "stop" => owner = t
  /\ object # "alive" => \A t \in Threads : call[t] = NoCall

GuardInv == TypeInv /\ CallInv /\ CallbacksGuarded

\* The error job of a socket, as long as it has not begun to call back.
Ahead(s) ==
  \/ \E i \in 1 .. Len(pending) : pending[i] = Job(s, "error", 0)
  \/ \E w \in Workers : stage[w] = "begin" /\ hand[w] = Job(s, "error", 0)

\* In an orderly program one Listen is under way at a time, and no socket is left of
\* earlier ones; and while a Stop is under way that has signalled, what listens is what a
\* Listen is about to store.
Storing(s) == \E t \in Threads : call[t] = In("store", s)

OneCall ==
  /\ \A t, u \in Threads : call[t].at \in {"open", "store"} /\ call[u].at \in {"open", "store"} => t = u
  /\ \A t \in Threads : call[t].at = "open" => \A s \in Sockets : Over(s)
  /\ \A t \in Threads : call[t].at = "store" => \A s \in Sockets : s = call[t].got \/ Over(s)
  /\ \A t \in Threads : call[t].at = "stop" => \A s \in Listening : Storing(s)

\* And beside a socket that listens all others are over.
OneSocket == \A s \in Listening : \A r \in Sockets : r = s \/ Over(r)

OrderInv ==
  /\ GuardInv
  /\ \A s \in Sockets : Ahead(s) => node[s] = "erased"
  /\ orderly => OneCall /\ OneSocket /\ NoneForgotten

-----------------------------------------------------------------------------
(* Types, and which worker has a job.                                      *)

USE DEF Threads, objectVars, socketVars, poolVars, NoCall, In

LEMMA InitGuard == Init => GuardInv
<1> SUFFICES ASSUME Init PROVE GuardInv
  OBVIOUS
<1>1. TypeInv
  BY ListenerAssumption DEF Init, TypeInv, Pool!Init
<1>2. CallInv /\ CallbacksGuarded
  BY DEF Init, CallInv, CallbacksGuarded
<1> QED
  BY <1>1, <1>2 DEF GuardInv

\* A job that is pushed is a job, and what a worker takes is one.
LEMMA NextTypeInv ==
  ASSUME TypeInv, [Next]_vars
  PROVE  TypeInv'
<1> USE ListenerAssumption DEF TypeInv
<1>1. CASE UNCHANGED vars
  BY <1>1 DEF vars
<1>2. ASSUME NEW t \in Threads, ListenCheck(t) \/ StopSignal(t) \/ DestroyBegin(t) \/ CallStep(t)
      PROVE  TypeInv'
  <2>1. CASE ListenCheck(t)
    BY <2>1 DEF ListenCheck
  <2>2. CASE StopSignal(t)
    BY <2>2 DEF StopSignal
  <2>3. CASE DestroyBegin(t)
    BY <2>3 DEF DestroyBegin
  <2>4. CASE ListenStore(t)
    BY <2>4 DEF ListenStore
  <2>5. CASE StopReset(t)
    BY <2>5 DEF StopReset
  <2>6. ASSUME NEW s \in Sockets \cup {0}, ListenOpen(t, s) PROVE TypeInv'
    BY <2>6 DEF ListenOpen, Sockets
  <2> QED
    BY <1>2, <2>1, <2>2, <2>3, <2>4, <2>5, <2>6 DEF CallStep
<1>3. CASE DestroyStep
  BY <1>3 DEF DestroyStep, DestroyNull, DestroyStop
<1>4. ASSUME NEW s \in Sockets, DancerRemove(s) \/ \E n \in Clients : DancerAccept(s, n)
      PROVE  TypeInv'
  <2>1. CASE DancerRemove(s)
    <3>1. <<Job(s, "error", 0), Job(s, "cleanup", 0)>> \in Seq(Jobs)
      BY DEF Jobs
    <3> QED
      BY <2>1, <3>1 DEF DancerRemove
  <2>2. ASSUME NEW n \in Clients, DancerAccept(s, n) PROVE TypeInv'
    <3>1. Job(s, "client", n) \in Jobs
      BY DEF Jobs
    <3> QED
      BY <2>2, <3>1 DEF DancerAccept, Pool!Accept
  <2> QED
    BY <1>4, <2>1, <2>2
<1>5. ASSUME NEW w \in Workers, WorkerStep(w) PROVE TypeInv'
  <2>1. CASE Take(w)
    <3>1. Head(pending) \in Jobs /\ Tail(pending) \in Seq(Jobs)
      BY <2>1 DEF Take, Pool!Start
    <3> QED
      BY <2>1, <3>1 DEF Take, Pool!Start
  <2>2. CASE Enter(w)
    BY <2>2 DEF Enter, Ready
  <2>3. CASE Return(w)
    BY <2>3 DEF Return, Pool!Complete
  <2>4. CASE Quiet(w)
    BY <2>4 DEF Quiet, Ready, Pool!Complete
  <2> QED
    BY <1>5, <2>1, <2>2, <2>3, <2>4 DEF WorkerStep
<1> QED
  BY <1>1, <1>2, <1>3, <1>4, <1>5 DEF Next

-----------------------------------------------------------------------------
(* The mutex.                                                              *)

LEMMA NextGuard ==
  ASSUME GuardInv, [Next]_vars
  PROVE  GuardInv'
<1>1. TypeInv'
  BY NextTypeInv DEF GuardInv
<1>2. CallInv' /\ CallbacksGuarded'
  <2> USE ListenerAssumption DEF GuardInv, TypeInv, CallInv, CallbacksGuarded
  <2>1. CASE UNCHANGED vars
    BY <2>1 DEF vars
  <2>2. ASSUME NEW t \in Threads, ListenCheck(t) \/ StopSignal(t) \/ DestroyBegin(t) \/ CallStep(t)
        PROVE  CallInv' /\ CallbacksGuarded'
    <3>1. CASE ListenCheck(t)
      BY <3>1 DEF ListenCheck, MayCall
    <3>2. CASE StopSignal(t)
      BY <3>2 DEF StopSignal, MayCall
    <3>3. CASE DestroyBegin(t)
      BY <3>3 DEF DestroyBegin, MayCall, Alone
    <3>4. CASE ListenStore(t)
      BY <3>4 DEF ListenStore
    <3>5. CASE StopReset(t)
      BY <3>5 DEF StopReset
    <3>6. ASSUME NEW s \in Sockets \cup {0}, ListenOpen(t, s) PROVE CallInv' /\ CallbacksGuarded'
      BY <3>6 DEF ListenOpen
    <3> QED
      BY <2>2, <3>1, <3>2, <3>3, <3>4, <3>5, <3>6 DEF CallStep
  <2>3. CASE DestroyStep
    BY <2>3 DEF DestroyStep, DestroyNull, DestroyStop
  <2>4. ASSUME NEW s \in Sockets, DancerRemove(s) \/ \E n \in Clients : DancerAccept(s, n)
        PROVE  CallInv' /\ CallbacksGuarded'
    BY <2>4 DEF DancerRemove, DancerAccept
  <2>5. ASSUME NEW w \in Workers, WorkerStep(w) PROVE CallInv' /\ CallbacksGuarded'
    <3>1. CASE Take(w)
      BY <2>5, <3>1 DEF Take, Pool!Start
    <3>2. CASE Enter(w)
      BY <3>2 DEF Enter, Ready
    <3>3. CASE Return(w)
      BY <3>3 DEF Return
    <3>4. CASE Quiet(w)
      BY <3>4 DEF Quiet, Ready
    <3> QED
      BY <2>5, <3>1, <3>2, <3>3, <3>4 DEF WorkerStep
  <2> QED
    BY <2>1, <2>2, <2>3, <2>4, <2>5 DEF Next
<1> QED
  BY <1>1, <1>2 DEF GuardInv

\* "The content of the guarded pointer is set to nullptr, signifying to callbacks that
\* they need to fail" (listener.hpp:24): of whatever program, the callbacks run one at a
\* time, under the mutex, and none once ~Listener is past its lock but the one that
\* destroys the listener.
THEOREM ListenerCallbacksGuarded == Spec => []CallbacksGuarded
<1>1. GuardInv => CallbacksGuarded
  BY DEF GuardInv
<1> QED
  BY <1>1, InitGuard, NextGuard, PTL DEF Spec

-----------------------------------------------------------------------------
(* The sockets of an orderly program.                                      *)

LEMMA OverMeans ==
  ASSUME TypeInv, NEW s \in Sockets
  PROVE  Over(s) <=> node[s] # "open" /\ ~ Ahead(s)
<1>1. pending \in Seq(Jobs) /\ DOMAIN pending = 1 .. Len(pending)
  BY DEF TypeInv
<1>2. Job(s, "error", 0) \in Range(pending)
        <=> \E i \in 1 .. Len(pending) : pending[i] = Job(s, "error", 0)
  BY <1>1 DEF Range
<1> QED
  BY <1>2 DEF Over, Ahead

\* Only the removal of a socket pushes its error job.
LEMMA NextAhead ==
  ASSUME TypeInv, [Next]_vars, NEW r \in Sockets, Ahead(r)'
  PROVE  Ahead(r) \/ DancerRemove(r)
<1> USE DEF TypeInv, Ahead
<1>1. ASSUME UNCHANGED <<stage, pending, hand>> PROVE Ahead(r)
  BY <1>1
<1>2. ASSUME NEW s \in Sockets, DancerRemove(s) PROVE Ahead(r) \/ DancerRemove(r)
  <2>1. CASE s = r
    BY <1>2, <2>1
  <2>2. CASE s # r
    <3> DEFINE jobs == <<Job(s, "error", 0), Job(s, "cleanup", 0)>>
    <3>1. pending' = pending \o jobs /\ UNCHANGED <<stage, hand>>
      BY <1>2 DEF DancerRemove
    <3>2. \A i \in 1 .. Len(jobs) : jobs[i] # Job(r, "error", 0)
      BY <2>2 DEF Job
    <3>3. jobs \in Seq(Jobs)
      BY DEF Jobs
    <3> HIDE DEF jobs
    <3>4. \A i \in 1 .. Len(pending') :
            pending'[i] = IF i <= Len(pending) THEN pending[i] ELSE jobs[i - Len(pending)]
      BY <3>1, <3>3
    <3>5. \A i \in 1 .. Len(pending') : i <= Len(pending) \/ i - Len(pending) \in 1 .. Len(jobs)
      BY <3>1, <3>3
    <3> QED
      BY <3>1, <3>2, <3>4, <3>5
  <2> QED
    BY <2>1, <2>2
<1>3. ASSUME NEW s \in Sockets, NEW n \in Clients, DancerAccept(s, n) PROVE Ahead(r)
  <2>1. pending' = Append(pending, Job(s, "client", n)) /\ UNCHANGED <<stage, hand>>
    BY <1>3 DEF DancerAccept, Pool!Accept
  <2>2. Job(s, "client", n) # Job(r, "error", 0)
    BY DEF Job
  <2>3. \A i \in 1 .. Len(pending') :
          pending'[i] = IF i <= Len(pending) THEN pending[i] ELSE Job(s, "client", n)
    BY <2>1
  <2> QED
    BY <2>1, <2>2, <2>3
<1>4. ASSUME NEW w \in Workers, WorkerStep(w) PROVE Ahead(r)
  <2>1. CASE Take(w)
    <3>1. /\ pending # <<>> /\ hand' = [hand EXCEPT ![w] = Head(pending)]
          /\ pending' = Tail(pending) /\ stage' = [stage EXCEPT ![w] = "begin"]
      BY <2>1 DEF Take, Pool!Start
    <3>2. \A i \in 1 .. Len(pending') : i + 1 \in 1 .. Len(pending) /\ pending'[i] = pending[i + 1]
      BY <3>1
    <3>3. Head(pending) = pending[1] /\ 1 \in 1 .. Len(pending)
      BY <3>1
    <3> QED
      BY <3>1, <3>2, <3>3
  <2>2. CASE Enter(w)
    BY <2>2 DEF Enter
  <2>3. CASE Return(w)
    BY <2>3 DEF Return, Pool!Complete
  <2>4. CASE Quiet(w)
    BY <2>4 DEF Quiet, Pool!Complete
  <2> QED
    BY <1>4, <2>1, <2>2, <2>3, <2>4 DEF WorkerStep
<1>5. ASSUME NEW t \in Threads, ListenCheck(t) \/ StopSignal(t) \/ DestroyBegin(t) \/ CallStep(t)
      PROVE  UNCHANGED <<stage, pending, hand>>
  BY <1>5 DEF ListenCheck, StopSignal, DestroyBegin, CallStep, ListenStore, StopReset, ListenOpen
<1>6. ASSUME DestroyStep PROVE UNCHANGED <<stage, pending, hand>>
  BY <1>6 DEF DestroyStep, DestroyNull, DestroyStop
<1>7. ASSUME UNCHANGED vars PROVE UNCHANGED <<stage, pending, hand>>
  BY <1>7 DEF vars
<1> QED
  BY <1>1, <1>2, <1>3, <1>4, <1>5, <1>6, <1>7 DEF Next

\* Only a Listen opens a socket, only the dancer closes one.
LEMMA NextNode ==
  ASSUME TypeInv, [Next]_vars, NEW r \in Sockets
  PROVE  \/ node'[r] = node[r]
         \/ node[r] = "none" /\ node'[r] = "open" /\ \E t \in Threads : ListenOpen(t, r)
         \/ DancerRemove(r) /\ node[r] = "open" /\ node'[r] = "erased"
<1> USE DEF TypeInv
<1>1. ASSUME NEW t \in Threads, NEW s \in Sockets \cup {0}, ListenOpen(t, s)
      PROVE  node'[r] = node[r] \/ (node[r] = "none" /\ node'[r] = "open" /\ ListenOpen(t, r))
  <2>1. node'[r] = (IF r = s THEN "open" ELSE node[r])
    BY <1>1 DEF ListenOpen
  <2>2. CASE r = s
    <3>1. s # 0
      BY <2>2, ListenerAssumption DEF Sockets
    <3>2. node[s] = "none"
      BY <1>1, <3>1 DEF ListenOpen
    <3> QED
      BY <1>1, <2>1, <2>2, <3>2
  <2> QED
    BY <2>1, <2>2
<1>2. ASSUME NEW s \in Sockets, DancerRemove(s)
      PROVE  node'[r] = node[r] \/ (DancerRemove(r) /\ node[r] = "open" /\ node'[r] = "erased")
  BY <1>2 DEF DancerRemove
<1>3. ASSUME NEW t \in Threads,
             ListenCheck(t) \/ StopSignal(t) \/ DestroyBegin(t) \/ ListenStore(t) \/ StopReset(t)
      PROVE  node'[r] = node[r]
  BY <1>3 DEF ListenCheck, StopSignal, DestroyBegin, ListenStore, StopReset
<1>4. ASSUME DestroyStep PROVE node'[r] = node[r]
  BY <1>4 DEF DestroyStep, DestroyNull, DestroyStop
<1>5. ASSUME NEW s \in Sockets, NEW n \in Clients, DancerAccept(s, n) PROVE node'[r] = node[r]
  BY <1>5 DEF DancerAccept
<1>6. ASSUME NEW w \in Workers, WorkerStep(w) PROVE node'[r] = node[r]
  BY <1>6 DEF WorkerStep, Take, Enter, Return, Quiet
<1>7. ASSUME UNCHANGED vars PROVE node'[r] = node[r]
  BY <1>7 DEF vars
<1> QED
  BY <1>1, <1>2, <1>3, <1>4, <1>5, <1>6, <1>7 DEF Next, CallStep

\* So a socket that is over stays so, unless it is opened.
LEMMA NextOver ==
  ASSUME TypeInv, [Next]_vars, NEW r \in Sockets, Over(r)
  PROVE  Over(r)' \/ (node[r] = "none" /\ \E t \in Threads : ListenOpen(t, r))
<1>1. TypeInv'
  BY NextTypeInv
<1>2. node[r] # "open" /\ ~ Ahead(r)
  BY OverMeans
<1>3. Over(r)' <=> node'[r] # "open" /\ ~ Ahead(r)'
  <2>1. pending' \in Seq(Jobs) /\ DOMAIN pending' = 1 .. Len(pending')
    BY <1>1 DEF TypeInv
  <2>2. Job(r, "error", 0) \in Range(pending')
          <=> \E i \in 1 .. Len(pending') : pending'[i] = Job(r, "error", 0)
    BY <2>1 DEF Range
  <2> QED
    BY <2>2 DEF Over, Ahead
<1>4. ~ DancerRemove(r)
  BY <1>2 DEF DancerRemove
<1> QED
  BY <1>2, <1>3, <1>4, NextAhead, NextNode

LEMMA NextErased ==
  ASSUME OrderInv, [Next]_vars, NEW r \in Sockets, Ahead(r)'
  PROVE  node'[r] = "erased"
<1>1. TypeInv
  BY DEF OrderInv, GuardInv
<1>2. Ahead(r) \/ DancerRemove(r)
  BY <1>1, NextAhead
<1>3. CASE Ahead(r)
  <2>1. node[r] = "erased"
    BY <1>3 DEF OrderInv
  <2> QED
    BY <1>1, <2>1, NextNode
<1>4. CASE DancerRemove(r)
  BY <1>1, <1>4 DEF DancerRemove, TypeInv
<1> QED
  BY <1>2, <1>3, <1>4

\* Over whose sockets the program's calls are made.
Order == OneCall /\ OneSocket /\ NoneForgotten

\* A Listen that opens a socket finds no other, and is the only call.
LEMMA OpenOrder ==
  ASSUME OrderInv, orderly, NEW t \in Threads, NEW s \in Sockets \cup {0}, ListenOpen(t, s)
  PROVE  Order'
<1>1. /\ call[t].at = "open"
      /\ call \in [Threads -> [at : {"none", "open", "store", "stop"}, got : 0 .. MaxListens]]
      /\ call' = [call EXCEPT ![t] = In("store", s)]
      /\ \A u \in Threads : call[u].at \in {"open", "store"} => u = t
      /\ \A r \in Sockets : Over(r)
  BY DEF ListenOpen, OrderInv, OneCall, GuardInv, TypeInv
<1>2. \A r \in Sockets : r = s \/ Over(r)'
  BY <1>1 DEF ListenOpen, Over
<1>3. \A r \in Listening' : r = s
  BY <1>2 DEF Listening, Over
<1>4. call'[t] = In("store", s) /\ \A u \in Threads : u # t => call'[u] = call[u]
  BY <1>1
<1>5. OneCall'
  <2>1. \A s1 \in Listening' : Storing(s1)'
    BY <1>3, <1>4 DEF Storing
  <2> QED
    BY <1>1, <1>2, <1>4, <2>1 DEF OneCall
<1>6. OneSocket'
  BY <1>2, <1>3 DEF OneSocket
<1>7. NoneForgotten'
  BY <1>3, <1>4 DEF NoneForgotten
<1> QED
  BY <1>5, <1>6, <1>7 DEF Order

\* What a call and a callback make of identifier, when the sockets that listen are no
\* more than before and those that were over still are.
LEMMA StepOrder ==
  ASSUME OrderInv, orderly, orderly', [Next]_vars,
         \A r \in Sockets : Over(r) => Over(r)', Listening' \subseteq Listening,
         ~ \E t \in Threads, s \in Sockets \cup {0} : ListenOpen(t, s)
  PROVE  OneCall' /\ NoneForgotten'
<1>1. /\ TypeInv /\ CallInv /\ OneCall /\ OneSocket /\ NoneForgotten
      /\ call \in [Threads -> [at : {"none", "open", "store", "stop"}, got : 0 .. MaxListens]]
      /\ \A r \in Sockets : Ahead(r) => node[r] = "erased"
  BY DEF OrderInv, GuardInv, TypeInv
<1>2. ASSUME UNCHANGED <<call, identifier>> PROVE OneCall' /\ NoneForgotten'
  BY <1>1, <1>2 DEF OneCall, NoneForgotten, Storing
<1>3. ASSUME \A s \in Sockets : Over(s) PROVE Listening = {}
  BY <1>3 DEF Listening, Over
<1>4. ASSUME NEW t \in Threads, ListenCheck(t) PROVE OneCall' /\ NoneForgotten'
  <2>1. /\ call' = [call EXCEPT ![t] = In("open", 0)]
        /\ \A u \in Threads : call[u].at \notin {"open", "store"}
        /\ \A s \in Sockets : Over(s)
    BY <1>4 DEF ListenCheck
  <2>2. call'[t] = In("open", 0) /\ \A u \in Threads : u # t => call'[u] = call[u]
    BY <1>1, <2>1
  <2>3. Listening' = {}
    BY <1>3, <2>1
  <2>4. OneCall'
    BY <2>1, <2>2, <2>3 DEF OneCall
  <2> QED
    BY <2>3, <2>4 DEF NoneForgotten
<1>5. ASSUME NEW t \in Threads, ListenStore(t) PROVE OneCall' /\ NoneForgotten'
  <2>1. /\ call[t].at = "store" /\ call' = [call EXCEPT ![t] = NoCall]
        /\ identifier' = call[t].got
        /\ \A u \in Threads : call[u].at # "stop"
    BY <1>5 DEF ListenStore
  <2>2. \A u \in Threads : call'[u].at = "none"
    BY <1>1, <2>1 DEF OneCall
  <2>3. OneCall'
    BY <2>2 DEF OneCall
  <2>4. \A s \in Listening : s = call[t].got
    BY <1>1, <2>1 DEF OneCall, Listening, Over
  <2> QED
    BY <2>1, <2>3, <2>4 DEF NoneForgotten
<1>6. ASSUME closeAsked' = closeAsked \cup ({identifier} \ {0})
      PROVE  \A s \in Listening' : Storing(s)
  <2>1. \A s \in Sockets : s # 0
    BY ListenerAssumption DEF Sockets
  <2>2. \A s \in Listening' : s \in Listening /\ s # identifier
    BY <1>6, <2>1 DEF Listening
  <2> QED
    BY <1>1, <2>2 DEF NoneForgotten, Storing
<1>7. ASSUME NEW t \in Threads, StopSignal(t) PROVE OneCall' /\ NoneForgotten'
  <2>1. /\ call' = [call EXCEPT ![t] = In("stop", 0)] /\ call[t] = NoCall
        /\ closeAsked' = closeAsked \cup ({identifier} \ {0})
    BY <1>7 DEF StopSignal, MayCall, Signal
  <2>2. call'[t] = In("stop", 0) /\ \A u \in Threads : u # t => call'[u] = call[u]
    BY <1>1, <2>1
  <2>3. \A s \in Listening' : Storing(s)'
    <3>1. ASSUME NEW s \in Listening' PROVE Storing(s)'
      <4>1. PICK u \in Threads : call[u] = In("store", s)
        BY <1>6, <2>1, <3>1 DEF Storing
      <4>2. call'[u] = In("store", s)
        BY <2>1, <2>2, <4>1
      <4> QED
        BY <4>2 DEF Storing
    <3> QED
      BY <3>1
  <2>4. OneCall'
    BY <1>1, <2>2, <2>3 DEF OneCall
  <2>5. NoneForgotten'
    BY <2>3 DEF NoneForgotten, Storing
  <2> QED
    BY <2>4, <2>5
<1>8. ASSUME NEW t \in Threads, StopReset(t) PROVE OneCall' /\ NoneForgotten'
  <2>1. call[t].at = "stop" /\ call' = [call EXCEPT ![t] = NoCall]
    BY <1>8 DEF StopReset
  <2>2. call'[t] = NoCall /\ \A u \in Threads : u # t => call'[u] = call[u]
    BY <1>1, <2>1
  <2>3. \A s \in Listening' : Storing(s)'
    <3>1. ASSUME NEW s \in Listening' PROVE Storing(s)'
      <4>1. PICK u \in Threads : call[u] = In("store", s)
        BY <1>1, <2>1, <3>1 DEF Storing, OneCall
      <4>2. call'[u] = In("store", s)
        BY <2>1, <2>2, <4>1
      <4> QED
        BY <4>2 DEF Storing
    <3> QED
      BY <3>1
  <2>4. OneCall'
    BY <1>1, <2>2, <2>3 DEF OneCall
  <2>5. NoneForgotten'
    BY <2>3 DEF NoneForgotten, Storing
  <2> QED
    BY <2>4, <2>5
<1>9. ASSUME DestroyStop PROVE OneCall' /\ NoneForgotten'
  <2>1. /\ \A t \in Threads : call[t].at = "none"
        /\ UNCHANGED call /\ closeAsked' = closeAsked \cup ({identifier} \ {0})
    BY <1>1, <1>9 DEF DestroyStop, Signal, CallInv
  <2>2. Listening' = {}
    <3>1. \A s : ~ Storing(s)
      BY <2>1 DEF Storing
    <3>2. \A s \in Listening' : Storing(s)
      BY <1>6, <2>1
    <3> QED
      BY <3>1, <3>2
  <2> QED
    BY <2>1, <2>2 DEF OneCall, NoneForgotten
<1>10. ASSUME NEW w \in Workers, Enter(w) PROVE OneCall' /\ NoneForgotten'
  <2>1. CASE hand[w].kind # "error"
    BY <1>2, <1>10, <2>1 DEF Enter
  <2>2. CASE hand[w].kind = "error"
    <3>1. hand[w] \in Jobs /\ stage[w] = "begin"
      BY <1>1, <1>10 DEF Enter, Ready, TypeInv
    <3>2. PICK s \in Sockets : hand[w] = Job(s, "error", 0)
      BY <2>2, <3>1 DEF Jobs, Job
    <3>3. Ahead(s)
      BY <3>1, <3>2 DEF Ahead
    <3>4. node[s] = "erased" /\ ~ Over(s)
      BY <1>1, <3>3, OverMeans
    <3>5. Listening = {}
      BY <1>1, <3>4 DEF OneSocket, Listening
    <3>6. UNCHANGED call
      BY <1>10 DEF Enter
    <3> QED
      BY <1>1, <3>5, <3>6 DEF OneCall, NoneForgotten, Storing
  <2> QED
    BY <2>1, <2>2
<1>11. ASSUME NEW t \in Threads, DestroyBegin(t) PROVE UNCHANGED <<call, identifier>>
  BY <1>11 DEF DestroyBegin
<1>12. ASSUME NEW w \in Workers, Take(w) \/ Return(w) \/ Quiet(w)
       PROVE  UNCHANGED <<call, identifier>>
  BY <1>12 DEF Take, Return, Quiet
<1>13. ASSUME NEW s \in Sockets, DancerRemove(s) \/ \E n \in Clients : DancerAccept(s, n)
       PROVE  UNCHANGED <<call, identifier>>
  BY <1>13 DEF DancerRemove, DancerAccept
<1>14. ASSUME DestroyNull \/ UNCHANGED vars PROVE UNCHANGED <<call, identifier>>
  BY <1>14 DEF DestroyNull, vars
<1> QED
  BY <1>2, <1>4, <1>5, <1>7, <1>8, <1>9, <1>10, <1>11, <1>12, <1>13, <1>14
    DEF Next, CallStep, DestroyStep, WorkerStep

LEMMA NextOrder ==
  ASSUME OrderInv, [Next]_vars
  PROVE  OrderInv'
<1>1. GuardInv' /\ TypeInv
  BY NextGuard DEF OrderInv, GuardInv
<1>2. \A s \in Sockets : Ahead(s)' => node'[s] = "erased"
  BY NextErased
<1>3. ASSUME orderly' PROVE Order'
  <2>1. orderly
    BY <1>3 DEF Next, vars, ListenCheck, StopSignal, DestroyBegin, CallStep, ListenStore,
      StopReset, ListenOpen, DestroyStep, DestroyNull, DestroyStop, DancerRemove,
      DancerAccept, WorkerStep, Take, Enter, Return, Quiet
  <2>2. CASE \E t \in Threads, s \in Sockets \cup {0} : ListenOpen(t, s)
    BY <2>1, <2>2, OpenOrder
  <2>3. CASE ~ \E t \in Threads, s \in Sockets \cup {0} : ListenOpen(t, s)
    <3>1. \A r \in Sockets : Over(r) => Over(r)'
      BY <1>1, <2>3, NextOver
    <3>2. closeAsked \subseteq closeAsked'
      BY DEF Next, vars, ListenCheck, StopSignal, DestroyBegin, CallStep, ListenStore,
        StopReset, ListenOpen, DestroyStep, DestroyNull, DestroyStop, DancerRemove,
        DancerAccept, WorkerStep, Take, Enter, Return, Quiet, Signal
    <3>3. \A r \in Sockets : node'[r] = "open" => node[r] = "open"
      BY <1>1, <2>3, NextNode
    <3>4. Listening' \subseteq Listening
      BY <3>2, <3>3 DEF Listening
    <3>5. OneCall' /\ NoneForgotten'
      BY <1>3, <2>1, <2>3, <3>1, <3>4, StepOrder
    <3>6. OneSocket'
      BY <2>1, <3>1, <3>4 DEF OrderInv, OneSocket, Listening
    <3> QED
      BY <3>5, <3>6 DEF Order
  <2> QED
    BY <2>2, <2>3
<1> QED
  BY <1>1, <1>2, <1>3 DEF OrderInv, Order

LEMMA InitOrder == Init => OrderInv
<1> SUFFICES ASSUME Init PROVE OrderInv
  OBVIOUS
<1>1. GuardInv
  BY InitGuard
<1>2. (\A s \in Sockets : ~ Ahead(s)) /\ Listening = {}
  BY DEF Init, Ahead, Listening, Pool!Init
<1>3. \A t \in Threads : call[t].at = "none"
  BY DEF Init
<1>4. OneCall /\ OneSocket /\ NoneForgotten
  BY <1>2, <1>3 DEF OneCall, OneSocket, NoneForgotten
<1> QED
  BY <1>1, <1>2, <1>4 DEF OrderInv

\* "If this already has an fd, don't overwrite it with a new" (listener.cpp:27): but for two
\* Listens at once, a Listen before the last socket's error callback has begun, and a Listen
\* that stores its socket while a Stop is between its signal and its reset, an open socket
\* is named by the listener or by the Listen under way, or has been told to close, for any
\* number of threads, workers, sockets and clients.
THEOREM ListenerNoneForgotten == Spec => []NoneForgotten
<1>1. OrderInv => NoneForgotten
  BY DEF OrderInv, NoneForgotten
<1> QED
  BY <1>1, InitOrder, NextOrder, PTL DEF Spec

=============================================================================
