------------------------------ MODULE Listener ------------------------------
(***************************************************************************)
(* A Networking::Listener (networking/listener.{hpp,cpp}) against the jobs *)
(* of the sockets it has opened: the program's threads and its callbacks   *)
(* call Listen, Stop and the destructor, and the poll dancer pushes the    *)
(* clients it accepts, and the error and the cleanup of a socket it closes.*)
(*                                                                         *)
(* Stop and the jobs own the mutex of sharedThis; Listen does not.  A      *)
(* socket is known by the number of the Listen that opened it, which is    *)
(* also its identifier; the pool is JobPool.  The program is not exiting.  *)
(* The life of sharedCpy, which is that of Client, is left to Client.tla.  *)
(***************************************************************************)
EXTENDS Naturals, Sequences, FiniteSets, Functions

CONSTANTS
  Users,       \* the program's own threads
  Workers,     \* the threads of msgThreadpool
  MaxListens,  \* how many sockets Listen opens: a bound of the model
  MaxClients,  \* how many connections they accept: a bound of the model
  NoThread,
  NoJob

Threads == Users \cup Workers
Sockets == 1 .. MaxListens
Clients == 1 .. MaxClients

Job(s, kind, n) == [sock |-> s, kind |-> kind, n |-> n]
Jobs == {Job(s, "client", n) : s \in Sockets, n \in Clients}
          \cup {Job(s, kind, 0) : s \in Sockets, kind \in {"error", "cleanup"}}

ASSUME ListenerAssumption ==
  /\ Users \cap Workers = {} /\ NoThread \notin Threads /\ NoJob \notin Jobs
  /\ MaxListens \in Nat /\ MaxClients \in Nat

VARIABLES
  identifier, \* the member: the socket it names, or 0
  object,     \* where the Listener is between its constructor and its end
  owner,      \* the owner of the recursive mutex in sharedThis
  destroyer,  \* the thread inside ~Listener
  call,       \* the method each thread is in, and what Networking::Listen returned
  node,       \* the socket's entry in Networking::listeners
  closeAsked, \* the sockets a SocketRemove was piped for
  client,     \* where each accepted client is
  stage,      \* how far each worker is in its job
  orderly,    \* history: no Listen has met one of the three that it does not exclude
  pending, hand, done  \* the job pool

objectVars == <<object, owner, destroyer>>
socketVars == <<node, closeAsked>>
poolVars == <<pending, hand, done>>
vars == <<identifier, objectVars, call, socketVars, client, stage, orderly, poolVars>>

Pool == INSTANCE JobPool

In(at, s) == [at |-> at, got |-> s]
NoCall == In("none", 0)

Init ==
  /\ identifier = 0 /\ object = "alive"
  /\ owner = NoThread /\ destroyer = NoThread
  /\ call = [t \in Threads |-> NoCall]
  /\ node = [s \in Sockets |-> "none"] /\ closeAsked = {}
  /\ client = [n \in Clients |-> "none"]
  /\ stage = [w \in Workers |-> "idle"]
  /\ orderly = TRUE
  /\ Pool!Init

-----------------------------------------------------------------------------
(* The program's calls, by its own threads and from inside callbacks.      *)

MayCall(t) ==
  /\ object = "alive" /\ call[t] = NoCall
  /\ t \in Users \cup {w \in Workers : stage[w] = "callback"}

Alone(t) == \A u \in Threads \ {t} : call[u] = NoCall

\* A socket is over once its error callback has begun.
Over(s) ==
  /\ node[s] # "open"
  /\ Job(s, "error", 0) \notin
       Range(pending) \cup {hand[w] : w \in {x \in Workers : stage[x] = "begin"}}

\* Listen looks at identifier and keeps the callbacks, without the mutex: another Listen
\* may be under way, or the end of the last socket ...
ListenCheck(t) ==
  /\ MayCall(t) /\ identifier = 0
  /\ call' = [call EXCEPT ![t] = In("open", 0)]
  /\ orderly' = /\ orderly
                 /\ \A u \in Threads : call[u].at \notin {"open", "store"}
                 /\ \A s \in Sockets : Over(s)
  /\ UNCHANGED <<identifier, objectVars, socketVars, client, stage, poolVars>>

\* ... Networking::Listen binds a socket and gives it to the dancer, unless there is
\* none to be had, when it returns 0 ...
ListenOpen(t, s) ==
  /\ call[t].at = "open"
  /\ s # 0 => node[s] = "none" /\ \A r \in 1 .. s - 1 : node[r] # "none"
  /\ node' = [r \in Sockets |-> IF r = s THEN "open" ELSE node[r]]
  /\ call' = [call EXCEPT ![t] = In("store", s)]
  /\ UNCHANGED <<identifier, objectVars, closeAsked, client, stage, orderly, poolVars>>

\* ... and Listen stores what it returned, whatever has become of that socket since, and
\* though a Stop that has signalled may be about to reset identifier.
ListenStore(t) ==
  /\ call[t].at = "store"
  /\ identifier' = call[t].got
  /\ call' = [call EXCEPT ![t] = NoCall]
  /\ orderly' = (orderly /\ \A u \in Threads : call[u].at # "stop")
  /\ UNCHANGED <<objectVars, socketVars, client, stage, poolVars>>

SignalNothing == UNCHANGED closeAsked

\* SignalCloseSocket, which ignores 0.
Signal == closeAsked' = closeAsked \cup ({identifier} \ {0})

\* Stop, under the mutex: it signals, and only then resets identifier.
StopSignal(t) ==
  /\ MayCall(t) /\ owner \in {NoThread, t}
  /\ owner' = t
  /\ Signal
  /\ call' = [call EXCEPT ![t] = In("stop", 0)]
  /\ UNCHANGED <<identifier, object, destroyer, node, client, stage, orderly, poolVars>>

StopReset(t) ==
  /\ call[t].at = "stop"
  /\ identifier' = 0
  /\ owner' = IF t \in Users THEN NoThread ELSE t
  /\ call' = [call EXCEPT ![t] = NoCall]
  /\ UNCHANGED <<object, destroyer, socketVars, client, stage, orderly, poolVars>>

\* ~Listener, once the program has no other call on it: the guarded pointer becomes
\* nullptr, under the mutex, ...
DestroyBegin(t) ==
  /\ MayCall(t) /\ Alone(t)
  /\ object' = "closing" /\ destroyer' = t
  /\ UNCHANGED <<identifier, owner, call, socketVars, client, stage, orderly, poolVars>>

DestroyNullNoLock ==
  /\ object = "closing"
  /\ object' = "nulled"
  /\ UNCHANGED <<identifier, owner, destroyer, call, socketVars, client, stage, orderly, poolVars>>

DestroyNull ==
  /\ object = "closing" /\ owner \in {NoThread, destroyer}
  /\ object' = "nulled"
  /\ UNCHANGED <<identifier, owner, destroyer, call, socketVars, client, stage, orderly, poolVars>>

\* ... and Stop.
DestroyStop ==
  /\ object = "nulled" /\ owner \in {NoThread, destroyer}
  /\ Signal
  /\ identifier' = 0 /\ object' = "gone"
  /\ UNCHANGED <<owner, destroyer, call, node, client, stage, orderly, poolVars>>

-----------------------------------------------------------------------------
(* The dancer.                                                             *)

\* HandleListener accepts and pushes a client, which only its job refers to.
DancerAccept(s, n) ==
  /\ node[s] = "open" /\ client[n] = "none"
  /\ client' = [client EXCEPT ![n] = "queued"]
  /\ Pool!Accept(Job(s, "client", n))
  /\ UNCHANGED <<identifier, objectVars, call, socketVars, stage, orderly>>

DancerRemoveKeeps(s) ==
  /\ node[s] = "open"
  /\ pending' = pending \o <<Job(s, "error", 0)>>
  /\ node' = [node EXCEPT ![s] = "erased"]
  /\ UNCHANGED <<identifier, objectVars, call, closeAsked, client, stage, orderly, hand, done>>

\* SocketRemove, which Stop has asked for or a failing accept: the error job, the cleanup
\* job, and the socket is closed.
DancerRemove(s) ==
  /\ node[s] = "open"
  /\ pending' = pending \o <<Job(s, "error", 0), Job(s, "cleanup", 0)>>
  /\ node' = [node EXCEPT ![s] = "erased"]
  /\ UNCHANGED <<identifier, objectVars, call, closeAsked, client, stage, orderly, hand, done>>

-----------------------------------------------------------------------------
(* The workers.                                                            *)

Take(w) ==
  /\ Pool!Start(w)
  /\ stage' = [stage EXCEPT ![w] = "begin"]
  /\ UNCHANGED <<identifier, objectVars, call, socketVars, client, orderly>>

Ready(w, kinds) == stage[w] = "begin" /\ hand[w].kind \in kinds /\ owner = NoThread

\* The job gets the mutex and finds the listener there: Callback hands the client over,
\* ErrorCallback resets identifier, and both call the program.
Enter(w) ==
  /\ Ready(w, {"client", "error"}) /\ object \in {"alive", "closing"}
  /\ owner' = w
  /\ stage' = [stage EXCEPT ![w] = "callback"]
  /\ identifier' = IF hand[w].kind = "error" THEN 0 ELSE identifier
  /\ client' = [n \in Clients |-> IF n = hand[w].n THEN "given" ELSE client[n]]
  /\ UNCHANGED <<object, destroyer, call, socketVars, orderly, poolVars>>

Return(w) ==
  /\ stage[w] = "callback" /\ call[w] = NoCall
  /\ destroyer = w => object = "gone"
  /\ owner' = NoThread
  /\ stage' = [stage EXCEPT ![w] = "idle"]
  /\ Pool!Complete(w)
  /\ UNCHANGED <<identifier, object, destroyer, call, socketVars, client, orderly>>

\* A job that calls nobody: the listener is gone, and a client nobody was given is
\* closed with its job; or the error job, which goes through an iterator of the entry
\* erased, has come to nothing; or it is the cleanup job, which deletes sharedCpy.
Quiet(w) ==
  /\ \/ Ready(w, {"client", "error"}) /\ object \notin {"alive", "closing"}
     \/ stage[w] = "begin" /\ hand[w].kind = "error"
     \/ Ready(w, {"cleanup"})
  /\ stage' = [stage EXCEPT ![w] = "idle"]
  /\ client' = [n \in Clients |-> IF n = hand[w].n THEN "closed" ELSE client[n]]
  /\ Pool!Complete(w)
  /\ UNCHANGED <<identifier, objectVars, call, socketVars, orderly>>

-----------------------------------------------------------------------------

CallStep(t) == ListenStore(t) \/ StopReset(t) \/ \E s \in Sockets \cup {0} : ListenOpen(t, s)
DestroyStep == DestroyNull \/ DestroyStop
WorkerStep(w) == Take(w) \/ Enter(w) \/ Return(w) \/ Quiet(w)

Next ==
  \/ \E t \in Threads : ListenCheck(t) \/ StopSignal(t) \/ DestroyBegin(t) \/ CallStep(t)
  \/ DestroyStep
  \/ \E s \in Sockets : DancerRemove(s) \/ \E n \in Clients : DancerAccept(s, n)
  \/ \E w \in Workers : WorkerStep(w)

\* The threads and the dancer are scheduled, calls go on and callbacks return, and who
\* waits for the mutex gets it if it is free again and again.  That a queued job is taken
\* is not assumed: the pool does not promise it.
Fairness ==
  /\ \A t \in Threads : WF_vars(CallStep(t))
  /\ SF_vars(DestroyStep)
  /\ \A s \in Sockets : WF_vars(s \in closeAsked /\ DancerRemove(s))
  /\ \A w \in Workers : SF_vars(Enter(w) \/ Return(w) \/ Quiet(w))

Spec == Init /\ [][Next]_vars
FairSpec == Spec /\ Fairness

-----------------------------------------------------------------------------

\* "The content of the guarded pointer is set to nullptr, signifying to callbacks that
\* they need to fail" (listener.hpp:24): the program's callbacks of every socket run
\* one at a time, under the mutex, and none once ~Listener is past its lock, unless the
\* callback itself destroys the listener.
CallbacksGuarded ==
  \A w \in Workers : stage[w] = "callback" =>
    owner = w /\ (object \in {"alive", "closing"} \/ destroyer = w)

\* The sockets that are open and not told to close.
Listening == {s \in Sockets \ closeAsked : node[s] = "open"}

\* "If this already has an fd, don't overwrite it with a new" (listener.cpp:27), and
\* "anything callable from outside should likewise lock it" (listener.hpp:22), which Listen
\* does not: an open socket is named by the listener, or by the Listen under way, or told to
\* close, in every order of Listen, Stop, failing accepts and callbacks - but for the three
\* overlaps in which the code does forget one (orderly): two Listens at once, a Listen
\* between the end of the last socket and that socket's error callback, and a Listen that
\* stores what it opened while a Stop is between its signal and its reset (listener.cpp:63,
\* 75, 76).
NoneForgotten ==
  orderly => \A s \in Listening : identifier = s \/ \E t \in Threads : call[t] = In("store", s)

CleanupGiven(s) == Job(s, "cleanup", 0) \in Range(pending) \cup Range(hand) \cup done

\* Of a program without those overlaps every socket is closed once the listener is
\* destroyed, with the job that deletes its copy of sharedThis given to the pool
\* (listener.hpp:25); and whatever the calls, a job that a worker has begun ends: no
\* circle of Stop, destructor and callbacks keeps the mutex from it.
NothingLeftOpen ==
  /\ orderly /\ object = "gone" ~>
       \A s \in Sockets : node[s] # "none" => node[s] = "erased" /\ CleanupGiven(s)
  /\ \A w \in Workers : stage[w] = "begin" ~> stage[w] = "idle"

=============================================================================
