------------------------------- MODULE Client -------------------------------
(***************************************************************************)
(* The life of Networking::Client objects (networking/client.{hpp,cpp})    *)
(* against the callbacks of their connections: the program's threads       *)
(* commence, connect and destroy clients, the poll dancer of               *)
(* networking.cpp pushes data, error and cleanup jobs on the thread pool,  *)
(* and the pool's workers run them: any number of workers, for the pool    *)
(* has one per processor unless it is told otherwise.                      *)
(*                                                                         *)
(* A client and the lambdas of its connection share a                      *)
(* GuardedVar<Client *>: the client through its member sharedThis, the     *)
(* lambdas through sharedCpy, a pointer on the heap to a copy of that      *)
(* shared_ptr, which the cleanup job deletes.  The pool is JobPool, which  *)
(* Threadpool implements.                                                  *)
(***************************************************************************)
EXTENDS Naturals, Sequences, FiniteSets, Functions

CONSTANTS
  Accepted,  \* the clients a listener makes; the program calls Commence
  Outgoing,  \* the clients of NewClient; the program calls Connect
  Users,     \* the program's own threads
  Workers,   \* the threads of msgThreadpool
  MaxData,   \* how many messages a connection receives: a bound of the model
  NoThread,
  NoJob,
  NoClient

Clients == Accepted \cup Outgoing
Threads == Users \cup Workers

\* The closures pushed on msgThreadpool; n numbers the messages of a connection.
Job(c, kind, n) == [client |-> c, kind |-> kind, n |-> n]

Jobs == {Job(c, "data", n) : c \in Clients, n \in 1 .. MaxData}
          \cup {Job(c, kind, 0) : c \in Clients, kind \in {"error", "cleanup"}}

ASSUME ClientAssumption ==
  /\ Accepted \cap Outgoing = {}
  /\ Users \cap Workers = {}
  /\ NoThread \notin Threads
  /\ NoClient \notin Clients
  /\ NoJob \notin Jobs
  /\ MaxData \in Nat

VARIABLES
  object,     \* where each Client is between its constructor and its end
  content,    \* whether its GuardedVar still holds the client, not nullptr
  owner,      \* the owner of the recursive mutex in it
  holder,     \* *sharedCpy
  node,       \* the connection's entry in Networking::clients
  errorGiven, \* the entry's errorCallback != nullptr
  closeAsked, \* a SocketRemove of the client is in the pipe
  removing,   \* the client whose SocketRemove the dancer is in the middle of
  down,       \* the pipe is closed: the dancer left its loop
  arrived,    \* how many messages the dancer has read from the connection
  stage,      \* how far each thread is: a worker in its job, any in a call
  target,     \* the client whose method it is in
  ownEnd,     \* history: the clients that the callback in progress has destroyed
  overtaken,  \* history: the clients whose cleanup job did not wait for others
  pending, hand, done  \* the job pool

vars == <<object, content, owner, holder, node, errorGiven, closeAsked,
          removing, down, arrived, stage, target, ownEnd, overtaken,
          pending, hand, done>>

poolVars == <<pending, hand, done>>

\* What belongs to the client's connection, to the calls, and what is history.
connVars == <<node, errorGiven, closeAsked, removing, down, arrived>>
callVars == <<stage, target>>
historyVars == <<ownEnd, overtaken>>

Pool == INSTANCE JobPool

\* The jobs that go through sharedCpy.
Guarded(j) == j.client \in Accepted \/ j.kind = "cleanup"

\* Those of a client that have not had its mutex yet.
Waiting(c) ==
  {j \in Range(pending) \cup {hand[w] : w \in {x \in Workers : stage[x] \in {"begin", "lock"}}} :
     Guarded(j) /\ j.client = c}

TypeOK ==
  /\ object \in [Clients -> {"limbo", "fresh", "connecting", "open", "closing", "nulled", "gone"}]
  /\ content \in [Clients -> BOOLEAN]
  /\ owner \in [Clients -> Threads \cup {NoThread}]
  /\ holder \in [Clients -> {"none", "live", "freed"}]
  /\ node \in [Clients -> {"none", "piped", "polled", "erased"}]
  /\ errorGiven \in [Clients -> BOOLEAN]
  /\ closeAsked \in [Clients -> BOOLEAN]
  /\ removing \in Clients \cup {NoClient}
  /\ down \in BOOLEAN
  /\ arrived \in [Clients -> 0 .. MaxData]
  /\ stage \in [Threads -> {"idle", "begin", "lock", "callback", "delete",
                          "send", "connect", "connecting", "destructor"}]
  /\ target \in [Threads -> Clients \cup {NoClient}]
  /\ ownEnd \subseteq Clients
  /\ overtaken \subseteq Clients
  /\ Pool!TypeOK

\* HandleListener has accepted the Accepted, NewClient has made the Outgoing.
Init ==
  /\ object = [c \in Clients |-> IF c \in Accepted THEN "limbo" ELSE "fresh"]
  /\ content = [c \in Clients |-> TRUE]
  /\ owner = [c \in Clients |-> NoThread]
  /\ holder = [c \in Clients |-> "none"]
  /\ node = [c \in Clients |-> "none"]
  /\ errorGiven = [c \in Clients |-> FALSE]
  /\ closeAsked = [c \in Clients |-> FALSE]
  /\ removing = NoClient
  /\ down = FALSE
  /\ arrived = [c \in Clients |-> 0]
  /\ stage = [t \in Threads |-> "idle"]
  /\ target = [t \in Threads |-> NoClient]
  /\ ownEnd = {}
  /\ overtaken = {}
  /\ Pool!Init

-----------------------------------------------------------------------------
(* The program's calls: by its own threads, and by the callbacks of clients *)
(* that the workers are in, on the client of the callback or on another.   *)

\* The clients whose method t may call: those that are there, and while ~Client
\* waits for the callback t is in, also the client of that callback.
Callable(t) ==
  {c \in Clients : \/ object[c] \in {"limbo", "fresh", "connecting", "open"}
                   \/ object[c] = "closing" /\ owner[c] = t}

\* Where a thread is when it is in no method of a client and may call one.
Home(t) == IF t \in Workers THEN "callback" ELSE "idle"

Call(t, method, c) ==
  /\ stage[t] = Home(t)
  /\ stage' = [stage EXCEPT ![t] = method]
  /\ target' = [target EXCEPT ![t] = c]

ReturnFrom(t, method) ==
  /\ stage[t] = method
  /\ stage' = [stage EXCEPT ![t] = Home(t)]
  /\ target' = [target EXCEPT ![t] = NoClient]

\* Get(): the mutex is recursive.
MayLock(t, c) == owner[c] \in {NoThread, t}

\* Commence hands the connection, the three lambdas and the descriptor over
\* to the dancer, with no lock.  The error lambda exists even if the program gave none.
Commence(c) ==
  /\ object[c] = "limbo"
  /\ \A t \in Threads : target[t] # c
  /\ object' = [object EXCEPT ![c] = "open"]
  /\ holder' = [holder EXCEPT ![c] = "live"]
  /\ node' = [node EXCEPT ![c] = "piped"]
  /\ errorGiven' = [errorGiven EXCEPT ![c] = TRUE]
  /\ UNCHANGED <<content, owner, closeAsked, removing, down, arrived,
                 callVars, historyVars, poolVars>>

SendBegin(t, c) ==
  /\ c \in Callable(t)
  /\ Call(t, "send", c)
  /\ UNCHANGED <<object, content, owner, holder, connVars, historyVars, poolVars>>

\* Send owns the mutex of sharedThis while it writes the message to the pipe,
\* which Networking.Send does.
SendEnd(t) ==
  /\ ReturnFrom(t, "send")
  /\ MayLock(t, target[t])
  /\ UNCHANGED <<object, content, owner, holder, connVars, historyVars, poolVars>>

ConnectBegin(t, c) ==
  /\ c \in Callable(t)
  /\ object[c] # "limbo"
  /\ Call(t, "connect", c)
  /\ UNCHANGED <<object, content, owner, holder, connVars, historyVars, poolVars>>

\* Connect owns the mutex of sharedThis until it returns.  It passes the
\* program's callbacks to ConnectTCP, not its own lambdas; only the cleanup
\* lambda is used.  (The sharedCpy of a Connect that failed leaks; holder is
\* the one of the last.)
ConnectLock(t, error) ==
  LET c == target[t]
  IN  /\ stage[t] = "connect"
      /\ object[c] = "fresh"
      /\ owner[c] = NoThread
      /\ owner' = [owner EXCEPT ![c] = t]
      /\ object' = [object EXCEPT ![c] = "connecting"]
      /\ holder' = [holder EXCEPT ![c] = "live"]
      /\ errorGiven' = [errorGiven EXCEPT ![c] = error]
      /\ stage' = [stage EXCEPT ![t] = "connecting"]
      /\ UNCHANGED <<content, node, closeAsked, removing, down, arrived,
                     target, historyVars, poolVars>>

\* It has an identifier already.
ConnectRefused(t) ==
  /\ ReturnFrom(t, "connect")
  /\ object[target[t]] \in {"open", "closing"}
  /\ MayLock(t, target[t])
  /\ UNCHANGED <<object, content, owner, holder, connVars, historyVars, poolVars>>

\* ConnectTCP returns 0 without telling the dancer: identifier stays 0.
ConnectFail(t) ==
  LET c == target[t]
  IN  /\ ReturnFrom(t, "connecting")
      /\ node[c] = "none"
      /\ object' = [object EXCEPT ![c] = "fresh"]
      /\ owner' = [owner EXCEPT ![c] = NoThread]
      /\ UNCHANGED <<content, holder, connVars, historyVars, poolVars>>

ConnectPipe(t) ==
  LET c == target[t]
  IN  /\ stage[t] = "connecting"
      /\ node[c] = "none"
      /\ node' = [node EXCEPT ![c] = "piped"]
      /\ UNCHANGED <<object, content, owner, holder, errorGiven, closeAsked, removing,
                     down, arrived, callVars, historyVars, poolVars>>

ConnectReturn(t) ==
  LET c == target[t]
  IN  /\ ReturnFrom(t, "connecting")
      /\ node[c] # "none"
      /\ object' = [object EXCEPT ![c] = "open"]
      /\ owner' = [owner EXCEPT ![c] = NoThread]
      /\ UNCHANGED <<content, holder, connVars, historyVars, poolVars>>

\* The last reference to a client is dropped, by a user thread or by the
\* callback a worker is in, which may be a callback of that client: nobody is
\* in another method of it.
DestroyBegin(t, c) ==
  /\ object[c] \in {"limbo", "fresh", "open"}
  /\ \A u \in Threads : target[u] # c
  /\ Call(t, "destructor", c)
  /\ object' = [object EXCEPT ![c] = "closing"]
  /\ ownEnd' = IF owner[c] = t THEN ownEnd \cup {c} ELSE ownEnd
  /\ UNCHANGED <<content, owner, holder, connVars, overtaken, poolVars>>

\* A destructor that does not wait for the callbacks in progress.
DestroyNullNoLock(t) ==
  LET c == target[t]
  IN  /\ stage[t] = "destructor"
      /\ object[c] = "closing"
      /\ content' = [content EXCEPT ![c] = FALSE]
      /\ object' = [object EXCEPT ![c] = "nulled"]
      /\ UNCHANGED <<owner, holder, connVars, callVars, historyVars, poolVars>>

\* token = nullptr, under the mutex; recursive, so a callback may do it too.
DestroyNull(t) ==
  LET c == target[t]
  IN  /\ stage[t] = "destructor"
      /\ object[c] = "closing"
      /\ MayLock(t, c)
      /\ content' = [content EXCEPT ![c] = FALSE]
      /\ object' = [object EXCEPT ![c] = "nulled"]
      /\ UNCHANGED <<owner, holder, connVars, callVars, historyVars, poolVars>>

\* A destructor that closes nothing.
DestroyEndSilent(t) ==
  LET c == target[t]
  IN  /\ ReturnFrom(t, "destructor")
      /\ object[c] = "nulled"
      /\ object' = [object EXCEPT ![c] = "gone"]
      /\ UNCHANGED <<content, owner, holder, connVars, historyVars, poolVars>>

\* A client in limbo closes its own descriptor; any other asks the dancer to,
\* unless its identifier is 0.  Then the members go, sharedThis among them.
DestroyEnd(t) ==
  LET c == target[t]
  IN  /\ ReturnFrom(t, "destructor")
      /\ object[c] = "nulled"
      /\ object' = [object EXCEPT ![c] = "gone"]
      /\ closeAsked' = [closeAsked EXCEPT ![c] = node[c] # "none" /\ ~down]
      /\ UNCHANGED <<content, owner, holder, node, errorGiven, removing, down, arrived,
                     historyVars, poolVars>>

-----------------------------------------------------------------------------
(* The dancer: one thread, the only one that pushes jobs of connections.   *)

DancerIdle == removing = NoClient /\ ~down

\* ConnectionAdd.
DancerAdd(c) ==
  /\ DancerIdle
  /\ node[c] = "piped"
  /\ node' = [node EXCEPT ![c] = "polled"]
  /\ UNCHANGED <<object, content, owner, holder, errorGiven, closeAsked, removing,
                 down, arrived, callVars, historyVars, poolVars>>

\* HandleClient reads a message and pushes the data callback with it.
DancerData(c) ==
  /\ DancerIdle
  /\ node[c] = "polled"
  /\ arrived[c] < MaxData
  /\ arrived' = [arrived EXCEPT ![c] = @ + 1]
  /\ Pool!Accept(Job(c, "data", arrived'[c]))
  /\ UNCHANGED <<object, content, owner, holder, node, errorGiven, closeAsked,
                 removing, down, callVars, historyVars>>

\* SocketRemove, asked by ~Client or because the peer closed: the error
\* callback is pushed ...
DancerError(c) ==
  /\ DancerIdle
  /\ node[c] = "polled"
  /\ errorGiven[c]
  /\ Pool!Accept(Job(c, "error", 0))
  /\ removing' = c
  /\ UNCHANGED <<object, content, owner, holder, node, errorGiven, closeAsked,
                 down, arrived, callVars, historyVars>>

\* A removal that forgets to erase the entry.
DancerCleanupKeeps(c) ==
  /\ removing = c
  /\ Pool!Accept(Job(c, "cleanup", 0))
  /\ removing' = NoClient
  /\ closeAsked' = [closeAsked EXCEPT ![c] = FALSE]
  /\ UNCHANGED <<object, content, owner, holder, node, errorGiven, down, arrived,
                 callVars, historyVars>>

\* ... then the cleanup callback, and the entry is erased.
DancerCleanup(c) ==
  /\ removing = c
  /\ Pool!Accept(Job(c, "cleanup", 0))
  /\ node' = [node EXCEPT ![c] = "erased"]
  /\ removing' = NoClient
  /\ closeAsked' = [closeAsked EXCEPT ![c] = FALSE]
  /\ UNCHANGED <<object, content, owner, holder, errorGiven, down, arrived,
                 callVars, historyVars>>

\* Without an error callback neither is pushed.
DancerForget(c) ==
  /\ DancerIdle
  /\ node[c] = "polled"
  /\ ~errorGiven[c]
  /\ node' = [node EXCEPT ![c] = "erased"]
  /\ closeAsked' = [closeAsked EXCEPT ![c] = FALSE]
  /\ UNCHANGED <<object, content, owner, holder, errorGiven, removing, down,
                 arrived, callVars, historyVars, poolVars>>

\* A SocketRemove whose identifier is no longer known.
DancerIgnore(c) ==
  /\ DancerIdle
  /\ node[c] = "erased"
  /\ closeAsked[c]
  /\ closeAsked' = [closeAsked EXCEPT ![c] = FALSE]
  /\ UNCHANGED <<object, content, owner, holder, node, errorGiven, removing, down,
                 arrived, callVars, historyVars, poolVars>>

\* ~Networking closes the pipe and the dancer leaves its loop; the messages
\* still in the pipe are lost with it.
Shutdown ==
  /\ DancerIdle
  /\ down' = TRUE
  /\ closeAsked' = [c \in Clients |-> FALSE]
  /\ UNCHANGED <<object, content, owner, holder, node, errorGiven, removing,
                 arrived, callVars, historyVars, poolVars>>

\* After the loop the dancer runs the cleanup callbacks itself, past the queue.
ShutdownCleanup(c) ==
  /\ down
  /\ node[c] = "polled"
  /\ owner[c] = NoThread
  /\ holder' = [holder EXCEPT ![c] = "freed"]
  /\ node' = [node EXCEPT ![c] = "erased"]
  /\ overtaken' = IF Waiting(c) = {} THEN overtaken ELSE overtaken \cup {c}
  /\ UNCHANGED <<object, content, owner, errorGiven, closeAsked, removing, down,
                 arrived, callVars, ownEnd, poolVars>>

-----------------------------------------------------------------------------
(* The workers.  A job is one of the lambdas of Commence or Connect, or    *)
(* the program's own callback, which Connect passes on.                    *)

Take(w) ==
  /\ Pool!Start(w)
  /\ stage' = [stage EXCEPT ![w] = "begin"]
  /\ UNCHANGED <<object, content, owner, holder, connVars, target, historyVars>>

\* The lambda dereferences sharedCpy and goes for the mutex.
Dereference(w) ==
  /\ stage[w] = "begin"
  /\ Guarded(hand[w])
  /\ stage' = [stage EXCEPT ![w] = "lock"]
  /\ UNCHANGED <<object, content, owner, holder, connVars, target, historyVars, poolVars>>

\* The program's callback, called with no lock.
CallRaw(w) ==
  /\ stage[w] = "begin"
  /\ ~Guarded(hand[w])
  /\ stage' = [stage EXCEPT ![w] = "callback"]
  /\ UNCHANGED <<object, content, owner, holder, connVars, target, historyVars, poolVars>>

\* The job is over.
Finish(w) ==
  /\ Pool!Complete(w)
  /\ stage' = [stage EXCEPT ![w] = "idle"]

\* An error job calls errorCallback through an iterator of the entry it was
\* made for; once the entry is erased that is undefined, and instead of the
\* callback nothing may happen.
ErrorLost(w) ==
  /\ stage[w] = "begin"
  /\ hand[w].kind = "error"
  /\ node[hand[w].client] = "erased"
  /\ Finish(w)
  /\ UNCHANGED <<object, content, owner, holder, connVars, target, historyVars>>

\* The lambda owns the mutex and the client is there: the callback is called.
Enter(w) ==
  LET c == hand[w].client
  IN  /\ stage[w] = "lock"
      /\ hand[w].kind # "cleanup"
      /\ owner[c] = NoThread
      /\ content[c]
      /\ owner' = [owner EXCEPT ![c] = w]
      /\ stage' = [stage EXCEPT ![w] = "callback"]
      /\ UNCHANGED <<object, content, holder, connVars, target, historyVars, poolVars>>

\* The client is gone: the lambda does nothing.
Skip(w) ==
  LET c == hand[w].client
  IN  /\ stage[w] = "lock"
      /\ hand[w].kind # "cleanup"
      /\ owner[c] = NoThread
      /\ ~content[c]
      /\ Finish(w)
      /\ UNCHANGED <<object, content, owner, holder, connVars, target, historyVars>>

\* A callback that leaves the mutex locked.
ReturnKeepsMutex(w) ==
  /\ stage[w] = "callback"
  /\ ownEnd' = ownEnd \ {hand[w].client}
  /\ Finish(w)
  /\ UNCHANGED <<object, content, owner, holder, connVars, target, overtaken>>

Return(w) ==
  LET c == hand[w].client
  IN  /\ stage[w] = "callback"
      /\ owner' = IF owner[c] = w THEN [owner EXCEPT ![c] = NoThread] ELSE owner
      /\ ownEnd' = ownEnd \ {c}
      /\ Finish(w)
      /\ UNCHANGED <<object, content, holder, connVars, target, overtaken>>

\* A cleanup lambda that does not wait for the callback in progress.
CleanupLockNoWait(w) ==
  LET c == hand[w].client
  IN  /\ stage[w] = "lock"
      /\ hand[w].kind = "cleanup"
      /\ overtaken' = IF Waiting(c) = {hand[w]} THEN overtaken ELSE overtaken \cup {c}
      /\ stage' = [stage EXCEPT ![w] = "delete"]
      /\ UNCHANGED <<object, content, owner, holder, connVars, target, ownEnd, poolVars>>

\* The cleanup lambda has had the mutex ...
CleanupLock(w) ==
  LET c == hand[w].client
  IN  /\ stage[w] = "lock"
      /\ hand[w].kind = "cleanup"
      /\ owner[c] = NoThread
      /\ overtaken' = IF Waiting(c) = {hand[w]} THEN overtaken ELSE overtaken \cup {c}
      /\ stage' = [stage EXCEPT ![w] = "delete"]
      /\ UNCHANGED <<object, content, owner, holder, connVars, target, ownEnd, poolVars>>

\* ... and deletes sharedCpy.
CleanupDelete(w) ==
  /\ stage[w] = "delete"
  /\ holder' = [holder EXCEPT ![hand[w].client] = "freed"]
  /\ Finish(w)
  /\ UNCHANGED <<object, content, owner, connVars, target, historyVars>>

-----------------------------------------------------------------------------

WorkerStep(w) ==
  \/ Take(w) \/ Dereference(w) \/ CallRaw(w) \/ ErrorLost(w) \/ Enter(w) \/ Skip(w)
  \/ Return(w) \/ CleanupLock(w) \/ CleanupDelete(w)

ProgramStep(t, c) == SendBegin(t, c) \/ ConnectBegin(t, c) \/ DestroyBegin(t, c)

CallStep(t) ==
  \/ SendEnd(t) \/ ConnectRefused(t)
  \/ \E error \in BOOLEAN : ConnectLock(t, error)
  \/ ConnectFail(t) \/ ConnectPipe(t) \/ ConnectReturn(t)
  \/ DestroyNull(t) \/ DestroyEnd(t)

DancerStep(c) ==
  \/ DancerAdd(c) \/ DancerData(c) \/ DancerError(c) \/ DancerCleanup(c)
  \/ DancerForget(c) \/ DancerIgnore(c) \/ ShutdownCleanup(c)

Next ==
  \/ \E c \in Clients : Commence(c) \/ DancerStep(c)
  \/ \E t \in Threads, c \in Clients : ProgramStep(t, c)
  \/ \E t \in Threads : CallStep(t)
  \/ \E w \in Workers : WorkerStep(w)
  \/ Shutdown

Spec == Init /\ [][Next]_vars

-----------------------------------------------------------------------------
(* The copy of the shared pointer.                                         *)

\* "Because the queue is fifo and because of the mutex of the variable, this can be
\* used to ensure that all queued functions get to finish" (client.hpp:38): while a job
\* that will go through sharedCpy is in the queue or in a worker's hand, sharedCpy is
\* there, at least until the pipe is closed.  It is not: another worker may be given
\* the cleanup job and have done with it before this one dereferences sharedCpy.
Ahead == Range(pending) \cup {hand[w] : w \in {x \in Workers : stage[x] = "begin"}}

SharedCopyOutlivesJobs ==
  ~down => \A j \in Ahead : Guarded(j) => holder[j.client] = "live"

\* What remains of "when this reaches the front of the queue, all callbacks on this
\* class are either done or in progress" (client.cpp:77), for any number of workers:
\* as long as the pipe is open sharedCpy is there for every job that is still in the
\* queue, and always it is there for the cleanup job, which deletes it once.
SharedCopyOutlivesQueue ==
  /\ ~down => \A j \in Range(pending) : Guarded(j) => holder[j.client] = "live"
  /\ \A j \in Range(pending) \cup (Range(hand) \ {NoJob}) :
       j.kind = "cleanup" => holder[j.client] = "live"

\* The threads that wait for or own the mutex of c's GuardedVar, or are about to use it.
TokenHolders(c) ==
  {w \in Workers : /\ stage[w] \notin {"idle", "begin"}
                   /\ hand[w].client = c /\ Guarded(hand[w])}
    \cup {t \in Threads : target[t] = c}

\* "If we wait until we can lock, we should be good.  This may still be capable of
\* breakage if two threads start simultaneously" (client.cpp:78): a lambda finds
\* sharedCpy, and the GuardedVar, which goes with the last of sharedThis and *sharedCpy,
\* stays until whoever wants or has its mutex is through, also when the callback
\* destroys its own client - unless the cleanup did not wait: a job of the same
\* connection was in the queue or had not had the mutex yet when the cleanup lambda had
\* it (client.cpp:79), or when the dancer called that lambda itself at the end
\* (networking.cpp:253).  Nothing else, with any number of workers, is a breakage.
GuardedVarOutlivesTokens ==
  \A c \in Clients \ overtaken :
    /\ \A w \in Workers :
         stage[w] = "begin" /\ hand[w].client = c /\ Guarded(hand[w]) => holder[c] = "live"
    /\ TokenHolders(c) # {} => object[c] # "gone" \/ holder[c] = "live"

\* "When the connection is finally destroyed by the polldancer, a cleanup is queued in
\* which a dangling copy of this shared_ptr is deconstructed" (client.hpp:37): as long as
\* the pipe is open, a destroyed client whose copy is still there has its removal on the
\* way: in the pipe, at the dancer, or in the pool.  (One of Connect need not, without
\* an error callback.)
AcceptedCopyAccounted ==
  ~down =>
    \A c \in Accepted :
      object[c] = "gone" /\ holder[c] = "live" =>
        \/ closeAsked[c] \/ removing = c
        \/ Job(c, "cleanup", 0) \in Range(pending) \cup Range(hand)

-----------------------------------------------------------------------------
(* The mutex of the GuardedVar.                                            *)

\* "Upon class instance deconstruction, the content of the guarded pointer is set
\* to nullptr, signifying to callbacks that they need to fail" (client.hpp:36):
\* a callback runs under the mutex, two callbacks of a client never run at
\* once, and none runs once ~Client is past its lock, unless the callback
\* itself is what destroys the client.
CallbacksOf(S) == {w \in Workers : stage[w] = "callback" /\ hand[w].client \in S}

AcceptedCallbacksGuarded ==
  \A w \in CallbacksOf(Accepted) :
    LET c == hand[w].client
    IN  owner[c] = w /\ (content[c] \/ c \in ownEnd)

\* The same of the clients the program connects: "All callbacks from deeper down
\* lock this before going" (client.hpp:33).
ConnectedCallbacksGuarded ==
  \A w \in CallbacksOf(Outgoing) : owner[hand[w].client] = w

\* The clients whose mutex a thread stands at: that of its job, or of the client
\* it sends on, connects or destroys.
Wants(t) ==
  {c \in Clients : \/ t \in Workers /\ stage[t] = "lock" /\ hand[t].client = c
                   \/ stage[t] \in {"send", "connect"} /\ target[t] = c
                   \/ stage[t] = "destructor" /\ target[t] = c /\ object[c] = "closing"}

WaitsFor(t, u) == \E c \in Wants(t) : owner[c] = u /\ u # t

\* Whoever waits for a mutex while another waits for one of its own is a callback of an
\* accepted client, which the lambda calls under the mutex (client.cpp:61), in a Send, a
\* Connect or the destructor of another client: two such callbacks that call each
\* other's client wait for ever, and of nothing else can a circular wait be made, with
\* any number of workers.
OnlyCallbacksBlock ==
  \A t, u, v \in Threads :
    WaitsFor(t, u) /\ WaitsFor(u, v) =>
      /\ u \in Workers /\ stage[u] \in {"send", "connect", "destructor"}
      /\ hand[u].client \in Accepted \ {target[u]}
      /\ owner[hand[u].client] = u /\ owner[target[u]] = v

=============================================================================
