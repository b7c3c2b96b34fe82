----------------------------- MODULE Networking -----------------------------
(***************************************************************************)
(* The poll dancer of networking/networking.{hpp,cpp}: the one thread that *)
(* polls every socket, owns the maps listeners and clients, and pushes the *)
(* callbacks on the thread pool; and the program's threads, which open     *)
(* sockets, number them and talk to the dancer through a pipe.             *)
(*                                                                         *)
(* A socket is known to the kernel by a descriptor, which is free for the  *)
(* next socket once closed, to the dancer by that descriptor, and to the   *)
(* program by an identifier, which the objects keep in an int (Client) or  *)
(* an unsigned int (Listener).                                             *)
(***************************************************************************)
EXTENDS Integers, SequencesExt

CONSTANTS
  Listeners,  \* the calls of Networking::Listen there may be
  Accepted,   \* the connections peers make to them
  Outgoing,   \* the calls of ConnectTCP there may be
  Silent,     \* those of them with no error callback
  Fds,        \* the descriptors the kernel may give out, a set of numbers
  MaxData,    \* messages received per connection: a bound of the model
  MaxSends,   \* calls of Send: a bound of the model
  IdRange,    \* 2^64, how many values a uint64_t has
  IntRange,   \* 2^32, how many values an int has
  NoSocket

Conns == Accepted \cup Outgoing
Sockets == Listeners \cup Conns

ASSUME NetworkingAssumption ==
  /\ Listeners \cap Conns = {} /\ Accepted \cap Outgoing = {}
  /\ NoSocket \notin Sockets
  /\ Silent \subseteq Outgoing
  /\ Fds \subseteq Nat \ {0}
  /\ MaxData \in Nat /\ MaxSends \in Nat
  /\ IdRange \in Nat /\ IntRange \in Nat /\ 2 < IntRange /\ IntRange < IdRange

VARIABLES
  identifier, \* the static counter of GetIdentifier
  register,   \* the value a GetIdentifier in progress has read
  ident,      \* the identifier each socket got, 0 before
  step,       \* how far the program (or accept) is with each socket
  fdOf,       \* the descriptor in a local variable or in limboState
  open,       \* the kernel's table: the socket behind each descriptor
  pipe,       \* the messages in the pipe
  writable,   \* pipe_fds[1] is open
  finishing,  \* FinishUp of msgThreadpool has begun: Push refuses
  listeners, clients, \* the dancer's maps, from descriptors
  phase,      \* where the dancer is in its loop
  todo,       \* the descriptors polled it has not come to yet
  pipeData,   \* the messages it has taken from the pipe, and its own
  cleanup,    \* its local flag
  jobs,       \* the jobs pushed for each socket (history)
  sends,      \* how many calls of Send there have been
  wire        \* what was sent on each connection (history)

idVars == <<identifier, register, ident>>
kernelVars == <<fdOf, open, pipe, writable, finishing>>
mapVars == <<listeners, clients>>
loopVars == <<phase, todo, pipeData, cleanup>>
histVars == <<jobs, sends, wire>>
vars == <<idVars, step, kernelVars, mapVars, loopVars, histVars>>

Message(msg, s, id, fd, n) == [msg |-> msg, sock |-> s, id |-> id, fd |-> fd, n |-> n]

Messages ==
  [msg : {"ListenerAdd", "ConnectionAdd", "SocketRemove", "ConnectionQueueData"},
   sock : Sockets, id : 0 .. IdRange - 1, fd : Fds \cup {0}, n : 0 .. MaxSends]

Buffers == [sock : Conns, n : 1 .. MaxSends]

\* The state the dancer keeps of a socket, beside its callbacks.
Entry(m) == [sock |-> m.sock, id |-> m.id, sendBufs |-> <<>>]
Entries(socks) == [sock : socks, id : 0 .. IdRange - 1, sendBufs : Seq(Buffers)]

\* What the maps, the pipe and the history hold.
TypeOK ==
  /\ identifier \in 0 .. IdRange - 1
  /\ register \in [Sockets -> 0 .. IdRange - 1]
  /\ ident \in [Sockets -> 0 .. IdRange - 1]
  /\ step \in [Sockets -> {"new", "bound", "numbering", "numbered", "limbo",
                           "open", "gone", "failed", "astray"}]
  /\ fdOf \in [Sockets -> Fds \cup {0}]
  /\ open \in [Fds -> Sockets \cup {NoSocket}]
  /\ pipe \in Seq(Messages) /\ pipeData \in Seq(Messages)
  /\ {writable, finishing, cleanup} \subseteq BOOLEAN
  /\ DOMAIN listeners \subseteq Fds /\ DOMAIN clients \subseteq Fds
  /\ \A f \in DOMAIN listeners : listeners[f] \in Entries(Listeners)
  /\ \A f \in DOMAIN clients : clients[f] \in Entries(Conns)
  /\ phase \in {"poll", "pipe", "handle", "final", "ended"}
  /\ todo \subseteq Fds
  /\ jobs \in [Sockets -> Seq({"client", "data", "error", "cleanup", "final"})]
  /\ sends \in 0 .. MaxSends
  /\ wire \in [Conns -> Seq(Buffers)]

Init ==
  /\ identifier = 0
  /\ register = [s \in Sockets |-> 0]
  /\ ident = [s \in Sockets |-> 0]
  /\ step = [s \in Sockets |-> "new"]
  /\ fdOf = [s \in Sockets |-> 0]
  /\ open = [f \in Fds |-> NoSocket]
  /\ pipe = <<>> /\ pipeData = <<>>
  /\ writable = TRUE /\ finishing = FALSE /\ cleanup = FALSE
  /\ listeners = <<>> /\ clients = <<>>
  /\ phase = "poll"
  /\ todo = {}
  /\ jobs = [s \in Sockets |-> <<>>]
  /\ sends = 0
  /\ wire = [c \in Conns |-> <<>>]

-----------------------------------------------------------------------------
(* The kernel.  A new socket gets the lowest free descriptor.              *)

FreeFds == {f \in Fds : open[f] = NoSocket}

OpenFd(s) ==
  /\ FreeFds # {}
  /\ open' = [open EXCEPT ![Min(FreeFds)] = s]
  /\ fdOf' = [fdOf EXCEPT ![s] = Min(FreeFds)]

\* A write of one message, which the pipe keeps whole.  Nothing arrives once
\* either end is closed, and nobody looks at what write returns.
Readable == writable /\ phase # "ended"
Write(m) == pipe' = IF Readable THEN Append(pipe, m) ELSE pipe

-----------------------------------------------------------------------------
(* GetIdentifier.  The static counter is neither locked nor atomic, and    *)
(* the program's threads and the dancer (for the connections it accepts)   *)
(* call it: it is read and written in two steps.                           *)

Successor(n) == IF (n + 1) % IdRange = 0 THEN 1 ELSE n + 1

ReadIdentifier(s) ==
  /\ step[s] = "bound"
  /\ register' = [register EXCEPT ![s] = identifier]
  /\ step' = [step EXCEPT ![s] = "numbering"]
  /\ UNCHANGED <<identifier, ident, kernelVars, mapVars, loopVars, histVars>>

WriteIdentifier(s) ==
  /\ step[s] = "numbering"
  /\ identifier' = Successor(register[s])
  /\ ident' = [ident EXCEPT ![s] = Successor(register[s])]
  /\ register' = [register EXCEPT ![s] = 0]
  /\ step' = [step EXCEPT ![s] = "numbered"]
  /\ UNCHANGED <<kernelVars, mapVars, loopVars, histVars>>

\* The identifier as the object keeps it, in an int (Client) or an unsigned int
\* (Listener), converted back to the uint64_t of a message.
Kept(s) ==
  LET low == ident[s] % IntRange
  IN  IF s \in Listeners \/ low < IntRange \div 2 THEN low ELSE IdRange - IntRange + low

-----------------------------------------------------------------------------
(* The program's calls.                                                    *)

\* socket(), connect and bind in ConnectTCP and in Listen.  When the first fails,
\* nothing has happened.  No such call begins in a program that is exiting.
Socket(s) ==
  /\ s \in Outgoing \cup Listeners
  /\ step[s] = "new" /\ writable
  /\ OpenFd(s)
  /\ step' = [step EXCEPT ![s] = "bound"]
  /\ UNCHANGED <<idVars, pipe, writable, finishing, mapVars, loopVars, histVars>>

\* connect or bind fails, or the name is unknown: 0 is returned, and the
\* descriptor stays open.
SocketFails(s) ==
  /\ s \in Outgoing \cup Listeners
  /\ step[s] = "new" /\ writable
  /\ OpenFd(s)
  /\ step' = [step EXCEPT ![s] = "failed"]
  /\ UNCHANGED <<idVars, pipe, writable, finishing, mapVars, loopVars, histVars>>

\* The message that gives a socket to the dancer: at the end of ConnectTCP and
\* Listen, and in Commence of an accepted client, which ends its limbo.
Add(s) ==
  /\ step[s] = IF s \in Accepted THEN "limbo" ELSE "numbered"
  /\ step' = [step EXCEPT ![s] = IF Readable THEN "open" ELSE "astray"]
  /\ Write(Message(IF s \in Listeners THEN "ListenerAdd" ELSE "ConnectionAdd",
                   s, ident[s], fdOf[s], 0))
  /\ UNCHANGED <<idVars, fdOf, open, writable, finishing, mapVars, loopVars, histVars>>

\* Client::Send.  Its mutex, the client's own, is in Client (SendBegin, SendEnd): for
\* the dancer a message is in the pipe at once, and one client's come one by one.
Send(c) ==
  /\ step[c] = "open"
  /\ sends < MaxSends
  /\ sends' = sends + 1
  /\ Write(Message("ConnectionQueueData", c, Kept(c), 0, sends'))
  /\ UNCHANGED <<idVars, step, fdOf, open, writable, finishing, mapVars, loopVars, jobs, wire>>

\* ~Client that closes the descriptor whether or not it is still in limbo.
CloseDirect(s) ==
  /\ step[s] = "open"
  /\ step' = [step EXCEPT ![s] = "gone"]
  /\ open' = [open EXCEPT ![fdOf[s]] = NoSocket]
  /\ Write(Message("SocketRemove", s, Kept(s), 0, 0))
  /\ UNCHANGED <<idVars, fdOf, writable, finishing, mapVars, loopVars, histVars>>

\* ~Client that forgets its identifier before it signals.
CloseSilent(s) ==
  /\ step[s] = "open"
  /\ step' = [step EXCEPT ![s] = "gone"]
  /\ UNCHANGED <<idVars, kernelVars, mapVars, loopVars, histVars>>

\* ~Client and Listener::Stop: SignalCloseSocket, which ignores identifier 0.
Close(s) ==
  /\ step[s] = "open"
  /\ step' = [step EXCEPT ![s] = "gone"]
  /\ \/ Kept(s) # 0 /\ Write(Message("SocketRemove", s, Kept(s), 0, 0))
     \/ Kept(s) = 0 /\ UNCHANGED pipe
  /\ UNCHANGED <<idVars, fdOf, open, writable, finishing, mapVars, loopVars, histVars>>

\* ~Client of a client still in limbo, which closes the descriptor itself.
CloseLimbo(c) ==
  /\ step[c] = "limbo"
  /\ step' = [step EXCEPT ![c] = "failed"]
  /\ open' = [open EXCEPT ![fdOf[c]] = NoSocket]
  /\ UNCHANGED <<idVars, fdOf, pipe, writable, finishing, mapVars, loopVars, histVars>>

\* Cleanup, from ~Networking: the pipe is closed, then the pool finished up.
ClosePipe ==
  /\ writable
  /\ writable' = FALSE
  /\ UNCHANGED <<idVars, step, fdOf, open, pipe, finishing, mapVars, loopVars, histVars>>

FinishUp ==
  /\ ~writable /\ ~finishing
  /\ finishing' = TRUE
  /\ UNCHANGED <<idVars, step, fdOf, open, pipe, writable, mapVars, loopVars, histVars>>

-----------------------------------------------------------------------------
(* The dancer.                                                             *)

\* msgThreadpool.Push of the jobs of a socket, its result ignored.
Push(s, seq) == jobs' = IF finishing THEN jobs ELSE [jobs EXCEPT ![s] = @ \o seq]

\* The pfds are built from the maps, and poll returns.  Whether a socket has events
\* is left open until the loop comes to it; the pipe has if it can be read.
Poll ==
  /\ phase = "poll"
  /\ LET piped == pipe # <<>> \/ ~writable
     IN  /\ piped \/ DOMAIN listeners \cup DOMAIN clients # {}
         /\ phase' = IF piped THEN "pipe" ELSE "handle"
         /\ todo' = DOMAIN listeners \cup DOMAIN clients
  /\ UNCHANGED <<idVars, step, kernelVars, mapVars, pipeData, cleanup, histVars>>

\* poll returns -1, because of a signal for example.
PollFails ==
  /\ phase = "poll"
  /\ phase' = "final"
  /\ cleanup' = TRUE
  /\ UNCHANGED <<idVars, step, kernelVars, mapVars, todo, pipeData, histVars>>

\* HandlePipe takes every message there is; none means that the pipe is closed.
HandlePipe ==
  /\ phase = "pipe"
  /\ phase' = "handle"
  /\ cleanup' = (pipe = <<>>)
  /\ pipeData' = pipe
  /\ pipe' = <<>>
  /\ UNCHANGED <<idVars, step, fdOf, open, writable, finishing, mapVars, todo, histVars>>

\* The socket accept has returned, until its client is pushed.
Accepting == {s \in Accepted : step[s] \in {"bound", "numbering", "numbered"}}

\* The pfds are gone through in the order they were built: the listeners first,
\* then the clients, each map in the order of its descriptors.
Due == LET ls == todo \cap DOMAIN listeners
       IN  Min(IF ls # {} THEN ls ELSE todo)

Handling(f) == phase = "handle" /\ Accepting = {} /\ todo # {} /\ f = Due

\* The SocketRemove the dancer sends itself.
Removal(entry) == Message("SocketRemove", entry.sock, entry.id, 0, 0)

\* HandleListener: accept, then GetIdentifier ...
HandleListener(f, s) ==
  /\ Handling(f) /\ f \in DOMAIN listeners
  /\ step[s] = "new"
  /\ OpenFd(s)
  /\ step' = [step EXCEPT ![s] = "bound"]
  /\ UNCHANGED <<idVars, pipe, writable, finishing, mapVars, loopVars, histVars>>

\* ... and the client in limbo is pushed with the listener's callback; a job that
\* is refused takes the only reference to it along, and ~Client closes it.
PushClient(s) ==
  /\ s \in Accepting /\ step[s] = "numbered"
  /\ step' = [step EXCEPT ![s] = IF finishing THEN "failed" ELSE "limbo"]
  /\ open' = [open EXCEPT ![fdOf[s]] = IF finishing THEN NoSocket ELSE @]
  /\ Push(listeners[Due].sock, <<"client">>)
  /\ todo' = todo \ {Due}
  /\ UNCHANGED <<idVars, fdOf, pipe, writable, finishing, mapVars, phase, pipeData, cleanup,
                 sends, wire>>

\* accept fails: the listener is to be removed.
AcceptFails(f) ==
  /\ Handling(f) /\ f \in DOMAIN listeners
  /\ pipeData' = Append(pipeData, Removal(listeners[f]))
  /\ todo' = todo \ {f}
  /\ UNCHANGED <<idVars, step, kernelVars, mapVars, phase, cleanup, histVars>>

\* No events, or none that is POLLIN.
SkipListener(f) ==
  /\ Handling(f) /\ f \in DOMAIN listeners
  /\ todo' = todo \ {f}
  /\ UNCHANGED <<idVars, step, kernelVars, mapVars, phase, pipeData, cleanup, histVars>>

Received(c) == Cardinality({i \in DOMAIN jobs[c] : jobs[c][i] = "data"})

\* HandleClient that leaves the buffers it has sent in sendBufs when send stops.
HandleClientResends(f, in, k, ok) ==
  LET e == clients[f]
      n == Len(e.sendBufs)
  IN  /\ Handling(f) /\ f \in DOMAIN clients
      /\ k <= n /\ (k = n => ok)
      /\ in = "closed" => k = 0 /\ ~ok
      /\ in = "data" => Received(e.sock) < MaxData
      /\ Push(e.sock, IF in = "data" THEN <<"data">> ELSE <<>>)
      /\ clients' = [clients EXCEPT ![f].sendBufs = IF k = n THEN <<>> ELSE @]
      /\ wire' = [wire EXCEPT ![e.sock] = @ \o SubSeq(e.sendBufs, 1, k)]
      /\ pipeData' = IF ok THEN pipeData ELSE Append(pipeData, Removal(e))
      /\ todo' = todo \ {f}
      /\ UNCHANGED <<idVars, step, kernelVars, listeners, phase, cleanup, sends>>

\* HandleClient: data has come in, or the peer has closed (nothing else is looked
\* at then), or there is nothing to read; and k of the buffers are sent, all of
\* them, or those before send fails.  It returns ok: false when the peer has closed
\* and when send has failed, but not if it would only have blocked.
HandleClient(f, in, k, ok) ==
  LET e == clients[f]
      n == Len(e.sendBufs)
  IN  /\ Handling(f) /\ f \in DOMAIN clients
      /\ IF in = "closed" THEN k = 0 /\ ~ok ELSE k <= n /\ (k = n => ok)
      /\ in = "data" => Received(e.sock) < MaxData
      /\ Push(e.sock, IF in = "data" THEN <<"data">> ELSE <<>>)
      /\ clients' = [clients EXCEPT ![f].sendBufs = SubSeq(@, k + 1, n)]
      /\ wire' = [wire EXCEPT ![e.sock] = @ \o SubSeq(e.sendBufs, 1, k)]
      /\ pipeData' = IF ok THEN pipeData ELSE Append(pipeData, Removal(e))
      /\ todo' = todo \ {f}
      /\ UNCHANGED <<idVars, step, kernelVars, listeners, phase, cleanup, sends>>

-----------------------------------------------------------------------------
(* Once every event is handled, what was piped is applied, in order.       *)

Handled == phase = "handle" /\ Accepting = {} /\ todo = {}
Applying(msg) == Handled /\ pipeData # <<>> /\ Head(pipeData).msg = msg

\* m[f] = e of a std::map.
Set(m, f, e) == [g \in DOMAIN m \cup {f} |-> IF g = f THEN e ELSE m[g]]

\* A search that stops at the first entry, whatever its identifier.
MatchingAny(m, id) == DOMAIN m

\* The entries of a map with an identifier; the loops take the first.
Matching(m, id) == {f \in DOMAIN m : m[f].id = id}

ApplyListenerAdd ==
  /\ Applying("ListenerAdd")
  /\ listeners' = Set(listeners, Head(pipeData).fd, Entry(Head(pipeData)))
  /\ pipeData' = Tail(pipeData)
  /\ UNCHANGED <<idVars, step, kernelVars, clients, phase, todo, cleanup, histVars>>

ApplyConnectionAdd ==
  /\ Applying("ConnectionAdd")
  /\ clients' = Set(clients, Head(pipeData).fd, Entry(Head(pipeData)))
  /\ pipeData' = Tail(pipeData)
  /\ UNCHANGED <<idVars, step, kernelVars, listeners, phase, todo, cleanup, histVars>>

\* The jobs of a socket that is removed: none without an error callback.
LastJobs(s) == IF s \in Silent THEN <<>> ELSE <<"error", "cleanup">>

\* SocketRemove that closes the descriptor and leaves the entry in the map.
RemoveKeepsEntry(m, f) ==
  /\ Push(m[f].sock, LastJobs(m[f].sock))
  /\ open' = [open EXCEPT ![f] = NoSocket]
  /\ UNCHANGED mapVars

\* The callbacks are pushed, the descriptor closed and the entry erased (from the
\* one map it is in, SocketAccounting).
Unregister(m, f) ==
  /\ Push(m[f].sock, LastJobs(m[f].sock))
  /\ open' = [open EXCEPT ![f] = NoSocket]
  /\ listeners' = Restrict(listeners, DOMAIN listeners \ {f})
  /\ clients' = Restrict(clients, DOMAIN clients \ {f})

\* SocketRemove is for the listener with the identifier, and else for the client.
ApplySocketRemove ==
  /\ Applying("SocketRemove")
  /\ LET id == Head(pipeData).id
         ls == Matching(listeners, id)
         cs == Matching(clients, id)
     IN  \/ ls # {} /\ Unregister(listeners, Min(ls))
         \/ ls = {} /\ cs # {} /\ Unregister(clients, Min(cs))
         \/ ls \cup cs = {} /\ UNCHANGED <<open, mapVars, jobs>>
  /\ pipeData' = Tail(pipeData)
  /\ UNCHANGED <<idVars, step, fdOf, pipe, writable, finishing, phase, todo, cleanup, sends, wire>>

\* ConnectionQueueData: without a client of that identifier, the data is dropped.
ApplyQueueData ==
  /\ Applying("ConnectionQueueData")
  /\ LET m == Head(pipeData)
         cs == Matching(clients, m.id)
     IN  clients' = IF cs = {} THEN clients
                    ELSE [clients EXCEPT ![Min(cs)].sendBufs =
                            Append(@, [sock |-> m.sock, n |-> m.n])]
  /\ pipeData' = Tail(pipeData)
  /\ UNCHANGED <<idVars, step, kernelVars, listeners, phase, todo, cleanup, histVars>>

ApplyDone ==
  /\ Handled /\ pipeData = <<>>
  /\ phase' = IF cleanup THEN "final" ELSE "poll"
  /\ UNCHANGED <<idVars, step, kernelVars, mapVars, todo, pipeData, cleanup, histVars>>

\* After the loop, everything in the maps is closed, and its cleanup callback
\* called here and now.
Final ==
  LET entries == {listeners[f].sock : f \in DOMAIN listeners}
                   \cup {clients[f].sock : f \in DOMAIN clients}
  IN  /\ phase = "final"
      /\ phase' = "ended"
      /\ open' = [f \in Fds |-> IF f \in DOMAIN listeners \cup DOMAIN clients
                                THEN NoSocket ELSE open[f]]
      /\ jobs' = [s \in Sockets |-> IF s \in entries THEN Append(jobs[s], "final")
                                    ELSE jobs[s]]
      /\ listeners' = <<>> /\ clients' = <<>>
      /\ UNCHANGED <<idVars, step, fdOf, pipe, writable, finishing, todo, pipeData, cleanup,
                     sends, wire>>

-----------------------------------------------------------------------------

Program ==
  \/ \E s \in Sockets : Socket(s) \/ SocketFails(s) \/ Add(s) \/ Close(s)
  \/ \E s \in Outgoing \cup Listeners : ReadIdentifier(s) \/ WriteIdentifier(s)
  \/ \E c \in Conns : Send(c)
  \/ \E c \in Accepted : CloseLimbo(c)
  \/ ClosePipe \/ FinishUp

Dancer ==
  \/ Poll \/ PollFails \/ HandlePipe
  \/ \E f \in Fds : \/ \E s \in Accepted : HandleListener(f, s)
                    \/ AcceptFails(f) \/ SkipListener(f)
                    \/ \E in \in {"none", "data", "closed"}, k \in 0 .. MaxSends,
                          ok \in BOOLEAN : HandleClient(f, in, k, ok)
  \/ \E s \in Accepted : ReadIdentifier(s) \/ WriteIdentifier(s) \/ PushClient(s)
  \/ ApplyListenerAdd \/ ApplyConnectionAdd \/ ApplySocketRemove \/ ApplyQueueData
  \/ ApplyDone \/ Final

Next == Program \/ Dancer

Spec == Init /\ [][Next]_vars

\* The dancer has a thread of its own, and no call it makes waits for the program
\* (a send to a peer that reads is taken to end).
FairSpec == Spec /\ WF_vars(Dancer)

-----------------------------------------------------------------------------
(* Properties.                                                             *)

\* A socket's descriptor still is its own.
IsOpen(s) == \E f \in Fds : f = fdOf[s] /\ open[f] = s

\* No two sockets get the same identifier, which GetIdentifier only expects of an
\* overflow.  Once two have, it stays so.
UniqueIds ==
  \A s, t \in Sockets : s # t /\ ident[s] # 0 => ident[s] # ident[t]

\* A socket the program has given away is in one place: in an Add that the dancer
\* has not applied, or in a map under its own descriptor, or closed.  It is not
\* in two, its descriptor is never closed behind the dancer's back and reused
\* while an entry still stands for it, and it is never just forgotten.
SocketAccounting ==
  \A s \in Sockets : step[s] \in {"open", "gone"} =>
    LET adds == Cardinality({i \in DOMAIN pipe : pipe[i].sock = s /\ pipe[i].fd # 0})
                  + Cardinality({i \in DOMAIN pipeData : pipeData[i].sock = s /\ pipeData[i].fd # 0})
        entries == Cardinality({f \in DOMAIN listeners : listeners[f].sock = s})
                     + Cardinality({f \in DOMAIN clients : clients[f].sock = s})
        closed == IF IsOpen(s) THEN 0 ELSE 1
    IN  /\ adds + entries + closed = 1
        /\ \A f \in DOMAIN listeners : listeners[f].sock = s => f = fdOf[s]
        /\ \A f \in DOMAIN clients : clients[f].sock = s => f = fdOf[s]

\* Once the dancer has closed a socket, its cleanup has been pushed, or made at
\* the end, exactly once and after every other callback of it: unless it has no
\* error callback, or the pool refused the job.
CleanupOnceAndLast ==
  \A s \in Sockets :
    LET ends == {i \in DOMAIN jobs[s] : jobs[s][i] \in {"cleanup", "final"}}
    IN  /\ ends \subseteq {Len(jobs[s])}
        /\ step[s] \in {"open", "gone"} /\ s \notin Silent /\ ~finishing
             => (ends # {} <=> ~IsOpen(s))

\* While identifiers are unique, a connection carries only what was sent on its own
\* client, though descriptors are reused and the entries are found by identifier.
SentOnItsOwn ==
  UniqueIds => \A c \in Conns : \A i \in DOMAIN wire[c] : wire[c][i].sock = c

\* What goes out on a connection goes out in the order of the calls of Send, and
\* nothing twice, though a send may stop between two buffers.
SentInOrder ==
  \A c \in Conns : \A j \in DOMAIN wire[c] : \A i \in 1 .. j - 1 :
    wire[c][i].n < wire[c][j].n

\* While identifiers are unique, a SocketRemove takes no socket away but the one
\* it was sent for, though descriptors are reused meanwhile.
RemoveHitsItsOwn ==
  [][UniqueIds /\ Handled =>
       \A s \in Sockets :
         step[s] \in {"open", "gone"} /\ IsOpen(s) /\ ~IsOpen(s)'
           => s = Head(pipeData).sock]_vars

\* What Connections knows of a connection: whether its descriptor still is its own and
\* the program has its client; and what was sent on it, wherever it waits: in a message
\* with its identifier, or in the sendBufs of its entry.
StateOf(c) ==
  CASE step[c] = "open" -> IF IsOpen(c) THEN "open" ELSE "lost"
    [] step[c] = "gone" -> IF IsOpen(c) THEN "left" ELSE "closed"
    [] OTHER -> "new"

Waiting(c, queue) ==
  {[sock |-> c, n |-> queue[i].n] : i \in
     {i \in DOMAIN queue : /\ queue[i].msg = "ConnectionQueueData"
                           /\ queue[i].sock = c /\ queue[i].id = ident[c]}}

BufferOf(c) ==
  IF StateOf(c) \notin {"open", "left"} THEN {}
  ELSE Waiting(c, pipe) \cup Waiting(c, pipeData)
         \cup UNION {Range(clients[f].sendBufs) : f \in {f \in DOMAIN clients : clients[f].sock = c}}

Connection == INSTANCE Connections WITH
  state <- [c \in Conns |-> StateOf(c)], buffer <- [c \in Conns |-> BufferOf(c)],
  jobs <- [c \in Conns |-> jobs[c]], reachable <- Readable, refusing <- finishing

\* While identifiers are unique, the dancer with its pipe and its maps is a channel for
\* each connection: whatever descriptors are reused, whatever the pipe holds and wherever
\* a send stops, what a connected client was given to send is kept until its connection
\* ends, the next data out is the oldest, and a callback is its own connection's.
ImplementsConnections ==
  Connection!Init /\ [][UniqueIds => Connection!Next]_(Connection!vars)

\* While identifiers are unique, a socket the program has closed does get closed,
\* or the dancer ends.
ClosedSocketsLeave ==
  []UniqueIds => \A s \in Sockets :
                   step[s] = "gone" ~> (~IsOpen(s) \/ phase = "ended")

=============================================================================
