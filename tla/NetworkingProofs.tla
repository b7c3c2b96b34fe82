--------------------------- MODULE NetworkingProofs ---------------------------
(***************************************************************************)
(* What TLAPS proves about Networking, for any sockets, descriptors and    *)
(* bounds.                                                                 *)
(*                                                                         *)
(* BaseInv follows a socket from the kernel through the pipe to the        *)
(* dancer's maps: a descriptor that is open belongs to the socket that has *)
(* it (KernelInv), the messages of a queue are of sockets given away, each *)
(* added once and not yet in a map (QueueInv), the entries stand for the   *)
(* socket behind their descriptor and nothing given away and open is in no *)
(* place at all (PlaceInv), and the dancer, between accept and the push of *)
(* the client, is at a listener (DancerInv).  It gives the type invariant  *)
(* and the accounting of sockets.  On top of it JobsInv counts the last    *)
(* callbacks of a socket, OrderInv orders the buffers on their way from    *)
(* Send to the wire, and NumberInv, OwnMessages and OwnBuffers, for fewer  *)
(* sockets than an int has values, say whose the messages and buffers are. *)
(* FirstInv keeps data behind the Add of its socket.  From all of them     *)
(* together follows that Networking implements Connections, action by      *)
(* action.                                                                 *)
(***************************************************************************)
EXTENDS Networking, FiniteSetTheorems, SequenceTheorems, WellFoundedInduction, TLAPS

USE DEF idVars, kernelVars, mapVars, loopVars, histVars

-----------------------------------------------------------------------------
(* The inductive invariant.                                                *)

\* The program has given the socket to the dancer.
Registered(s) == step[s] \in {"open", "gone"}

\* Who has an open descriptor, and who has a number.
KernelInv ==
  /\ \A f \in Fds : open[f] # NoSocket => fdOf[open[f]] = f
  /\ \A s \in Sockets :
       /\ step[s] = "new" => fdOf[s] = 0
       /\ step[s] \in {"bound", "numbering", "numbered", "limbo"} =>
            fdOf[s] \in Fds /\ open[fdOf[s]] = s
       /\ step[s] \in {"new", "bound", "numbering"} => ident[s] = 0
       /\ step[s] \in {"numbered", "limbo", "open", "gone"} => ident[s] # 0

\* A message of a socket given away; an Add, which has a descriptor, is of one that
\* is open and in no map yet.
Queued(m) ==
  /\ Registered(m.sock)
  /\ m.fd # 0 <=> m.msg \in {"ListenerAdd", "ConnectionAdd"}
  /\ m.fd # 0 => /\ open[m.fd] = m.sock /\ m.id = ident[m.sock]
                 /\ m.msg = "ListenerAdd" <=> m.sock \in Listeners
                 /\ m.fd \notin DOMAIN listeners \cup DOMAIN clients
  /\ m.msg = "ConnectionQueueData" => m.sock \in Conns /\ m.n # 0

AddedOnce(q) == \A i, j \in DOMAIN q : q[i].fd = q[j].fd /\ q[i].fd # 0 => i = j

QueueInv ==
  /\ \A i \in DOMAIN pipe : Queued(pipe[i])
  /\ \A i \in DOMAIN pipeData : Queued(pipeData[i])
  /\ AddedOnce(pipe) /\ AddedOnce(pipeData)
  /\ \A i \in DOMAIN pipe, j \in DOMAIN pipeData :
       pipe[i].fd = pipeData[j].fd => pipe[i].fd = 0

\* An entry stands for the socket behind its descriptor.
Stands(e, f) == open[f] = e.sock /\ Registered(e.sock) /\ e.id = ident[e.sock]

PlaceInv ==
  /\ \A f \in DOMAIN listeners : Stands(listeners[f], f)
  /\ \A f \in DOMAIN clients : Stands(clients[f], f)
  /\ \A f \in Fds : open[f] # NoSocket /\ Registered(open[f]) =>
       \/ f \in DOMAIN listeners \cup DOMAIN clients
       \/ \E i \in DOMAIN pipe : pipe[i].fd = f
       \/ \E i \in DOMAIN pipeData : pipeData[i].fd = f

\* Accept and the push of the client are one step of the loop, at a listener.
DancerInv ==
  /\ phase # "handle" => pipeData = <<>> /\ Accepting = {}
  /\ \A s, t \in Accepting : s = t
  /\ Accepting # {} => todo # {} /\ Due \in DOMAIN listeners

\* A socket's last callback is pushed, or made, when it is closed, and is the last.
Ends(s) == {i \in DOMAIN jobs[s] : jobs[s][i] \in {"cleanup", "final"}}

JobsInv ==
  \A s \in Sockets :
    /\ ~ Registered(s) => jobs[s] = <<>>
    /\ Ends(s) \subseteq {Len(jobs[s])}
    /\ Ends(s) # {} => ~ IsOpen(s)
    /\ Registered(s) /\ s \notin Silent /\ ~ finishing /\ ~ IsOpen(s) => Ends(s) # {}

\* The buffers of a connection are numbered by the calls of Send.  They stand in that
\* order in the pipe, then in what the dancer has taken from it, then in the entry's
\* sendBufs, then on the wire: each place holds smaller numbers than those before it.
Ordered(q) == \A i, j \in DOMAIN q : i < j => q[i].n < q[j].n
Precede(q, r) == \A i \in DOMAIN q, j \in DOMAIN r : q[i].n < r[j].n
Data(q) == {i \in DOMAIN q : q[i].msg = "ConnectionQueueData"}
DataOrdered(q) == \A i, j \in Data(q) : i < j => q[i].n < q[j].n
Before(q, r) == \A i \in DOMAIN q, j \in Data(r) : q[i].n < r[j].n

OrderInv ==
  /\ DataOrdered(pipe) /\ DataOrdered(pipeData)
  /\ \A i \in Data(pipeData), j \in Data(pipe) : pipeData[i].n < pipe[j].n
  /\ \A j \in Data(pipe) : pipe[j].n <= sends
  /\ \A j \in Data(pipeData) : pipeData[j].n <= sends
  /\ \A f \in DOMAIN clients :
       /\ Ordered(clients[f].sendBufs)
       /\ Precede(wire[clients[f].sock], clients[f].sendBufs)
       /\ Before(clients[f].sendBufs, pipe) /\ Before(clients[f].sendBufs, pipeData)
       /\ \A i \in DOMAIN clients[f].sendBufs : clients[f].sendBufs[i].n <= sends
  /\ \A c \in Conns :
       /\ Ordered(wire[c]) /\ Before(wire[c], pipe) /\ Before(wire[c], pipeData)
       /\ \A i \in DOMAIN wire[c] : wire[c][i].n <= sends

\* There are as many identifiers as sockets that have got one, at most.
Numbered == {s \in Sockets : ident[s] # 0}
NumberInv ==
  LET n == Cardinality(Numbered)
  IN  /\ identifier <= n
      /\ \A s \in Sockets : register[s] <= n /\ ident[s] <= n

\* The program has fewer sockets in its life than an int has values, and a uint64_t
\* has twice those at least: an identifier neither wraps around nor, when an object
\* keeps it in an int (where it may become negative), turns into another's.
FewSockets ==
  /\ IsFiniteSet(Sockets) /\ Cardinality(Sockets) < IntRange
  /\ 2 * IntRange <= IdRange

\* A message is for its own socket, or for none.
OwnId(m) == m.id = ident[m.sock] \/ Cardinality(Sockets) < m.id

OwnMessages ==
  /\ \A i \in DOMAIN pipe : OwnId(pipe[i])
  /\ \A i \in DOMAIN pipeData : OwnId(pipeData[i])

\* A buffer is on its way to the connection it was sent on.
OwnBuffers ==
  /\ \A f \in DOMAIN clients : \A i \in DOMAIN clients[f].sendBufs :
       clients[f].sendBufs[i].sock = clients[f].sock
  /\ \A c \in Conns : \A i \in DOMAIN wire[c] : wire[c][i].sock = c

-----------------------------------------------------------------------------
(* The operators.                                                          *)

Jobs == {"client", "data", "error", "cleanup", "final"}

LEMMA ConstantFacts ==
  /\ Listeners \subseteq Sockets /\ Conns \subseteq Sockets /\ Accepted \subseteq Conns
  /\ \A s \in Sockets : s \in Listeners <=> s \notin Conns
  /\ NoSocket \notin Sockets
  /\ Fds \subseteq Nat /\ 0 \notin Fds
  /\ MaxData \in Nat /\ MaxSends \in Nat
  /\ IdRange \in Nat /\ IntRange \in Nat /\ 2 < IntRange /\ IntRange < IdRange
BY NetworkingAssumption DEF Sockets, Conns

\* The kernel gives out the lowest descriptor, and the maps are gone through in order.
LEMMA MinFacts ==
  ASSUME NEW S \in SUBSET Nat, S # {}
  PROVE  Min(S) \in S /\ \A x \in S : Min(S) <= x
<1>. DEFINE T == {0 .. y : y \in S}
<1>1. T \subseteq FiniteSubsetsOf(Nat) /\ T # {}
  <2>1. \A y \in S : y \in Int /\ 0 .. y \subseteq Nat
    OBVIOUS
  <2>2. \A y \in S : IsFiniteSet(0 .. y)
    BY <2>1, FS_Interval
  <2>. QED
    BY <2>1, <2>2 DEF FiniteSubsetsOf
<1>2. PICK x \in T : \A z \in T : <<z, x>> \notin StrictSubsetOrdering(Nat)
  BY <1>1, FS_StrictSubsetOrderingWellFounded, WFMin
<1>3. PICK m \in S : x = 0 .. m
  BY DEF T
<1>4. ASSUME NEW y \in S PROVE m <= y
  <2>. SUFFICES ASSUME y < m PROVE FALSE
    OBVIOUS
  <2>1. 0 .. y \subseteq 0 .. m /\ m \in 0 .. m /\ m \notin 0 .. y /\ 0 .. m \subseteq Nat
    OBVIOUS
  <2>2. <<0 .. y, 0 .. m>> \in StrictSubsetOrdering(Nat)
    BY <2>1 DEF StrictSubsetOrdering
  <2>. QED
    BY <1>2, <1>3, <2>2
<1>. QED
  BY <1>4 DEF Min

LEMMA MinOfFds ==
  ASSUME NEW S, S \subseteq Fds, S # {}
  PROVE  Min(S) \in S /\ Min(S) \in Fds
<1>1. S \in SUBSET Nat
  BY ConstantFacts
<1>. QED
  BY <1>1, MinFacts

\* Identifiers wrap around, past 0.
LEMMA SuccessorType ==
  ASSUME NEW n \in 0 .. IdRange - 1
  PROVE  Successor(n) \in 0 .. IdRange - 1 /\ Successor(n) # 0
<1>1. IdRange \in Nat /\ 3 < IdRange
  BY ConstantFacts
<1>2. IdRange % IdRange = 0
  BY <1>1
<1>. QED
  BY <1>1, <1>2 DEF Successor

LEMMA KeptType ==
  ASSUME TypeOK, NEW s \in Sockets PROVE Kept(s) \in 0 .. IdRange - 1
<1>1. IntRange \in Nat /\ IdRange \in Nat /\ 0 < IntRange /\ IntRange < IdRange /\ ident[s] \in Nat
  BY ConstantFacts DEF TypeOK
<1>2. ident[s] % IntRange \in 0 .. IntRange - 1
  BY <1>1
<1>. QED
  BY <1>1, <1>2 DEF Kept

\* What a queue and its rest hold.
LEMMA AppendFacts ==
  ASSUME NEW S, NEW q \in Seq(S), NEW m \in S
  PROVE  /\ Append(q, m) \in Seq(S)
         /\ \A i \in DOMAIN Append(q, m) : \/ i \in DOMAIN q /\ Append(q, m)[i] = q[i] /\ i <= Len(q)
                                           \/ i = Len(q) + 1 /\ Append(q, m)[i] = m
         /\ \A i \in DOMAIN q : i \in DOMAIN Append(q, m) /\ Append(q, m)[i] = q[i]
OBVIOUS

LEMMA TailFacts ==
  ASSUME NEW S, NEW q \in Seq(S), q # <<>>
  PROVE  /\ Head(q) = q[1] /\ q[1] \in S /\ Tail(q) \in Seq(S) /\ 1 \in DOMAIN q
         /\ \A i \in DOMAIN Tail(q) : i \in Nat /\ i # 0 /\ i + 1 \in DOMAIN q /\ Tail(q)[i] = q[i + 1]
         /\ \A i \in DOMAIN q : i = 1 \/ (i - 1 \in DOMAIN Tail(q) /\ Tail(q)[i - 1] = q[i])
OBVIOUS

LEMMA SplitFacts ==
  ASSUME NEW S, NEW q \in Seq(S), NEW k \in 0 .. Len(q)
  PROVE  /\ SubSeq(q, 1, k) \in Seq(S) /\ Len(SubSeq(q, 1, k)) = k
         /\ \A i \in 1 .. k : SubSeq(q, 1, k)[i] = q[i]
         /\ SubSeq(q, k + 1, Len(q)) \in Seq(S) /\ Len(SubSeq(q, k + 1, Len(q))) = Len(q) - k
         /\ \A i \in 1 .. Len(q) - k : SubSeq(q, k + 1, Len(q))[i] = q[k + i]
<1>1. Len(q) \in Nat /\ k \in Int /\ k + 1 \in Int /\ Len(q) \in Int /\ \A i \in 1 .. Len(q) : q[i] \in S
  OBVIOUS
<1>2. /\ SubSeq(q, 1, k) \in Seq(S) /\ Len(SubSeq(q, 1, k)) = k
      /\ \A i \in 1 .. k : SubSeq(q, 1, k)[i] = q[i]
  <2>1. /\ SubSeq(q, 1, k) \in Seq(S) /\ Len(SubSeq(q, 1, k)) = IF 1 <= k THEN k - 1 + 1 ELSE 0
        /\ \A i \in 1 .. k - 1 + 1 : SubSeq(q, 1, k)[i] = q[1 + i - 1]
    BY <1>1, SubSeqProperties
  <2>. QED
    BY <2>1
<1>3. /\ SubSeq(q, k + 1, Len(q)) \in Seq(S)
      /\ Len(SubSeq(q, k + 1, Len(q))) = IF k + 1 <= Len(q) THEN Len(q) - (k + 1) + 1 ELSE 0
      /\ \A i \in 1 .. Len(q) - (k + 1) + 1 : SubSeq(q, k + 1, Len(q))[i] = q[(k + 1) + i - 1]
  BY <1>1, SubSeqProperties
<1>4. /\ \A i \in 1 .. Len(q) - k : i \in 1 .. Len(q) - (k + 1) + 1 /\ (k + 1) + i - 1 = k + i
      /\ (IF k + 1 <= Len(q) THEN Len(q) - (k + 1) + 1 ELSE 0) = Len(q) - k
  BY <1>1
<1>. QED
  BY <1>2, <1>3, <1>4

\* Buffers are only ever put after others that a socket has, or taken from the front.
LEMMA JoinFacts ==
  ASSUME NEW S, NEW q \in Seq(S), NEW r \in Seq(S)
  PROVE  /\ q \o r \in Seq(S)
         /\ \A i \in DOMAIN (q \o r) :
              \/ i \in DOMAIN q /\ (q \o r)[i] = q[i] /\ i <= Len(q)
              \/ i - Len(q) \in DOMAIN r /\ (q \o r)[i] = r[i - Len(q)] /\ i > Len(q)
OBVIOUS

-----------------------------------------------------------------------------
(* Types.                                                                  *)

LEMMA OpenFdFacts ==
  ASSUME TypeOK, NEW s \in Sockets, OpenFd(s)
  PROVE  \E g \in Fds : /\ open[g] = NoSocket
                        /\ open' = [open EXCEPT ![g] = s] /\ fdOf' = [fdOf EXCEPT ![s] = g]
<1>1. FreeFds # {} /\ FreeFds \subseteq Fds
  BY DEF OpenFd, FreeFds
<1>2. Min(FreeFds) \in FreeFds
  BY <1>1, MinOfFds
<1>. QED
  BY <1>2 DEF OpenFd, FreeFds

LEMMA PushType ==
  ASSUME TypeOK, NEW s \in Sockets, NEW seq \in Seq(Jobs), Push(s, seq)
  PROVE  /\ jobs' \in [Sockets -> Seq(Jobs)]
         /\ ~ finishing => jobs'[s] = jobs[s] \o seq
         /\ finishing => jobs'[s] = jobs[s]
         /\ \A t \in Sockets \ {s} : jobs'[t] = jobs[t]
<1>1. jobs \in [Sockets -> Seq(Jobs)]
  BY DEF TypeOK, Jobs
<1>2. jobs[s] \o seq \in Seq(Jobs)
  BY <1>1, ConcatProperties
<1>. QED
  BY <1>1, <1>2 DEF Push

LEMMA WriteType ==
  ASSUME TypeOK, NEW m \in Messages, Write(m)
  PROVE  /\ pipe' \in Seq(Messages)
         /\ Readable => pipe' = Append(pipe, m)
         /\ ~ Readable => pipe' = pipe
BY DEF TypeOK, Write

\* The messages there are.
LEMMA MessageTypes ==
  ASSUME TypeOK
  PROVE  /\ \A s \in Sockets : Message(IF s \in Listeners THEN "ListenerAdd" ELSE "ConnectionAdd",
                                       s, ident[s], fdOf[s], 0) \in Messages
         /\ \A s \in Sockets : Message("SocketRemove", s, Kept(s), 0, 0) \in Messages
         /\ \A s \in Sockets, n \in 0 .. MaxSends : Message("ConnectionQueueData", s, Kept(s), 0, n) \in Messages
         /\ \A f \in DOMAIN listeners : Removal(listeners[f]) \in Messages
         /\ \A f \in DOMAIN clients : Removal(clients[f]) \in Messages
<1>1. 0 \in 0 .. MaxSends
  BY ConstantFacts
<1>2. ASSUME NEW s \in Sockets
      PROVE /\ ident[s] \in 0 .. IdRange - 1 /\ Kept(s) \in 0 .. IdRange - 1 /\ fdOf[s] \in Fds \cup {0}
  BY KeptType DEF TypeOK
<1>3. /\ \A f \in DOMAIN listeners : listeners[f].sock \in Sockets /\ listeners[f].id \in 0 .. IdRange - 1
      /\ \A f \in DOMAIN clients : clients[f].sock \in Sockets /\ clients[f].id \in 0 .. IdRange - 1
  BY ConstantFacts DEF TypeOK, Entries
<1>. QED
  BY <1>1, <1>2, <1>3 DEF Messages, Message, Removal

LEMMA EntryTypes ==
  ASSUME TypeOK
  PROVE  /\ \A f \in DOMAIN listeners :
              f \in Fds /\ listeners[f].sock \in Listeners /\ listeners[f].sock \in Sockets
              /\ listeners[f] = [sock |-> listeners[f].sock, id |-> listeners[f].id,
                                 sendBufs |-> listeners[f].sendBufs]
         /\ \A f \in DOMAIN clients :
              /\ f \in Fds /\ clients[f].sock \in Conns /\ clients[f].sock \in Sockets
              /\ clients[f].sendBufs \in Seq(Buffers) /\ clients[f].id \in 0 .. IdRange - 1
BY ConstantFacts DEF TypeOK, Entries

\* The kernel and the program.
LEMMA ProgramTyped ==
  ASSUME TypeOK, Program PROVE TypeOK'
<1>. USE ConstantFacts DEF TypeOK
<1>1. ASSUME NEW s \in Sockets, Socket(s) \/ SocketFails(s) PROVE TypeOK'
  <2>1. OpenFd(s)
    BY <1>1 DEF Socket, SocketFails
  <2>2. PICK g \in Fds : open' = [open EXCEPT ![g] = s] /\ fdOf' = [fdOf EXCEPT ![s] = g]
    BY <2>1, OpenFdFacts
  <2>. QED
    BY <1>1, <2>2 DEF Socket, SocketFails
<1>2. ASSUME NEW s \in Sockets, Add(s) PROVE TypeOK'
  <2>. DEFINE m == Message(IF s \in Listeners THEN "ListenerAdd" ELSE "ConnectionAdd",
                           s, ident[s], fdOf[s], 0)
  <2>1. m \in Messages /\ Write(m)
    BY <1>2, MessageTypes DEF Add
  <2>. HIDE DEF m
  <2>2. pipe' \in Seq(Messages)
    BY <2>1, WriteType
  <2>. QED
    BY <1>2, <2>2 DEF Add
<1>3. ASSUME NEW s \in Sockets, Close(s) PROVE TypeOK'
  <2>. DEFINE m == Message("SocketRemove", s, Kept(s), 0, 0)
  <2>1. m \in Messages /\ (Write(m) \/ UNCHANGED pipe)
    BY <1>3, MessageTypes DEF Close
  <2>. HIDE DEF m
  <2>2. pipe' \in Seq(Messages)
    BY <2>1, WriteType
  <2>. QED
    BY <1>3, <2>2 DEF Close
<1>4. ASSUME NEW s \in Sockets, ReadIdentifier(s) PROVE TypeOK'
  BY <1>4 DEF ReadIdentifier
<1>5. ASSUME NEW s \in Sockets, WriteIdentifier(s) PROVE TypeOK'
  <2>1. Successor(register[s]) \in 0 .. IdRange - 1
    BY SuccessorType
  <2>2. 0 \in 0 .. IdRange - 1
    OBVIOUS
  <2>. QED
    BY <1>5, <2>1, <2>2 DEF WriteIdentifier
<1>6. ASSUME NEW c \in Conns, Send(c) PROVE TypeOK'
  <2>. DEFINE m == Message("ConnectionQueueData", c, Kept(c), 0, sends')
  <2>1. sends' \in 0 .. MaxSends
    BY <1>6 DEF Send
  <2>2. m \in Messages /\ Write(m)
    BY <1>6, <2>1, MessageTypes DEF Send
  <2>. HIDE DEF m
  <2>3. pipe' \in Seq(Messages)
    BY <2>2, WriteType
  <2>. QED
    BY <1>6, <2>1, <2>3 DEF Send
<1>7. ASSUME NEW c \in Accepted, CloseLimbo(c) PROVE TypeOK'
  BY <1>7 DEF CloseLimbo
<1>8. ASSUME ClosePipe \/ FinishUp PROVE TypeOK'
  BY <1>8 DEF ClosePipe, FinishUp
<1>. QED
  BY <1>1, <1>2, <1>3, <1>4, <1>5, <1>6, <1>7, <1>8 DEF Program, Sockets, Conns

LEMMA HandleClientTyped ==
  ASSUME TypeOK, NEW f \in Fds, NEW in \in {"none", "data", "closed"}, NEW k \in 0 .. MaxSends,
         NEW ok \in BOOLEAN, HandleClient(f, in, k, ok)
  PROVE  TypeOK'
<1>. DEFINE e == clients[f]
            n == Len(e.sendBufs)
<1>1. f \in DOMAIN clients /\ e.sock \in Conns /\ e.sock \in Sockets /\ e.sendBufs \in Seq(Buffers)
  BY EntryTypes DEF HandleClient
<1>2. k \in 0 .. n
  BY <1>1 DEF HandleClient
<1>3. SubSeq(e.sendBufs, 1, k) \in Seq(Buffers) /\ SubSeq(e.sendBufs, k + 1, n) \in Seq(Buffers)
  BY <1>1, <1>2, SplitFacts
<1>4. jobs' \in [Sockets -> Seq(Jobs)]
  <2>. DEFINE seq == IF in = "data" THEN <<"data">> ELSE <<>>
  <2>1. seq \in Seq(Jobs) /\ Push(e.sock, seq)
    BY DEF HandleClient, Jobs
  <2>. HIDE DEF seq, e
  <2>. QED
    BY <1>1, <2>1, PushType
<1>5. pipeData' \in Seq(Messages)
  BY <1>1, MessageTypes DEF HandleClient, TypeOK
<1>6. wire' \in [Conns -> Seq(Buffers)]
  <2>1. wire[e.sock] \o SubSeq(e.sendBufs, 1, k) \in Seq(Buffers)
    BY <1>1, <1>3, JoinFacts DEF TypeOK
  <2>. QED
    BY <1>1, <2>1 DEF HandleClient, TypeOK
<1>7. DOMAIN clients' = DOMAIN clients
  BY DEF HandleClient
<1>8. ASSUME NEW g \in DOMAIN clients' PROVE clients'[g] \in Entries(Conns)
  <2>1. clients[g] \in Entries(Conns)
    BY <1>7 DEF TypeOK
  <2>2. CASE g = f
    <3>1. clients'[g] = [clients[g] EXCEPT !.sendBufs = SubSeq(@, k + 1, n)]
      BY <1>7, <2>2 DEF HandleClient
    <3>. QED
      BY <1>3, <2>1, <2>2, <3>1 DEF Entries
  <2>3. CASE g # f
    BY <1>7, <2>1, <2>3 DEF HandleClient
  <2>. QED
    BY <2>2, <2>3
<1>9. todo' \subseteq Fds
  BY DEF HandleClient, TypeOK
<1>10. jobs' \in [Sockets -> Seq({"client", "data", "error", "cleanup", "final"})]
  BY <1>4 DEF Jobs
<1>. QED
  BY <1>5, <1>6, <1>7, <1>8, <1>9, <1>10 DEF HandleClient, TypeOK

LEMMA UnregisterTyped ==
  ASSUME TypeOK, NEW m, m \in {listeners, clients}, NEW f \in DOMAIN m, Unregister(m, f)
  PROVE  /\ f \in Fds /\ m[f].sock \in Sockets
         /\ jobs' \in [Sockets -> Seq(Jobs)]
         /\ open' = [open EXCEPT ![f] = NoSocket] /\ open' \in [Fds -> Sockets \cup {NoSocket}]
         /\ DOMAIN listeners' = DOMAIN listeners \ {f} /\ DOMAIN clients' = DOMAIN clients \ {f}
         /\ \A g \in DOMAIN listeners' : listeners'[g] = listeners[g]
         /\ \A g \in DOMAIN clients' : clients'[g] = clients[g]
         /\ Push(m[f].sock, LastJobs(m[f].sock)) /\ LastJobs(m[f].sock) \in Seq(Jobs)
<1>1. f \in Fds /\ m[f].sock \in Sockets
  BY EntryTypes
<1>2. LastJobs(m[f].sock) \in Seq(Jobs)
  <2>1. <<>> \in Seq(Jobs) /\ <<"error", "cleanup">> \in Seq(Jobs)
    BY DEF Jobs
  <2>. QED
    BY <2>1 DEF LastJobs
<1>3. Push(m[f].sock, LastJobs(m[f].sock))
  BY DEF Unregister
<1>4. jobs' \in [Sockets -> Seq(Jobs)]
  BY <1>1, <1>2, <1>3, PushType
<1>. QED
  BY <1>1, <1>2, <1>3, <1>4 DEF Unregister, Restrict, TypeOK

\* A message is taken from the front of what is to be applied.
LEMMA ApplyingFacts ==
  ASSUME TypeOK, QueueInv, NEW msg, Applying(msg), NEW h, h = Head(pipeData)
  PROVE  /\ h = pipeData[1] /\ h \in Messages /\ h.msg = msg /\ 1 \in DOMAIN pipeData
         /\ h.sock \in Sockets /\ h.fd \in Fds \cup {0} /\ h.n \in 0 .. MaxSends
         /\ h.id \in 0 .. IdRange - 1
         /\ Queued(h)
         /\ Tail(pipeData) \in Seq(Messages)
         /\ \A i \in DOMAIN Tail(pipeData) :
              /\ i + 1 \in DOMAIN pipeData /\ Tail(pipeData)[i] = pipeData[i + 1]
              /\ i \in Nat /\ i # 0
         /\ \A i \in DOMAIN pipeData :
              i = 1 \/ (i - 1 \in DOMAIN Tail(pipeData) /\ Tail(pipeData)[i - 1] = pipeData[i])
<1>1. pipeData \in Seq(Messages) /\ pipeData # <<>> /\ h.msg = msg
  BY DEF TypeOK, Applying
<1>2. h = pipeData[1] /\ h \in Messages /\ 1 \in DOMAIN pipeData
  BY <1>1, TailFacts
<1>3. Queued(h)
  BY <1>2 DEF QueueInv
<1>4. /\ h.sock \in Sockets /\ h.fd \in Fds \cup {0} /\ h.n \in 0 .. MaxSends
      /\ h.id \in 0 .. IdRange - 1
  BY <1>2 DEF Messages
<1>. QED
  BY <1>1, <1>2, <1>3, <1>4, TailFacts

LEMMA ApplyTyped ==
  ASSUME TypeOK, QueueInv,
         ApplyListenerAdd \/ ApplyConnectionAdd \/ ApplySocketRemove \/ ApplyQueueData
  PROVE  TypeOK'
<1>. DEFINE h == Head(pipeData)
<1>. USE ConstantFacts DEF TypeOK
<1>0. <<>> \in Seq(Buffers)
  OBVIOUS
<1>1. CASE ApplyListenerAdd
  <2>1. h \in Messages /\ h.fd \in Fds /\ h.sock \in Listeners /\ h.id \in 0 .. IdRange - 1
        /\ Tail(pipeData) \in Seq(Messages)
    BY <1>1, ApplyingFacts DEF ApplyListenerAdd, Queued
  <2>2. Entry(h) \in Entries(Listeners)
    BY <1>0, <2>1 DEF Entry, Entries
  <2>3. listeners' = Set(listeners, h.fd, Entry(h)) /\ pipeData' = Tail(pipeData)
    BY <1>1 DEF ApplyListenerAdd
  <2>. HIDE DEF h
  <2>4. DOMAIN listeners' \subseteq Fds /\ \A g \in DOMAIN listeners' : listeners'[g] \in Entries(Listeners)
    <3>1. DOMAIN listeners \subseteq Fds /\ \A g \in DOMAIN listeners : listeners[g] \in Entries(Listeners)
      OBVIOUS
    <3>. HIDE DEF TypeOK
    <3>2. DOMAIN listeners' = DOMAIN listeners \cup {h.fd} /\ listeners'[h.fd] = Entry(h)
          /\ \A g \in DOMAIN listeners : g # h.fd => listeners'[g] = listeners[g]
      BY <2>3 DEF Set
    <3>. QED
      BY <2>1, <2>2, <3>1, <3>2
  <2>. QED
    BY <1>1, <2>1, <2>3, <2>4 DEF ApplyListenerAdd
<1>2. CASE ApplyConnectionAdd
  <2>1. h \in Messages /\ h.fd \in Fds /\ h.sock \in Conns /\ h.id \in 0 .. IdRange - 1
        /\ Tail(pipeData) \in Seq(Messages)
    BY <1>2, ApplyingFacts DEF ApplyConnectionAdd, Queued
  <2>2. Entry(h) \in Entries(Conns)
    BY <1>0, <2>1 DEF Entry, Entries
  <2>3. clients' = Set(clients, h.fd, Entry(h)) /\ pipeData' = Tail(pipeData)
    BY <1>2 DEF ApplyConnectionAdd
  <2>. HIDE DEF h
  <2>4. DOMAIN clients' \subseteq Fds /\ \A g \in DOMAIN clients' : clients'[g] \in Entries(Conns)
    <3>1. DOMAIN clients \subseteq Fds /\ \A g \in DOMAIN clients : clients[g] \in Entries(Conns)
      OBVIOUS
    <3>. HIDE DEF TypeOK
    <3>2. DOMAIN clients' = DOMAIN clients \cup {h.fd} /\ clients'[h.fd] = Entry(h)
          /\ \A g \in DOMAIN clients : g # h.fd => clients'[g] = clients[g]
      BY <2>3 DEF Set
    <3>. QED
      BY <2>1, <2>2, <3>1, <3>2
  <2>. QED
    BY <1>2, <2>1, <2>3, <2>4 DEF ApplyConnectionAdd
<1>3. CASE ApplySocketRemove
  <2>1. Tail(pipeData) \in Seq(Messages) /\ pipeData' = Tail(pipeData)
    BY <1>3, ApplyingFacts DEF ApplySocketRemove
  <2>2. /\ open' \in [Fds -> Sockets \cup {NoSocket}]
        /\ jobs' \in [Sockets -> Seq(Jobs)]
        /\ DOMAIN listeners' \subseteq DOMAIN listeners /\ DOMAIN clients' \subseteq DOMAIN clients
        /\ \A g \in DOMAIN listeners' : listeners'[g] = listeners[g]
        /\ \A g \in DOMAIN clients' : clients'[g] = clients[g]
    <3>. DEFINE ls == Matching(listeners, h.id)
                cs == Matching(clients, h.id)
    <3>1. ls \subseteq DOMAIN listeners /\ cs \subseteq DOMAIN clients
          /\ DOMAIN listeners \subseteq Fds /\ DOMAIN clients \subseteq Fds
      BY DEF Matching
    <3>2. \/ ls # {} /\ Unregister(listeners, Min(ls))
          \/ cs # {} /\ Unregister(clients, Min(cs))
          \/ UNCHANGED <<open, mapVars, jobs>>
      BY <1>3 DEF ApplySocketRemove
    <3>3. (ls # {} => Min(ls) \in DOMAIN listeners) /\ (cs # {} => Min(cs) \in DOMAIN clients)
      BY <3>1, MinOfFds
    <3>. HIDE DEF ls, cs
    <3>4. ASSUME UNCHANGED <<open, mapVars, jobs>> PROVE jobs' \in [Sockets -> Seq(Jobs)]
      BY <3>4 DEF Jobs
    <3>. QED
      BY <3>2, <3>3, <3>4, UnregisterTyped
  <2>3. jobs' \in [Sockets -> Seq({"client", "data", "error", "cleanup", "final"})]
    BY <2>2 DEF Jobs
  <2>. QED
    BY <1>3, <2>1, <2>2, <2>3 DEF ApplySocketRemove
<1>4. CASE ApplyQueueData
  <2>. DEFINE cs == Matching(clients, h.id)
              b == [sock |-> h.sock, n |-> h.n]
  <2>1. Tail(pipeData) \in Seq(Messages) /\ pipeData' = Tail(pipeData)
    BY <1>4, ApplyingFacts DEF ApplyQueueData
  <2>2. cs \subseteq DOMAIN clients /\ DOMAIN clients \subseteq Fds
    BY DEF Matching
  <2>3. ASSUME cs # {} PROVE Min(cs) \in DOMAIN clients
    BY <2>2, <2>3, MinOfFds
  <2>4. DOMAIN clients' = DOMAIN clients
    BY <1>4, <2>3 DEF ApplyQueueData
  <2>5. b \in Buffers
    <3>1. h.msg = "ConnectionQueueData" /\ Queued(h) /\ h.n \in 0 .. MaxSends
      BY <1>4, ApplyingFacts DEF ApplyQueueData
    <3>2. h.sock \in Conns /\ h.n \in 1 .. MaxSends
      BY <3>1 DEF Queued
    <3>. QED
      BY <3>2 DEF Buffers
  <2>6. ASSUME NEW g \in DOMAIN clients PROVE clients'[g] \in Entries(Conns)
    <3>1. clients[g] \in Entries(Conns)
      OBVIOUS
    <3>2. CASE cs # {} /\ g = Min(cs)
      <4>1. clients'[g] = [clients[g] EXCEPT !.sendBufs = Append(@, b)]
        BY <1>4, <2>3, <3>2 DEF ApplyQueueData
      <4>2. Append(clients[g].sendBufs, b) \in Seq(Buffers)
        BY <2>5, <3>1, AppendFacts DEF Entries
      <4>. QED
        BY <3>1, <4>1, <4>2 DEF Entries
    <3>3. CASE ~ (cs # {} /\ g = Min(cs))
      BY <1>4, <2>3, <3>1, <3>3 DEF ApplyQueueData
    <3>. QED
      BY <3>2, <3>3
  <2>. QED
    BY <1>4, <2>1, <2>2, <2>4, <2>6 DEF ApplyQueueData
<1>. QED
  BY <1>1, <1>2, <1>3, <1>4

LEMMA DancerTyped ==
  ASSUME TypeOK, QueueInv, DancerInv, Dancer PROVE TypeOK'
<1>. USE ConstantFacts DEF TypeOK
<1>1. ASSUME Poll \/ PollFails \/ HandlePipe PROVE TypeOK'
  <2>1. CASE Poll
    BY <2>1 DEF Poll
  <2>2. CASE PollFails
    BY <2>2 DEF PollFails
  <2>3. CASE HandlePipe
    BY <2>3 DEF HandlePipe
  <2>. QED
    BY <1>1, <2>1, <2>2, <2>3
<1>2. ASSUME NEW f \in Fds, NEW s \in Accepted, HandleListener(f, s) PROVE TypeOK'
  <2>1. OpenFd(s) /\ s \in Sockets
    BY <1>2 DEF HandleListener
  <2>2. PICK g \in Fds : open' = [open EXCEPT ![g] = s] /\ fdOf' = [fdOf EXCEPT ![s] = g]
    BY <2>1, OpenFdFacts
  <2>. QED
    BY <1>2, <2>2 DEF HandleListener
<1>3. ASSUME NEW f \in Fds, AcceptFails(f) \/ SkipListener(f) PROVE TypeOK'
  <2>1. f \in DOMAIN listeners
    BY <1>3 DEF AcceptFails, SkipListener
  <2>2. Removal(listeners[f]) \in Messages
    BY <2>1, MessageTypes
  <2>. QED
    <3>1. CASE AcceptFails(f)
      <4>1. pipeData' = Append(pipeData, Removal(listeners[f])) /\ todo' \subseteq Fds
        BY <3>1 DEF AcceptFails
      <4>. QED
        BY <2>2, <3>1, <4>1 DEF AcceptFails
    <3>2. CASE SkipListener(f)
      BY <3>2 DEF SkipListener
    <3>. QED
      BY <1>3, <3>1, <3>2
<1>4. ASSUME NEW f \in Fds, NEW in \in {"none", "data", "closed"}, NEW k \in 0 .. MaxSends,
             NEW ok \in BOOLEAN, HandleClient(f, in, k, ok)
      PROVE  TypeOK'
  <2>. HIDE DEF TypeOK
  <2>. QED
    BY <1>4, HandleClientTyped
<1>5. ASSUME NEW s \in Accepted, ReadIdentifier(s) PROVE TypeOK'
  BY <1>5 DEF ReadIdentifier
<1>6. ASSUME NEW s \in Accepted, WriteIdentifier(s) PROVE TypeOK'
  <2>1. Successor(register[s]) \in 0 .. IdRange - 1
    BY SuccessorType
  <2>2. 0 \in 0 .. IdRange - 1
    OBVIOUS
  <2>. QED
    BY <1>6, <2>1, <2>2 DEF WriteIdentifier
<1>7. ASSUME NEW s \in Accepted, PushClient(s) PROVE TypeOK'
  <2>1. todo # {} /\ Due \in DOMAIN listeners
    BY <1>7 DEF DancerInv, PushClient
  <2>2. listeners[Due].sock \in Sockets
    BY <2>1, EntryTypes
  <2>3. <<"client">> \in Seq(Jobs) /\ Push(listeners[Due].sock, <<"client">>)
    BY <1>7 DEF Jobs, PushClient
  <2>4. jobs' \in [Sockets -> Seq(Jobs)]
    BY <2>2, <2>3, PushType
  <2>5. jobs' \in [Sockets -> Seq({"client", "data", "error", "cleanup", "final"})]
    BY <2>4 DEF Jobs
  <2>6. open' \in [Fds -> Sockets \cup {NoSocket}] /\ todo' \subseteq Fds
    BY <1>7 DEF PushClient
  <2>7. step' \in [Sockets -> {"new", "bound", "numbering", "numbered", "limbo",
                               "open", "gone", "failed", "astray"}]
    BY <1>7 DEF PushClient
  <2>. QED
    BY <1>7, <2>5, <2>6, <2>7 DEF PushClient
<1>8. ASSUME ApplyListenerAdd \/ ApplyConnectionAdd \/ ApplySocketRemove \/ ApplyQueueData
      PROVE  TypeOK'
  BY <1>8, ApplyTyped
<1>9. ASSUME ApplyDone PROVE TypeOK'
  BY <1>9 DEF ApplyDone
<1>10. ASSUME Final PROVE TypeOK'
  <2>1. ASSUME NEW s \in Sockets
        PROVE Append(jobs[s], "final") \in Seq({"client", "data", "error", "cleanup", "final"})
    OBVIOUS
  <2>2. /\ open' \in [Fds -> Sockets \cup {NoSocket}]
        /\ jobs' \in [Sockets -> Seq({"client", "data", "error", "cleanup", "final"})]
    BY <1>10, <2>1 DEF Final
  <2>3. DOMAIN listeners' = {} /\ DOMAIN clients' = {}
    BY <1>10 DEF Final
  <2>. QED
    BY <1>10, <2>2, <2>3 DEF Final
<1>. HIDE DEF TypeOK
<1>. QED
  BY <1>1, <1>2, <1>3, <1>4, <1>5, <1>6, <1>7, <1>8, <1>9, <1>10 DEF Dancer

-----------------------------------------------------------------------------
(* What a step does to the kernel's table and to the sockets that the      *)
(* program has given away.                                                 *)

Steady ==
  /\ \A s \in Sockets : Registered(s)' <=> Registered(s)
  /\ \A s \in Sockets : Registered(s) => fdOf'[s] = fdOf[s] /\ ident'[s] = ident[s]
  /\ \A f \in Fds, s \in Sockets : Registered(s) => (open'[f] = s <=> open[f] = s)

LEMMA SteadyOpen ==
  ASSUME TypeOK, TypeOK', Steady, NEW s \in Sockets, Registered(s)
  PROVE  IsOpen(s)' <=> IsOpen(s)
BY DEF Steady, IsOpen

\* A socket is opened.
LEMMA OpenedKernel ==
  ASSUME TypeOK, KernelInv, NEW s \in Sockets, step[s] = "new", OpenFd(s),
         step' = [step EXCEPT ![s] = "bound"] \/ step' = [step EXCEPT ![s] = "failed"],
         UNCHANGED ident
  PROVE  KernelInv' /\ Steady
<1>1. PICK g \in Fds : /\ open[g] = NoSocket
                       /\ open' = [open EXCEPT ![g] = s] /\ fdOf' = [fdOf EXCEPT ![s] = g]
  BY OpenFdFacts
<1>2. \A f \in Fds : open[f] # s
  BY ConstantFacts DEF KernelInv
<1>3. \A t \in Sockets : t # s => step'[t] = step[t] /\ fdOf'[t] = fdOf[t]
  BY <1>1 DEF TypeOK
<1>4. step'[s] \in {"bound", "failed"} /\ fdOf'[s] = g /\ open'[g] = s
      /\ \A f \in Fds : f # g => open'[f] = open[f]
  BY <1>1 DEF TypeOK
<1>5. \A f \in Fds : open[f] = NoSocket \/ open[f] \in Sockets
  BY DEF TypeOK
<1>6. KernelInv'
  BY <1>1, <1>2, <1>3, <1>4, <1>5, ConstantFacts DEF KernelInv
<1>7. Steady
  BY <1>1, <1>2, <1>3, <1>4, ConstantFacts DEF Steady, Registered
<1>. QED
  BY <1>6, <1>7

\* A descriptor is closed, of a socket that was not given away.
LEMMA ClosedKernel ==
  ASSUME TypeOK, KernelInv, NEW s \in Sockets, step[s] \in {"numbered", "limbo"},
         open' = [open EXCEPT ![fdOf[s]] = NoSocket], step' = [step EXCEPT ![s] = "failed"],
         UNCHANGED <<fdOf, ident>>
  PROVE  KernelInv' /\ Steady
<1>1. fdOf[s] \in Fds /\ open[fdOf[s]] = s
  BY DEF KernelInv
<1>2. \A f \in Fds : open'[f] = IF f = fdOf[s] THEN NoSocket ELSE open[f]
  BY <1>1 DEF TypeOK
<1>3. \A t \in Sockets : step'[t] = IF t = s THEN "failed" ELSE step[t]
  BY DEF TypeOK
<1>4. KernelInv'
  BY <1>1, <1>2, <1>3 DEF KernelInv
<1>5. Steady
  BY <1>1, <1>2, <1>3, ConstantFacts DEF Steady, Registered
<1>. QED
  BY <1>4, <1>5

\* A socket goes on a step, and nothing else happens to it but its number.
LEMMA SteppedKernel ==
  ASSUME TypeOK, KernelInv, NEW s \in Sockets, NEW to,
         \/ step[s] = "bound" /\ to = "numbering" /\ UNCHANGED ident
         \/ step[s] = "numbering" /\ to = "numbered" /\ \E n : n # 0 /\ ident' = [ident EXCEPT ![s] = n]
         \/ step[s] = "numbered" /\ to = "limbo" /\ UNCHANGED ident
         \/ step[s] = "open" /\ to = "gone" /\ UNCHANGED ident,
         step' = [step EXCEPT ![s] = to], UNCHANGED <<fdOf, open>>
  PROVE  KernelInv' /\ Steady
<1>1. \A t \in Sockets : step'[t] = IF t = s THEN to ELSE step[t]
  BY DEF TypeOK
<1>2. \A t \in Sockets : t # s => ident'[t] = ident[t]
  BY DEF TypeOK
<1>3. KernelInv'
  BY <1>1, <1>2 DEF KernelInv, TypeOK
<1>4. Steady
  BY <1>1, <1>2 DEF Steady, Registered
<1>. QED
  BY <1>3, <1>4

LEMMA SameKernel ==
  ASSUME TypeOK, KernelInv, UNCHANGED <<step, fdOf, open, ident>>
  PROVE  KernelInv' /\ Steady
BY DEF KernelInv, Steady, Registered

-----------------------------------------------------------------------------
(* Where a socket is that was given away.                                  *)

SameMaps ==
  /\ DOMAIN listeners' = DOMAIN listeners /\ DOMAIN clients' = DOMAIN clients
  /\ \A f \in DOMAIN listeners :
       listeners'[f].sock = listeners[f].sock /\ listeners'[f].id = listeners[f].id
  /\ \A f \in DOMAIN clients :
       clients'[f].sock = clients[f].sock /\ clients'[f].id = clients[f].id

LEMMA QueueTypes ==
  ASSUME TypeOK
  PROVE  /\ pipe \in Seq(Messages) /\ pipeData \in Seq(Messages)
         /\ \A i \in DOMAIN pipe : pipe[i] \in Messages
         /\ \A i \in DOMAIN pipeData : pipeData[i] \in Messages
BY DEF TypeOK

LEMMA QueuedStays ==
  ASSUME TypeOK, Steady, SameMaps, NEW m \in Messages, Queued(m)
  PROVE  Queued(m)'
BY DEF Queued, Steady, SameMaps, Messages

LEMMA EntriesStay ==
  ASSUME TypeOK, PlaceInv, Steady, SameMaps
  PROVE  /\ \A f \in DOMAIN listeners' : Stands(listeners[f], f)'
         /\ \A f \in DOMAIN clients' : Stands(clients[f], f)'
BY EntryTypes DEF PlaceInv, Steady, SameMaps, Stands

LEMMA HeldSame ==
  ASSUME TypeOK, TypeOK', QueueInv, PlaceInv, Steady, SameMaps, UNCHANGED <<pipe, pipeData>>
  PROVE  QueueInv' /\ PlaceInv'
<1>1. QueueInv'
  <2>1. \A i \in DOMAIN pipe : Queued(pipe[i])'
    BY QueuedStays, QueueTypes DEF QueueInv
  <2>2. \A i \in DOMAIN pipeData : Queued(pipeData[i])'
    BY QueuedStays, QueueTypes DEF QueueInv
  <2>. QED
    BY <2>1, <2>2 DEF QueueInv, AddedOnce
<1>2. PlaceInv'
  <2>1. ASSUME NEW f \in Fds, open'[f] # NoSocket, Registered(open[f])'
        PROVE  \/ f \in DOMAIN listeners \cup DOMAIN clients
               \/ \E i \in DOMAIN pipe : pipe[i].fd = f
               \/ \E i \in DOMAIN pipeData : pipeData[i].fd = f
    <3>1. open'[f] \in Sockets
      BY <2>1 DEF TypeOK
    <3>2. Registered(open'[f]) /\ open[f] = open'[f]
      BY <2>1, <3>1 DEF Steady, Registered
    <3>. QED
      BY <2>1, <3>2 DEF PlaceInv
  <2>. QED
    BY <2>1, EntriesStay DEF PlaceInv, SameMaps
<1>. QED
  BY <1>1, <1>2

LEMMA HeldWritten ==
  ASSUME TypeOK, TypeOK', QueueInv, PlaceInv, Steady, SameMaps,
         NEW m \in Messages, Queued(m), m.fd = 0,
         \/ pipe' = Append(pipe, m) /\ UNCHANGED pipeData
         \/ UNCHANGED pipe /\ pipeData' = Append(pipeData, m)
  PROVE  QueueInv' /\ PlaceInv'
<1>1. /\ \A i \in DOMAIN pipe' : (i \in DOMAIN pipe /\ pipe'[i] = pipe[i]) \/ pipe'[i] = m
      /\ \A i \in DOMAIN pipe : i \in DOMAIN pipe' /\ pipe'[i] = pipe[i]
      /\ \A i \in DOMAIN pipeData' : (i \in DOMAIN pipeData /\ pipeData'[i] = pipeData[i]) \/ pipeData'[i] = m
      /\ \A i \in DOMAIN pipeData : i \in DOMAIN pipeData' /\ pipeData'[i] = pipeData[i]
  <2>1. pipe \in Seq(Messages) /\ pipeData \in Seq(Messages)
    BY QueueTypes
  <2>. QED
    BY <2>1, AppendFacts
<1>2. QueueInv'
  <2>1. ASSUME NEW i \in DOMAIN pipe' PROVE Queued(pipe[i])'
    <3>1. CASE i \in DOMAIN pipe /\ pipe'[i] = pipe[i]
      <4>1. pipe[i] \in Messages /\ Queued(pipe[i])
        BY <3>1, QueueTypes DEF QueueInv
      <4>. QED
        BY <3>1, <4>1, QueuedStays
    <3>2. CASE pipe'[i] = m
      BY <3>2, QueuedStays
    <3>. QED
      BY <1>1, <3>1, <3>2
  <2>2. ASSUME NEW i \in DOMAIN pipeData' PROVE Queued(pipeData[i])'
    <3>1. CASE i \in DOMAIN pipeData /\ pipeData'[i] = pipeData[i]
      <4>1. pipeData[i] \in Messages /\ Queued(pipeData[i])
        BY <3>1, QueueTypes DEF QueueInv
      <4>. QED
        BY <3>1, <4>1, QueuedStays
    <3>2. CASE pipeData'[i] = m
      BY <3>2, QueuedStays
    <3>. QED
      BY <1>1, <3>1, <3>2
  <2>. QED
    BY <1>1, <2>1, <2>2 DEF QueueInv, AddedOnce
<1>3. PlaceInv'
  <2>1. ASSUME NEW f \in Fds, open'[f] # NoSocket, Registered(open[f])'
        PROVE  \/ f \in DOMAIN listeners' \cup DOMAIN clients'
               \/ \E i \in DOMAIN pipe' : pipe'[i].fd = f
               \/ \E i \in DOMAIN pipeData' : pipeData'[i].fd = f
    <3>1. open'[f] \in Sockets
      BY <2>1 DEF TypeOK
    <3>2. Registered(open'[f]) /\ open[f] = open'[f]
      BY <2>1, <3>1 DEF Steady, Registered
    <3>3. \/ f \in DOMAIN listeners \cup DOMAIN clients
          \/ \E i \in DOMAIN pipe : pipe[i].fd = f
          \/ \E i \in DOMAIN pipeData : pipeData[i].fd = f
      BY <2>1, <3>2 DEF PlaceInv
    <3>. QED
      BY <1>1, <3>3 DEF SameMaps
  <2>. QED
    BY <2>1, EntriesStay DEF PlaceInv
<1>. QED
  BY <1>2, <1>3

\* The dancer takes the messages from the pipe.
LEMMA HeldTaken ==
  ASSUME TypeOK, TypeOK', QueueInv, PlaceInv, Steady, SameMaps,
         pipeData = <<>>, pipeData' = pipe, pipe' = <<>>
  PROVE  QueueInv' /\ PlaceInv'
<1>1. DOMAIN pipe' = {} /\ DOMAIN pipeData = {} /\ DOMAIN pipeData' = DOMAIN pipe
  OBVIOUS
<1>2. QueueInv'
  <2>1. ASSUME NEW i \in DOMAIN pipeData' PROVE Queued(pipeData[i])'
    <3>1. pipe[i] \in Messages /\ Queued(pipe[i]) /\ pipeData'[i] = pipe[i]
      BY <1>1, QueueTypes DEF QueueInv
    <3>. QED
      BY <3>1, QueuedStays
  <2>. QED
    BY <1>1, <2>1 DEF QueueInv, AddedOnce
<1>3. PlaceInv'
  <2>1. ASSUME NEW f \in Fds, open'[f] # NoSocket, Registered(open[f])'
        PROVE  \/ f \in DOMAIN listeners' \cup DOMAIN clients'
               \/ \E i \in DOMAIN pipeData' : pipeData'[i].fd = f
    <3>1. open'[f] \in Sockets
      BY <2>1 DEF TypeOK
    <3>2. Registered(open'[f]) /\ open[f] = open'[f]
      BY <2>1, <3>1 DEF Steady, Registered
    <3>. QED
      BY <1>1, <2>1, <3>2 DEF PlaceInv, SameMaps
  <2>. QED
    BY <2>1, EntriesStay DEF PlaceInv
<1>. QED
  BY <1>2, <1>3

\* A socket is given to the dancer.
LEMMA HeldAdded ==
  ASSUME TypeOK, TypeOK', KernelInv, QueueInv, PlaceInv,
         NEW s \in Sockets, step[s] \in {"limbo", "numbered"}, step' = [step EXCEPT ![s] = "open"],
         NEW m \in Messages, m.sock = s, m.id = ident[s], m.fd = fdOf[s],
         m.msg = IF s \in Listeners THEN "ListenerAdd" ELSE "ConnectionAdd",
         pipe' = Append(pipe, m),
         UNCHANGED <<pipeData, idVars, fdOf, open, listeners, clients>>
  PROVE  QueueInv' /\ PlaceInv'
<1>1. /\ \A i \in DOMAIN pipe' : \/ i \in DOMAIN pipe /\ pipe'[i] = pipe[i] /\ i <= Len(pipe)
                                 \/ i = Len(pipe) + 1 /\ pipe'[i] = m
      /\ \A i \in DOMAIN pipe : i \in DOMAIN pipe' /\ pipe'[i] = pipe[i]
      /\ Len(pipe) + 1 \in DOMAIN pipe' /\ pipe'[Len(pipe) + 1] = m
  <2>1. pipe \in Seq(Messages)
    BY QueueTypes
  <2>. QED
    BY <2>1, AppendFacts
<1>2. /\ fdOf[s] \in Fds /\ open[fdOf[s]] = s /\ fdOf[s] # 0 /\ ~ Registered(s) /\ Registered(s)'
      /\ \A t \in Sockets : t # s => (Registered(t)' <=> Registered(t))
      /\ \A t \in Sockets : Registered(t) => t # s /\ Registered(t)'
  BY ConstantFacts DEF KernelInv, Registered, TypeOK
<1>3. fdOf[s] \notin DOMAIN listeners \cup DOMAIN clients
  BY <1>2 DEF PlaceInv, Stands
<1>4. Queued(m)'
  BY <1>2, <1>3 DEF Queued
<1>5. ASSUME NEW n \in Messages, Queued(n) PROVE Queued(n)' /\ n.fd # m.fd
  BY <1>2, <1>5 DEF Queued, Messages
<1>6. /\ \A i \in DOMAIN pipe : pipe[i] \in Messages /\ Queued(pipe[i])
      /\ \A i \in DOMAIN pipeData : pipeData[i] \in Messages /\ Queued(pipeData[i])
  BY QueueTypes DEF QueueInv
<1>7. QueueInv'
  <2>1. ASSUME NEW i \in DOMAIN pipe' PROVE Queued(pipe[i])'
    <3>1. CASE i \in DOMAIN pipe /\ pipe'[i] = pipe[i]
      BY <1>5, <1>6, <3>1
    <3>2. CASE pipe'[i] = m
      BY <1>4, <3>2
    <3>. QED
      BY <1>1, <3>1, <3>2
  <2>2. ASSUME NEW i \in DOMAIN pipeData' PROVE Queued(pipeData[i])'
    BY <1>5, <1>6
  <2>. QED
    BY <1>1, <1>5, <1>6, <2>1, <2>2 DEF QueueInv, AddedOnce
<1>8. PlaceInv'
  <2>1. ASSUME NEW f \in Fds, open'[f] # NoSocket, Registered(open[f])'
        PROVE  \/ f \in DOMAIN listeners' \cup DOMAIN clients'
               \/ \E i \in DOMAIN pipe' : pipe'[i].fd = f
               \/ \E i \in DOMAIN pipeData' : pipeData'[i].fd = f
    <3>1. CASE open[f] = s
      <4>1. fdOf[s] = f
        BY <2>1, <3>1 DEF KernelInv
      <4>. QED
        BY <1>1, <4>1
    <3>2. CASE open[f] # s
      <4>1. open[f] \in Sockets /\ open'[f] = open[f]
        BY <2>1 DEF TypeOK
      <4>2. Registered(open[f])
        BY <1>2, <2>1, <3>2, <4>1
      <4>3. \/ f \in DOMAIN listeners \cup DOMAIN clients
            \/ \E i \in DOMAIN pipe : pipe[i].fd = f
            \/ \E i \in DOMAIN pipeData : pipeData[i].fd = f
        BY <2>1, <4>1, <4>2 DEF PlaceInv
      <4>. QED
        BY <1>1, <4>3
    <3>. QED
      BY <3>1, <3>2
  <2>2. \A f \in DOMAIN listeners' : Stands(listeners[f], f)'
    BY <1>2, EntryTypes DEF PlaceInv, Stands
  <2>3. \A f \in DOMAIN clients' : Stands(clients[f], f)'
    BY <1>2, EntryTypes DEF PlaceInv, Stands
  <2>. QED
    BY <2>1, <2>2, <2>3 DEF PlaceInv
<1>. QED
  BY <1>7, <1>8

\* The first message is dropped: it is no Add, or its descriptor is in a map now.
\* D is the descriptors there are entries for then.
LEMMA TailKeeps ==
  ASSUME TypeOK, QueueInv, pipeData # <<>>, pipeData' = Tail(pipeData), UNCHANGED pipe
  PROVE  /\ \A i \in DOMAIN pipeData' :
              i + 1 \in DOMAIN pipeData /\ pipeData'[i] = pipeData[i + 1] /\ i + 1 # 1 /\ i \in Int
         /\ AddedOnce(pipe)' /\ AddedOnce(pipeData)'
         /\ \A i \in DOMAIN pipe', j \in DOMAIN pipeData' :
              pipe'[i].fd = pipeData'[j].fd => pipe'[i].fd = 0
         /\ \A f \in Fds : /\ \E i \in DOMAIN pipeData : pipeData[i].fd = f
                           /\ f # Head(pipeData).fd
                           => \E i \in DOMAIN pipeData' : pipeData'[i].fd = f
         /\ \A i \in DOMAIN pipe' : Head(pipeData).fd # 0 => pipe'[i].fd # Head(pipeData).fd
         /\ \A i \in DOMAIN pipeData' : Head(pipeData).fd # 0 => pipeData'[i].fd # Head(pipeData).fd
<1>1. pipeData \in Seq(Messages)
  BY QueueTypes
<1>2. /\ Head(pipeData) = pipeData[1] /\ 1 \in DOMAIN pipeData
      /\ \A i \in DOMAIN pipeData' :
           i \in Nat /\ i # 0 /\ i + 1 \in DOMAIN pipeData /\ pipeData'[i] = pipeData[i + 1]
      /\ \A i \in DOMAIN pipeData :
           i = 1 \/ (i - 1 \in DOMAIN pipeData' /\ pipeData'[i - 1] = pipeData[i])
  BY <1>1, TailFacts
<1>3. AddedOnce(pipe)'
  BY DEF QueueInv, AddedOnce
<1>4. AddedOnce(pipeData)'
  <2>1. AddedOnce(pipeData)
    BY DEF QueueInv
  <2>2. ASSUME NEW i \in DOMAIN pipeData', NEW j \in DOMAIN pipeData', pipeData'[i].fd = pipeData'[j].fd,
               pipeData'[i].fd # 0
        PROVE  i = j
    <3>1. i + 1 = j + 1
      BY <1>2, <2>1, <2>2 DEF AddedOnce
    <3>. QED
      BY <1>2, <3>1
  <2>. QED
    BY <2>2 DEF AddedOnce
<1>5. \A i \in DOMAIN pipe', j \in DOMAIN pipeData' : pipe'[i].fd = pipeData'[j].fd => pipe'[i].fd = 0
  BY <1>2 DEF QueueInv
<1>6. ASSUME NEW f \in Fds, NEW i \in DOMAIN pipeData, pipeData[i].fd = f, f # Head(pipeData).fd
      PROVE  \E j \in DOMAIN pipeData' : pipeData'[j].fd = f
  BY <1>2, <1>6
<1>7. \A i \in DOMAIN pipe' : Head(pipeData).fd # 0 => pipe'[i].fd # Head(pipeData).fd
  BY <1>2 DEF QueueInv
<1>8. ASSUME NEW i \in DOMAIN pipeData', Head(pipeData).fd # 0, pipeData'[i].fd = Head(pipeData).fd
      PROVE  FALSE
  <2>1. i + 1 = 1
    BY <1>2, <1>8 DEF QueueInv, AddedOnce
  <2>. QED
    BY <1>2, <2>1
<1>9. \A i \in DOMAIN pipeData' :
        i + 1 \in DOMAIN pipeData /\ pipeData'[i] = pipeData[i + 1] /\ i + 1 # 1 /\ i \in Int
  BY <1>2
<1>. QED
  BY <1>3, <1>4, <1>5, <1>6, <1>7, <1>8, <1>9

\* An entry is made for the descriptor of the Add.
LEMMA HeldApplied ==
  ASSUME TypeOK, TypeOK', KernelInv, QueueInv, PlaceInv, pipeData # <<>>, Head(pipeData).fd # 0,
         NEW h, h = Head(pipeData),
         \/ h.sock \in Listeners /\ listeners' = Set(listeners, h.fd, Entry(h)) /\ UNCHANGED clients
         \/ h.sock \in Conns /\ clients' = Set(clients, h.fd, Entry(h)) /\ UNCHANGED listeners,
         pipeData' = Tail(pipeData), UNCHANGED <<pipe, step, open, fdOf, idVars>>
  PROVE  QueueInv' /\ PlaceInv'
<1>1. h \in Messages /\ Queued(h) /\ h.fd \in Fds
  <2>1. h = pipeData[1] /\ 1 \in DOMAIN pipeData
    BY QueueTypes, TailFacts
  <2>2. h \in Messages /\ Queued(h)
    BY <2>1, QueueTypes DEF QueueInv
  <2>. QED
    BY <2>2 DEF Messages
<1>2. /\ DOMAIN listeners' \cup DOMAIN clients' = DOMAIN listeners \cup DOMAIN clients \cup {h.fd}
      /\ \A f \in DOMAIN listeners' :
           (f \in DOMAIN listeners /\ listeners'[f] = listeners[f]) \/ (f = h.fd /\ listeners'[f] = Entry(h))
      /\ \A f \in DOMAIN clients' :
           (f \in DOMAIN clients /\ clients'[f] = clients[f]) \/ (f = h.fd /\ clients'[f] = Entry(h))
  <2>1. CASE listeners' = Set(listeners, h.fd, Entry(h)) /\ UNCHANGED clients
    <3>1. DOMAIN listeners' = DOMAIN listeners \cup {h.fd} /\ listeners'[h.fd] = Entry(h)
      BY <2>1 DEF Set
    <3>2. \A g \in DOMAIN listeners : g # h.fd => listeners'[g] = listeners[g]
      BY <2>1 DEF Set
    <3>. QED
      BY <2>1, <3>1, <3>2
  <2>2. CASE clients' = Set(clients, h.fd, Entry(h)) /\ UNCHANGED listeners
    <3>1. DOMAIN clients' = DOMAIN clients \cup {h.fd} /\ clients'[h.fd] = Entry(h)
      BY <2>2 DEF Set
    <3>2. \A g \in DOMAIN clients : g # h.fd => clients'[g] = clients[g]
      BY <2>2 DEF Set
    <3>. QED
      BY <2>2, <3>1, <3>2
  <2>. QED
    BY <2>1, <2>2
<1>3. ASSUME NEW n \in Messages, Queued(n), n.fd # h.fd \/ n.fd = 0 PROVE Queued(n)'
  <2>1. n.fd # 0 => n.fd \notin DOMAIN listeners' \cup DOMAIN clients'
    BY <1>2, <1>3 DEF Queued
  <2>. QED
    BY <1>3, <2>1 DEF Queued, Registered
<1>4. QueueInv'
  <2>1. ASSUME NEW i \in DOMAIN pipe' PROVE Queued(pipe[i])'
    <3>1. pipe[i] \in Messages /\ Queued(pipe[i]) /\ pipe[i].fd # h.fd
      BY TailKeeps, QueueTypes DEF QueueInv
    <3>. QED
      BY <1>3, <3>1
  <2>2. ASSUME NEW i \in DOMAIN pipeData' PROVE Queued(pipeData[i])'
    <3>1. i + 1 \in DOMAIN pipeData /\ pipeData'[i] = pipeData[i + 1] /\ pipeData'[i].fd # h.fd
      BY TailKeeps
    <3>2. pipeData'[i] \in Messages /\ Queued(pipeData'[i])
      BY <3>1, QueueTypes DEF QueueInv
    <3>. QED
      BY <1>3, <3>1, <3>2
  <2>. QED
    BY <2>1, <2>2, TailKeeps DEF QueueInv
<1>5. PlaceInv'
  <2>1. ASSUME NEW f \in Fds, open'[f] # NoSocket, Registered(open[f])'
        PROVE  \/ f \in DOMAIN listeners' \cup DOMAIN clients'
               \/ \E i \in DOMAIN pipe' : pipe'[i].fd = f
               \/ \E i \in DOMAIN pipeData' : pipeData'[i].fd = f
    <3>1. \/ f \in DOMAIN listeners \cup DOMAIN clients
          \/ \E i \in DOMAIN pipe : pipe[i].fd = f
          \/ \E i \in DOMAIN pipeData : pipeData[i].fd = f
      BY <2>1 DEF PlaceInv, Registered
    <3>. QED
      BY <1>2, <3>1, TailKeeps
  <2>2. ASSUME NEW e, NEW f, Stands(e, f) PROVE Stands(e, f)'
    BY <2>2 DEF Stands, Registered
  <2>3. Stands(Entry(h), h.fd)
    BY <1>1 DEF Stands, Entry, Queued
  <2>4. ASSUME NEW f \in DOMAIN listeners' PROVE Stands(listeners[f], f)'
    BY <1>2, <2>2, <2>3 DEF PlaceInv
  <2>5. ASSUME NEW f \in DOMAIN clients' PROVE Stands(clients[f], f)'
    BY <1>2, <2>2, <2>3 DEF PlaceInv
  <2>. QED
    BY <2>1, <2>4, <2>5 DEF PlaceInv
<1>. QED
  BY <1>4, <1>5

\* The sockets of the descriptors D are closed, with their entries; a message that
\* is no Add may go.
LEMMA HeldClosed ==
  ASSUME TypeOK, TypeOK', KernelInv, QueueInv, PlaceInv, NEW D,
         \A f \in D : f \in DOMAIN listeners \cup DOMAIN clients,
         \A f \in Fds : open'[f] = IF f \in D THEN NoSocket ELSE open[f],
         DOMAIN listeners' = DOMAIN listeners \ D, DOMAIN clients' = DOMAIN clients \ D,
         \A f \in DOMAIN listeners' :
           listeners'[f].sock = listeners[f].sock /\ listeners'[f].id = listeners[f].id,
         \A f \in DOMAIN clients' :
           clients'[f].sock = clients[f].sock /\ clients'[f].id = clients[f].id,
         \/ UNCHANGED pipeData
         \/ pipeData # <<>> /\ Head(pipeData).fd = 0 /\ pipeData' = Tail(pipeData),
         UNCHANGED <<step, fdOf, idVars, pipe>>
  PROVE  KernelInv' /\ QueueInv' /\ PlaceInv'
<1>1. D \subseteq Fds
  BY EntryTypes
<1>2. ASSUME NEW f \in D PROVE Registered(open[f]) /\ open[f] \in Sockets
  BY <1>2, EntryTypes DEF PlaceInv, Stands
<1>3. KernelInv'
  <2>1. \A f \in Fds : open'[f] # NoSocket => open'[f] = open[f]
    OBVIOUS
  <2>2. \A s \in Sockets : step[s] \in {"bound", "numbering", "numbered", "limbo"} => fdOf[s] \notin D
    BY <1>2 DEF KernelInv, Registered
  <2>3. ASSUME NEW s \in Sockets
        PROVE  /\ step[s] = "new" => fdOf[s] = 0
               /\ step[s] \in {"bound", "numbering", "numbered", "limbo"} =>
                    fdOf[s] \in Fds /\ open'[fdOf[s]] = s
               /\ step[s] \in {"new", "bound", "numbering"} => ident[s] = 0
               /\ step[s] \in {"numbered", "limbo", "open", "gone"} => ident[s] # 0
    BY <2>2 DEF KernelInv
  <2>4. \A f \in Fds : open'[f] # NoSocket => fdOf[open'[f]] = f
    BY <2>1 DEF KernelInv
  <2>. QED
    BY <2>3, <2>4 DEF KernelInv
<1>4. ASSUME NEW m \in Messages, Queued(m) PROVE Queued(m)'
  <2>1. m.fd # 0 => m.fd \in Fds /\ m.fd \notin DOMAIN listeners \cup DOMAIN clients
    BY <1>4 DEF Queued, Messages
  <2>2. m.fd # 0 => open'[m.fd] = open[m.fd]
    BY <2>1
  <2>. QED
    BY <1>4, <2>1, <2>2 DEF Queued, Registered
<1>5. /\ \A i \in DOMAIN pipe : pipe[i] \in Messages /\ Queued(pipe[i])
      /\ \A i \in DOMAIN pipeData : pipeData[i] \in Messages /\ Queued(pipeData[i])
  BY QueueTypes DEF QueueInv
<1>6. /\ \A i \in DOMAIN pipeData' : \E j \in DOMAIN pipeData : pipeData'[i] = pipeData[j]
      /\ AddedOnce(pipe)' /\ AddedOnce(pipeData)'
      /\ \A i \in DOMAIN pipe', j \in DOMAIN pipeData' :
           pipe'[i].fd = pipeData'[j].fd => pipe'[i].fd = 0
      /\ \A f \in Fds : (\E i \in DOMAIN pipeData : pipeData[i].fd = f)
                           => \E i \in DOMAIN pipeData' : pipeData'[i].fd = f
  <2>1. CASE UNCHANGED pipeData
    BY <2>1 DEF QueueInv, AddedOnce
  <2>2. CASE pipeData # <<>> /\ Head(pipeData).fd = 0 /\ pipeData' = Tail(pipeData)
    <3>1. \A i \in DOMAIN pipeData' : i + 1 \in DOMAIN pipeData /\ pipeData'[i] = pipeData[i + 1]
      BY <2>2, TailKeeps
    <3>2. \A f \in Fds : f # Head(pipeData).fd
      BY <2>2, ConstantFacts
    <3>. QED
      BY <2>2, <3>1, <3>2, TailKeeps
  <2>. QED
    BY <2>1, <2>2
<1>7. QueueInv'
  <2>1. ASSUME NEW i \in DOMAIN pipe' PROVE Queued(pipe[i])'
    BY <1>4, <1>5
  <2>2. ASSUME NEW i \in DOMAIN pipeData' PROVE Queued(pipeData[i])'
    <3>1. PICK j \in DOMAIN pipeData : pipeData'[i] = pipeData[j]
      BY <1>6
    <3>. QED
      BY <1>4, <1>5, <3>1
  <2>. QED
    BY <1>6, <2>1, <2>2 DEF QueueInv
<1>8. PlaceInv'
  <2>1. ASSUME NEW f \in Fds, open'[f] # NoSocket, Registered(open[f])'
        PROVE  \/ f \in DOMAIN listeners' \cup DOMAIN clients'
               \/ \E i \in DOMAIN pipe' : pipe'[i].fd = f
               \/ \E i \in DOMAIN pipeData' : pipeData'[i].fd = f
    <3>1. open'[f] = open[f] /\ f \notin D
      BY <2>1
    <3>2. Registered(open[f])
      BY <2>1, <3>1 DEF Registered
    <3>3. \/ f \in DOMAIN listeners \cup DOMAIN clients
          \/ \E i \in DOMAIN pipe : pipe[i].fd = f
          \/ \E i \in DOMAIN pipeData : pipeData[i].fd = f
      BY <2>1, <3>1, <3>2 DEF PlaceInv
    <3>. QED
      BY <1>6, <3>1, <3>3
  <2>2. ASSUME NEW f \in DOMAIN listeners' PROVE Stands(listeners[f], f)'
    <3>1. f \in DOMAIN listeners /\ f \in Fds /\ f \notin D /\ Stands(listeners[f], f)
      BY EntryTypes DEF PlaceInv
    <3>. QED
      BY <3>1 DEF Stands, Registered
  <2>3. ASSUME NEW f \in DOMAIN clients' PROVE Stands(clients[f], f)'
    <3>1. f \in DOMAIN clients /\ f \in Fds /\ f \notin D /\ Stands(clients[f], f)
      BY EntryTypes DEF PlaceInv
    <3>. QED
      BY <3>1 DEF Stands, Registered
  <2>. QED
    BY <2>1, <2>2, <2>3 DEF PlaceInv
<1>. QED
  BY <1>3, <1>7, <1>8

-----------------------------------------------------------------------------
(* Types, places and the dancer's loop: every step.                        *)

BaseInv == TypeOK /\ KernelInv /\ QueueInv /\ PlaceInv /\ DancerInv

LEMMA TypedStep == ASSUME BaseInv, Next PROVE TypeOK'
BY ProgramTyped, DancerTyped DEF BaseInv, Next

\* The steps that neither give a socket away nor close one given away.
Plain ==
  \/ \E s \in Sockets : Socket(s) \/ SocketFails(s) \/ Close(s) \/ ReadIdentifier(s) \/ WriteIdentifier(s)
  \/ \E c \in Conns : Send(c)
  \/ \E c \in Accepted : CloseLimbo(c) \/ PushClient(c)
  \/ ClosePipe \/ FinishUp
  \/ Poll \/ PollFails \/ HandlePipe
  \/ \E f \in Fds : \/ \E s \in Accepted : HandleListener(f, s)
                    \/ AcceptFails(f) \/ SkipListener(f)
                    \/ \E in \in {"none", "data", "closed"}, k \in 0 .. MaxSends,
                          ok \in BOOLEAN : HandleClient(f, in, k, ok)
  \/ ApplyListenerAdd \/ ApplyConnectionAdd \/ ApplyQueueData \/ ApplyDone

LEMMA NextIs == ASSUME Next PROVE Plain \/ (\E s \in Sockets : Add(s)) \/ ApplySocketRemove \/ Final
BY ConstantFacts DEF Next, Program, Dancer, Plain, Sockets, Conns

LEMMA PlainKernel == ASSUME BaseInv, Plain PROVE KernelInv' /\ Steady
<1>. USE DEF BaseInv
<1>1. ASSUME NEW s \in Sockets, Socket(s) \/ SocketFails(s) PROVE KernelInv' /\ Steady
  <2>1. /\ step[s] = "new" /\ OpenFd(s) /\ UNCHANGED ident
        /\ step' = [step EXCEPT ![s] = "bound"] \/ step' = [step EXCEPT ![s] = "failed"]
    BY <1>1 DEF Socket, SocketFails
  <2>. QED
    BY <2>1, OpenedKernel
<1>2. ASSUME NEW s \in Sockets, Close(s) PROVE KernelInv' /\ Steady
  BY <1>2, SteppedKernel DEF Close
<1>3. ASSUME NEW s \in Sockets, ReadIdentifier(s) PROVE KernelInv' /\ Steady
  BY <1>3, SteppedKernel DEF ReadIdentifier
<1>4. ASSUME NEW s \in Sockets, WriteIdentifier(s) PROVE KernelInv' /\ Steady
  <2>1. Successor(register[s]) # 0
    BY SuccessorType DEF TypeOK
  <2>2. /\ step[s] = "numbering" /\ step' = [step EXCEPT ![s] = "numbered"]
        /\ \E n : n # 0 /\ ident' = [ident EXCEPT ![s] = n]
        /\ UNCHANGED <<fdOf, open>>
    BY <1>4, <2>1 DEF WriteIdentifier
  <2>. QED
    BY <2>2, SteppedKernel
<1>5. ASSUME NEW c \in Accepted, CloseLimbo(c) PROVE KernelInv' /\ Steady
  BY <1>5, ClosedKernel, ConstantFacts DEF CloseLimbo
<1>6. ASSUME NEW s \in Accepted, PushClient(s) PROVE KernelInv' /\ Steady
  <2>1. s \in Sockets /\ step[s] = "numbered" /\ UNCHANGED <<fdOf, ident>>
    BY <1>6, ConstantFacts DEF PushClient
  <2>2. CASE finishing
    <3>1. open' = [open EXCEPT ![fdOf[s]] = NoSocket] /\ step' = [step EXCEPT ![s] = "failed"]
      BY <1>6, <2>2 DEF PushClient
    <3>. QED
      BY <2>1, <3>1, ClosedKernel
  <2>3. CASE ~ finishing
    <3>1. fdOf[s] \in Fds
      BY <2>1 DEF KernelInv
    <3>2. step' = [step EXCEPT ![s] = "limbo"] /\ UNCHANGED open
      BY <1>6, <2>3, <3>1 DEF PushClient, TypeOK
    <3>. QED
      BY <2>1, <3>2, SteppedKernel
  <2>. QED
    BY <2>2, <2>3
<1>7. ASSUME NEW f \in Fds, NEW s \in Accepted, HandleListener(f, s) PROVE KernelInv' /\ Steady
  <2>1. /\ s \in Sockets /\ step[s] = "new" /\ OpenFd(s) /\ UNCHANGED ident
        /\ step' = [step EXCEPT ![s] = "bound"]
    BY <1>7, ConstantFacts DEF HandleListener
  <2>. QED
    BY <2>1, OpenedKernel
<1>8. ASSUME UNCHANGED <<step, fdOf, open, ident>> PROVE KernelInv' /\ Steady
  BY <1>8, SameKernel
<1>9. ASSUME NEW c \in Conns, Send(c) PROVE UNCHANGED <<step, fdOf, open, ident>>
  BY <1>9 DEF Send
<1>10. ASSUME ClosePipe \/ FinishUp \/ Poll \/ PollFails \/ HandlePipe \/ ApplyListenerAdd
              \/ ApplyConnectionAdd \/ ApplyQueueData \/ ApplyDone
       PROVE  UNCHANGED <<step, fdOf, open, ident>>
  BY <1>10 DEF ClosePipe, FinishUp, Poll, PollFails, HandlePipe, ApplyListenerAdd,
               ApplyConnectionAdd, ApplyQueueData, ApplyDone
<1>11. ASSUME NEW f \in Fds, AcceptFails(f) \/ SkipListener(f) PROVE UNCHANGED <<step, fdOf, open, ident>>
  BY <1>11 DEF AcceptFails, SkipListener
<1>12. ASSUME NEW f \in Fds, NEW in \in {"none", "data", "closed"}, NEW k \in 0 .. MaxSends,
              NEW ok \in BOOLEAN, HandleClient(f, in, k, ok)
       PROVE  UNCHANGED <<step, fdOf, open, ident>>
  BY <1>12 DEF HandleClient
<1>. HIDE DEF BaseInv
<1>. QED
  BY <1>1, <1>2, <1>3, <1>4, <1>5, <1>6, <1>7, <1>8, <1>9, <1>10, <1>11, <1>12 DEF Plain

\* A socket that accept returned keeps the dancer at its listener.
LEMMA DancerSame ==
  ASSUME DancerInv, UNCHANGED <<phase, todo, listeners>>,
         phase # "handle" => pipeData' = <<>>,
         \A s \in Accepted : step'[s] \in {"bound", "numbering", "numbered"} =>
                               step[s] \in {"bound", "numbering", "numbered"}
  PROVE  DancerInv'
BY DEF DancerInv, Accepting, Due

LEMMA PlainDancer == ASSUME BaseInv, Plain, TypeOK' PROVE DancerInv'
<1>. USE DEF BaseInv
<1>1. ASSUME NEW s \in Sockets, Socket(s) \/ SocketFails(s) PROVE DancerInv'
  <2>1. s \notin Accepted
    BY <1>1, NetworkingAssumption DEF Socket, SocketFails, Conns
  <2>. QED
    BY <1>1, <2>1, DancerSame, ConstantFacts DEF Socket, SocketFails, TypeOK, DancerInv
<1>2. ASSUME NEW s \in Sockets, Close(s) \/ ReadIdentifier(s) \/ WriteIdentifier(s) PROVE DancerInv'
  <2>1. \A t \in Accepted : step'[t] \in {"bound", "numbering", "numbered"} =>
                               step[t] \in {"bound", "numbering", "numbered"}
    BY <1>2, ConstantFacts DEF Close, ReadIdentifier, WriteIdentifier, TypeOK
  <2>. QED
    BY <1>2, <2>1, DancerSame DEF Close, ReadIdentifier, WriteIdentifier, DancerInv
<1>3. ASSUME NEW c \in Conns, Send(c) PROVE DancerInv'
  BY <1>3, DancerSame DEF Send, DancerInv
<1>4. ASSUME NEW c \in Accepted, CloseLimbo(c) PROVE DancerInv'
  <2>1. \A t \in Accepted : step'[t] \in {"bound", "numbering", "numbered"} =>
                               step[t] \in {"bound", "numbering", "numbered"}
    BY <1>4, ConstantFacts DEF CloseLimbo, TypeOK
  <2>. QED
    BY <1>4, <2>1, DancerSame DEF CloseLimbo, DancerInv
<1>5. ASSUME NEW s \in Accepted, PushClient(s) PROVE DancerInv'
  <2>1. phase = "handle" /\ phase' = "handle" /\ s \in Accepting
    BY <1>5 DEF PushClient, DancerInv
  <2>2. Accepting' = {}
    <3>1. \A t \in Accepting : t = s
      BY <2>1 DEF DancerInv
    <3>2. \A t \in Accepted : step'[t] = IF t = s THEN (IF finishing THEN "failed" ELSE "limbo") ELSE step[t]
      BY <1>5, ConstantFacts DEF PushClient, TypeOK
    <3>. QED
      BY <3>1, <3>2 DEF Accepting
  <2>. QED
    BY <2>1, <2>2 DEF DancerInv
<1>6. ASSUME ClosePipe \/ FinishUp PROVE DancerInv'
  BY <1>6, DancerSame DEF ClosePipe, FinishUp, DancerInv
<1>7. ASSUME NEW f \in Fds, NEW s \in Accepted, HandleListener(f, s) PROVE DancerInv'
  <2>1. /\ Accepting = {} /\ todo # {} /\ Due \in DOMAIN listeners /\ phase = "handle"
        /\ UNCHANGED <<phase, todo, listeners>>
    BY <1>7 DEF HandleListener, Handling
  <2>2. \A t \in Accepting' : t = s
    <3>1. \A t \in Accepted : t # s => step'[t] = step[t]
      BY <1>7, ConstantFacts DEF HandleListener, TypeOK
    <3>. QED
      BY <2>1, <3>1 DEF Accepting
  <2>3. Due' = Due
    BY <2>1 DEF Due
  <2>. QED
    BY <2>1, <2>2, <2>3 DEF DancerInv
<1>8. ASSUME Poll \/ PollFails \/ HandlePipe PROVE DancerInv'
  <2>1. phase # "handle" /\ Accepting' = Accepting
    BY <1>8 DEF Poll, PollFails, HandlePipe, Accepting
  <2>2. Accepting = {}
    BY <2>1 DEF DancerInv
  <2>3. phase' # "handle" => pipeData' = <<>>
    BY <1>8 DEF Poll, PollFails, HandlePipe, DancerInv
  <2>. QED
    BY <2>1, <2>2, <2>3 DEF DancerInv
<1>9. ASSUME phase = "handle", Accepting = {}, UNCHANGED step, phase' = "handle" \/ pipeData' = <<>>
      PROVE  DancerInv'
  <2>1. Accepting' = {}
    BY <1>9 DEF Accepting
  <2>. QED
    BY <1>9, <2>1 DEF DancerInv
<1>10. ASSUME NEW f \in Fds, AcceptFails(f) \/ SkipListener(f) PROVE DancerInv'
  BY <1>9, <1>10 DEF AcceptFails, SkipListener, Handling
<1>11. ASSUME NEW f \in Fds, NEW in \in {"none", "data", "closed"}, NEW k \in 0 .. MaxSends,
              NEW ok \in BOOLEAN, HandleClient(f, in, k, ok)
       PROVE  DancerInv'
  BY <1>9, <1>11 DEF HandleClient, Handling
<1>12. ASSUME ApplyListenerAdd \/ ApplyConnectionAdd \/ ApplyQueueData PROVE DancerInv'
  BY <1>9, <1>12 DEF ApplyListenerAdd, ApplyConnectionAdd, ApplyQueueData, Applying, Handled
<1>13. ASSUME ApplyDone PROVE DancerInv'
  BY <1>9, <1>13 DEF ApplyDone, Handled
<1>. HIDE DEF BaseInv
<1>. QED
  BY <1>1, <1>2, <1>3, <1>4, <1>5, <1>6, <1>7, <1>8, <1>10, <1>11, <1>12, <1>13 DEF Plain

LEMMA SameMapsKept == ASSUME UNCHANGED <<listeners, clients>> PROVE SameMaps
BY DEF SameMaps

LEMMA RemovalQueued ==
  ASSUME BaseInv
  PROVE  /\ \A f \in DOMAIN listeners : /\ Queued(Removal(listeners[f])) /\ Removal(listeners[f]).fd = 0
                                        /\ Removal(listeners[f]) \in Messages
         /\ \A f \in DOMAIN clients : /\ Queued(Removal(clients[f])) /\ Removal(clients[f]).fd = 0
                                      /\ Removal(clients[f]) \in Messages
<1>1. /\ \A f \in DOMAIN listeners : Registered(listeners[f].sock) /\ Removal(listeners[f]) \in Messages
      /\ \A f \in DOMAIN clients : Registered(clients[f].sock) /\ Removal(clients[f]) \in Messages
  BY MessageTypes DEF BaseInv, PlaceInv, Stands
<1>2. ASSUME NEW e, Registered(e.sock) PROVE Queued(Removal(e)) /\ Removal(e).fd = 0
  BY <1>2 DEF Removal, Message, Queued
<1>. QED
  BY <1>1, <1>2

LEMMA PlainHeld ==
  ASSUME BaseInv, Plain, TypeOK', Steady PROVE QueueInv' /\ PlaceInv'
<1>. USE DEF BaseInv
<1>1. ASSUME UNCHANGED <<pipe, pipeData, listeners, clients>> PROVE QueueInv' /\ PlaceInv'
  BY <1>1, HeldSame, SameMapsKept
<1>2. ASSUME NEW s \in Sockets, Socket(s) \/ SocketFails(s) \/ ReadIdentifier(s) \/ WriteIdentifier(s)
      PROVE  UNCHANGED <<pipe, pipeData, listeners, clients>>
  BY <1>2 DEF Socket, SocketFails, ReadIdentifier, WriteIdentifier
<1>3. ASSUME NEW s \in Accepted, CloseLimbo(s) \/ PushClient(s)
      PROVE  UNCHANGED <<pipe, pipeData, listeners, clients>>
  BY <1>3 DEF CloseLimbo, PushClient
<1>4. ASSUME ClosePipe \/ FinishUp \/ Poll \/ PollFails \/ ApplyDone
      PROVE  UNCHANGED <<pipe, pipeData, listeners, clients>>
  BY <1>4 DEF ClosePipe, FinishUp, Poll, PollFails, ApplyDone
<1>5. ASSUME NEW f \in Fds, SkipListener(f) PROVE UNCHANGED <<pipe, pipeData, listeners, clients>>
  BY <1>5 DEF SkipListener
<1>6. ASSUME NEW f \in Fds, NEW s \in Accepted, HandleListener(f, s)
      PROVE  UNCHANGED <<pipe, pipeData, listeners, clients>>
  BY <1>6 DEF HandleListener
<1>7. ASSUME NEW m \in Messages, Queued(m), m.fd = 0, Write(m), UNCHANGED <<pipeData, listeners, clients>>
      PROVE  QueueInv' /\ PlaceInv'
  BY <1>1, <1>7, HeldWritten, WriteType, SameMapsKept
<1>8. ASSUME NEW s \in Sockets, Close(s) PROVE QueueInv' /\ PlaceInv'
  <2>. DEFINE m == Message("SocketRemove", s, Kept(s), 0, 0)
  <2>1. m \in Messages /\ m.fd = 0 /\ Queued(m)
    BY <1>8, MessageTypes DEF Close, Queued, Message, Registered
  <2>2. (Write(m) \/ UNCHANGED pipe) /\ UNCHANGED <<pipeData, listeners, clients>>
    BY <1>8 DEF Close
  <2>. HIDE DEF m
  <2>. QED
    BY <1>1, <1>7, <2>1, <2>2
<1>9. ASSUME NEW c \in Conns, Send(c) PROVE QueueInv' /\ PlaceInv'
  <2>. DEFINE m == Message("ConnectionQueueData", c, Kept(c), 0, sends')
  <2>1. sends' \in 0 .. MaxSends /\ sends' # 0
    BY <1>9, ConstantFacts DEF Send, TypeOK
  <2>2. m \in Messages /\ m.fd = 0
    BY <2>1, MessageTypes, ConstantFacts DEF Message
  <2>3. Queued(m)
    BY <1>9, <2>1, ConstantFacts DEF Send, Queued, Message, Registered
  <2>4. Write(m) /\ UNCHANGED <<pipeData, listeners, clients>>
    BY <1>9 DEF Send
  <2>. HIDE DEF m
  <2>. QED
    BY <1>7, <2>2, <2>3, <2>4
<1>10. ASSUME HandlePipe PROVE QueueInv' /\ PlaceInv'
  <2>1. pipeData = <<>>
    BY <1>10 DEF HandlePipe, DancerInv
  <2>. QED
    BY <1>10, <2>1, HeldTaken, SameMapsKept DEF HandlePipe
<1>11. ASSUME NEW f \in Fds, AcceptFails(f) PROVE QueueInv' /\ PlaceInv'
  <2>1. f \in DOMAIN listeners /\ pipeData' = Append(pipeData, Removal(listeners[f]))
        /\ UNCHANGED <<pipe, listeners, clients>>
    BY <1>11 DEF AcceptFails
  <2>2. Queued(Removal(listeners[f])) /\ Removal(listeners[f]).fd = 0 /\ Removal(listeners[f]) \in Messages
    BY <2>1, RemovalQueued
  <2>. QED
    BY <2>1, <2>2, HeldWritten, SameMapsKept
<1>12. ASSUME NEW f \in Fds, NEW in \in {"none", "data", "closed"}, NEW k \in 0 .. MaxSends,
              NEW ok \in BOOLEAN, HandleClient(f, in, k, ok)
       PROVE  QueueInv' /\ PlaceInv'
  <2>1. f \in DOMAIN clients /\ UNCHANGED <<pipe, listeners>>
        /\ (UNCHANGED pipeData \/ pipeData' = Append(pipeData, Removal(clients[f])))
    BY <1>12 DEF HandleClient
  <2>2. Queued(Removal(clients[f])) /\ Removal(clients[f]).fd = 0 /\ Removal(clients[f]) \in Messages
    BY <2>1, RemovalQueued
  <2>3. SameMaps
    <3>1. DOMAIN clients' = DOMAIN clients
      BY <1>12 DEF HandleClient
    <3>2. \A g \in DOMAIN clients :
            clients[g] = [sock |-> clients[g].sock, id |-> clients[g].id, sendBufs |-> clients[g].sendBufs]
      BY DEF TypeOK, Entries
    <3>3. \A g \in DOMAIN clients : clients'[g].sock = clients[g].sock /\ clients'[g].id = clients[g].id
      BY <1>12, <2>1, <3>2 DEF HandleClient
    <3>. QED
      BY <2>1, <3>1, <3>3 DEF SameMaps
  <2>. QED
    BY <2>1, <2>2, <2>3, HeldWritten, HeldSame
<1>13. ASSUME ApplyListenerAdd PROVE QueueInv' /\ PlaceInv'
  <2>. DEFINE h == Head(pipeData)
  <2>1. Applying("ListenerAdd") /\ h.fd # 0 /\ h.sock \in Listeners /\ pipeData # <<>>
    BY <1>13, ApplyingFacts DEF ApplyListenerAdd, Queued, Applying
  <2>2. /\ listeners' = Set(listeners, h.fd, Entry(h)) /\ UNCHANGED clients
        /\ pipeData' = Tail(pipeData) /\ UNCHANGED <<pipe, step, open, fdOf, idVars>>
    BY <1>13 DEF ApplyListenerAdd
  <2>. QED
    BY <2>1, <2>2, HeldApplied
<1>14. ASSUME ApplyConnectionAdd PROVE QueueInv' /\ PlaceInv'
  <2>. DEFINE h == Head(pipeData)
  <2>0. Applying("ConnectionAdd") /\ pipeData # <<>> /\ h.msg = "ConnectionAdd"
    BY <1>14 DEF ApplyConnectionAdd, Applying
  <2>1. h.fd # 0 /\ h.sock \in Conns
    <3>1. Queued(h) /\ h.sock \in Sockets
      BY <2>0, ApplyingFacts
    <3>. QED
      BY <2>0, <3>1, ConstantFacts DEF Queued
  <2>2. /\ clients' = Set(clients, h.fd, Entry(h)) /\ UNCHANGED listeners
        /\ pipeData' = Tail(pipeData) /\ UNCHANGED <<pipe, step, open, fdOf, idVars>>
    BY <1>14 DEF ApplyConnectionAdd
  <2>. QED
    BY <2>0, <2>1, <2>2, HeldApplied
<1>15. ASSUME ApplyQueueData PROVE QueueInv' /\ PlaceInv'
  <2>. DEFINE h == Head(pipeData)
  <2>0. Applying("ConnectionQueueData") /\ pipeData # <<>> /\ h.msg = "ConnectionQueueData"
    BY <1>15 DEF ApplyQueueData, Applying
  <2>1. h.fd = 0
    BY <2>0, ApplyingFacts DEF Queued
  <2>2. /\ DOMAIN clients' = DOMAIN clients
        /\ \A g \in DOMAIN clients : clients'[g].sock = clients[g].sock /\ clients'[g].id = clients[g].id
    <3>. DEFINE cs == Matching(clients, h.id)
    <3>1. CASE cs = {}
      BY <1>15, <3>1 DEF ApplyQueueData
    <3>2. CASE cs # {}
      <4>1. clients' = [clients EXCEPT ![Min(cs)].sendBufs = Append(@, [sock |-> h.sock, n |-> h.n])]
        BY <1>15, <3>2 DEF ApplyQueueData
      <4>2. \A g \in DOMAIN clients :
            clients[g] = [sock |-> clients[g].sock, id |-> clients[g].id, sendBufs |-> clients[g].sendBufs]
        BY DEF TypeOK, Entries
      <4>. HIDE DEF cs, h
      <4>. QED
        BY <4>1, <4>2
    <3>. QED
      BY <3>1, <3>2
  <2>3. SameMaps
    BY <1>15, <2>2 DEF ApplyQueueData, SameMaps
  <2>4. /\ pipeData' = Tail(pipeData) /\ UNCHANGED <<pipe, step, open, fdOf, idVars, listeners>>
    BY <1>15 DEF ApplyQueueData
  <2>. DEFINE none == {}
  <2>5. /\ \A f \in none : f \in DOMAIN listeners \cup DOMAIN clients
        /\ \A f \in Fds : open'[f] = IF f \in none THEN NoSocket ELSE open[f]
        /\ DOMAIN listeners' = DOMAIN listeners \ none /\ DOMAIN clients' = DOMAIN clients \ none
    BY <2>2, <2>4
  <2>6. /\ \A f \in DOMAIN listeners' :
             listeners'[f].sock = listeners[f].sock /\ listeners'[f].id = listeners[f].id
        /\ \A f \in DOMAIN clients' :
             clients'[f].sock = clients[f].sock /\ clients'[f].id = clients[f].id
    BY <2>2, <2>4
  <2>. HIDE DEF h, none
  <2>7. pipeData # <<>> /\ Head(pipeData).fd = 0 /\ pipeData' = Tail(pipeData)
    BY <2>0, <2>1, <2>4 DEF h
  <2>. QED
    BY <2>4, <2>5, <2>6, <2>7, HeldClosed
<1>. HIDE DEF BaseInv
<1>. QED
  BY <1>1, <1>2, <1>3, <1>4, <1>5, <1>6, <1>8, <1>9, <1>10, <1>11, <1>12, <1>13, <1>14, <1>15 DEF Plain

LEMMA AddBase == ASSUME BaseInv, NEW s \in Sockets, Add(s), TypeOK' PROVE BaseInv'
<1>. USE DEF BaseInv
<1>. DEFINE m == Message(IF s \in Listeners THEN "ListenerAdd" ELSE "ConnectionAdd",
                         s, ident[s], fdOf[s], 0)
<1>1. /\ step[s] \in {"limbo", "numbered"}
      /\ UNCHANGED <<idVars, fdOf, open, pipeData, listeners, clients, phase, todo>>
      /\ m \in Messages /\ Write(m)
      /\ s \in Accepted => step[s] = "limbo"
  BY MessageTypes DEF Add
<1>2. m.sock = s /\ m.id = ident[s] /\ m.fd = fdOf[s]
      /\ m.msg = IF s \in Listeners THEN "ListenerAdd" ELSE "ConnectionAdd"
  BY DEF Message
<1>3. \A t \in Sockets : t # s => step'[t] = step[t]
  BY DEF Add, TypeOK
<1>4. step'[s] = IF Readable THEN "open" ELSE "astray"
  BY DEF Add, TypeOK
<1>5. KernelInv'
  BY <1>1, <1>3, <1>4 DEF KernelInv
<1>6. QueueInv' /\ PlaceInv'
  <2>1. CASE Readable
    <3>1. step' = [step EXCEPT ![s] = "open"] /\ pipe' = Append(pipe, m)
      BY <1>1, <2>1 DEF Add, Write
    <3>. HIDE DEF m
    <3>. QED
      BY <1>1, <1>2, <3>1, HeldAdded
  <2>2. CASE ~ Readable
    <3>1. Steady /\ SameMaps
      BY <1>1, <1>3, <1>4, <2>2 DEF Steady, SameMaps, Registered
    <3>2. UNCHANGED <<pipe, pipeData>>
      BY <1>1, <2>2 DEF Write
    <3>. QED
      BY <3>1, <3>2, HeldSame
  <2>. QED
    BY <2>1, <2>2
<1>7. DancerInv'
  <2>1. \A t \in Accepted : step'[t] \in {"bound", "numbering", "numbered"} =>
                               step[t] \in {"bound", "numbering", "numbered"}
    BY <1>3, <1>4, ConstantFacts
  <2>. QED
    BY <1>1, <2>1, DancerSame DEF DancerInv
<1>. QED
  BY <1>5, <1>6, <1>7

\* What a SocketRemove does, when it is of a socket that is there.
Removed(f) ==
  /\ f \in Fds /\ f \in DOMAIN listeners \cup DOMAIN clients
  /\ open[f] \in Sockets /\ Registered(open[f]) /\ open' = [open EXCEPT ![f] = NoSocket]
  /\ DOMAIN listeners' = DOMAIN listeners \ {f} /\ DOMAIN clients' = DOMAIN clients \ {f}
  /\ \A g \in DOMAIN listeners' : listeners'[g] = listeners[g]
  /\ \A g \in DOMAIN clients' : clients'[g] = clients[g]
  /\ Push(open[f], LastJobs(open[f])) /\ LastJobs(open[f]) \in Seq(Jobs)

LEMMA RemoveFacts ==
  ASSUME BaseInv, ApplySocketRemove, NEW h, h = Head(pipeData)
  PROVE  /\ pipeData # <<>> /\ h.fd = 0 /\ h.msg = "SocketRemove" /\ pipeData' = Tail(pipeData)
         /\ Handled
         /\ UNCHANGED <<idVars, step, fdOf, pipe, writable, finishing, phase, todo, cleanup, sends, wire>>
         /\ \/ UNCHANGED <<open, listeners, clients, jobs>>
            \/ \E f \in Fds : Removed(f) /\ ident[open[f]] = h.id
<1>. USE DEF BaseInv
<1>1. Applying("SocketRemove")
  BY DEF ApplySocketRemove
<1>2. pipeData # <<>> /\ h.fd = 0 /\ h.msg = "SocketRemove" /\ Handled
  BY <1>1, ApplyingFacts DEF Queued, Applying
<1>. DEFINE ls == Matching(listeners, h.id)
            cs == Matching(clients, h.id)
<1>3. /\ ls \subseteq DOMAIN listeners /\ cs \subseteq DOMAIN clients
      /\ DOMAIN listeners \subseteq Fds /\ DOMAIN clients \subseteq Fds
      /\ \A f \in ls : listeners[f].id = h.id
      /\ \A f \in cs : clients[f].id = h.id
  BY DEF Matching, TypeOK
<1>4. \/ ls # {} /\ Unregister(listeners, Min(ls))
      \/ cs # {} /\ Unregister(clients, Min(cs))
      \/ UNCHANGED <<open, mapVars, jobs>>
  BY DEF ApplySocketRemove
<1>5. (ls # {} => Min(ls) \in ls) /\ (cs # {} => Min(cs) \in cs)
  <2>1. ls \subseteq Fds /\ cs \subseteq Fds
    BY <1>3
  <2>. HIDE DEF ls, cs
  <2>. QED
    BY <2>1, MinOfFds
<1>. HIDE DEF ls, cs
<1>6. ASSUME NEW m, m \in {listeners, clients}, NEW f \in DOMAIN m, Unregister(m, f), m[f].id = h.id
      PROVE  Removed(f) /\ ident[open[f]] = h.id /\ f \in Fds
  <2>1. /\ f \in Fds /\ m[f].sock \in Sockets
        /\ jobs' \in [Sockets -> Seq(Jobs)]
        /\ open' = [open EXCEPT ![f] = NoSocket] /\ open' \in [Fds -> Sockets \cup {NoSocket}]
        /\ DOMAIN listeners' = DOMAIN listeners \ {f} /\ DOMAIN clients' = DOMAIN clients \ {f}
        /\ \A g \in DOMAIN listeners' : listeners'[g] = listeners[g]
        /\ \A g \in DOMAIN clients' : clients'[g] = clients[g]
        /\ Push(m[f].sock, LastJobs(m[f].sock)) /\ LastJobs(m[f].sock) \in Seq(Jobs)
    BY <1>6, UnregisterTyped
  <2>2. open[f] = m[f].sock /\ Registered(m[f].sock) /\ m[f].id = ident[m[f].sock]
        /\ f \in DOMAIN listeners \cup DOMAIN clients
    BY <1>6 DEF PlaceInv, Stands
  <2>. QED
    BY <1>6, <2>1, <2>2 DEF Removed
<1>7. \/ UNCHANGED <<open, listeners, clients, jobs>>
      \/ \E f \in Fds : Removed(f) /\ ident[open[f]] = h.id
  <2>1. CASE ls # {} /\ Unregister(listeners, Min(ls))
    BY <1>3, <1>5, <1>6, <2>1
  <2>2. CASE cs # {} /\ Unregister(clients, Min(cs))
    BY <1>3, <1>5, <1>6, <2>2
  <2>3. CASE UNCHANGED <<open, mapVars, jobs>>
    BY <2>3
  <2>. QED
    BY <1>4, <2>1, <2>2, <2>3
<1>. QED
  BY <1>2, <1>7 DEF ApplySocketRemove

LEMMA RemoveBase == ASSUME BaseInv, ApplySocketRemove, TypeOK' PROVE BaseInv'
<1>. USE DEF BaseInv
<1>1. /\ pipeData # <<>> /\ Head(pipeData).fd = 0 /\ pipeData' = Tail(pipeData) /\ Handled
      /\ UNCHANGED <<idVars, step, fdOf, pipe, phase, todo>>
      /\ \/ UNCHANGED <<open, listeners, clients, jobs>>
         \/ \E f \in Fds : Removed(f)
  BY RemoveFacts
<1>2. DancerInv'
  <2>1. phase = "handle" /\ Accepting = {} /\ Accepting' = {} /\ phase' = "handle"
    BY <1>1 DEF Handled, Accepting
  <2>. QED
    BY <2>1 DEF DancerInv
<1>3. ASSUME NEW D,
             \A f \in D : f \in DOMAIN listeners \cup DOMAIN clients,
             \A f \in Fds : open'[f] = IF f \in D THEN NoSocket ELSE open[f],
             DOMAIN listeners' = DOMAIN listeners \ D, DOMAIN clients' = DOMAIN clients \ D,
             \A f \in DOMAIN listeners' : listeners'[f] = listeners[f],
             \A f \in DOMAIN clients' : clients'[f] = clients[f]
      PROVE  KernelInv' /\ QueueInv' /\ PlaceInv'
  <2>1. /\ \A f \in DOMAIN listeners' :
             listeners'[f].sock = listeners[f].sock /\ listeners'[f].id = listeners[f].id
        /\ \A f \in DOMAIN clients' :
             clients'[f].sock = clients[f].sock /\ clients'[f].id = clients[f].id
    BY <1>3
  <2>. QED
    BY <1>1, <1>3, <2>1, HeldClosed
<1>4. CASE UNCHANGED <<open, listeners, clients, jobs>>
  <2>. DEFINE none == {}
  <2>1. /\ \A f \in none : f \in DOMAIN listeners \cup DOMAIN clients
        /\ \A f \in Fds : open'[f] = IF f \in none THEN NoSocket ELSE open[f]
        /\ DOMAIN listeners' = DOMAIN listeners \ none /\ DOMAIN clients' = DOMAIN clients \ none
        /\ \A f \in DOMAIN listeners' : listeners'[f] = listeners[f]
        /\ \A f \in DOMAIN clients' : clients'[f] = clients[f]
    BY <1>4
  <2>. HIDE DEF none
  <2>. QED
    BY <1>2, <1>3, <2>1
<1>5. ASSUME NEW f \in Fds, Removed(f) PROVE BaseInv'
  <2>. DEFINE one == {f}
  <2>1. /\ \A g \in one : g \in DOMAIN listeners \cup DOMAIN clients
        /\ \A g \in Fds : open'[g] = IF g \in one THEN NoSocket ELSE open[g]
        /\ DOMAIN listeners' = DOMAIN listeners \ one /\ DOMAIN clients' = DOMAIN clients \ one
        /\ \A g \in DOMAIN listeners' : listeners'[g] = listeners[g]
        /\ \A g \in DOMAIN clients' : clients'[g] = clients[g]
    BY <1>5 DEF Removed, TypeOK
  <2>. HIDE DEF one
  <2>. QED
    BY <1>2, <1>3, <2>1
<1>. QED
  BY <1>1, <1>4, <1>5

LEMMA FinalBase == ASSUME BaseInv, Final, TypeOK' PROVE BaseInv'
<1>. USE DEF BaseInv
<1>. DEFINE D == DOMAIN listeners \cup DOMAIN clients
<1>1. /\ \A f \in D : f \in DOMAIN listeners \cup DOMAIN clients
      /\ \A f \in Fds : open'[f] = IF f \in D THEN NoSocket ELSE open[f]
      /\ DOMAIN listeners' = DOMAIN listeners \ D /\ DOMAIN clients' = DOMAIN clients \ D
      /\ DOMAIN listeners' = {} /\ DOMAIN clients' = {}
      /\ UNCHANGED <<step, fdOf, idVars, pipe, pipeData, todo>>
      /\ phase = "final" /\ phase' = "ended"
  BY DEF Final
<1>2. DancerInv'
  BY <1>1 DEF DancerInv, Accepting
<1>. HIDE DEF D
<1>3. KernelInv' /\ QueueInv' /\ PlaceInv'
  <2>1. /\ \A f \in DOMAIN listeners' :
             listeners'[f].sock = listeners[f].sock /\ listeners'[f].id = listeners[f].id
        /\ \A f \in DOMAIN clients' :
             clients'[f].sock = clients[f].sock /\ clients'[f].id = clients[f].id
    BY <1>1
  <2>. QED
    BY <1>1, <2>1, HeldClosed
<1>. QED
  BY <1>2, <1>3

LEMMA BaseInit == Init => BaseInv
<1>. SUFFICES ASSUME Init PROVE BaseInv
  OBVIOUS
<1>. USE ConstantFacts DEF Init
<1>1. TypeOK
  <2>1. 0 \in 0 .. IdRange - 1 /\ 0 \in 0 .. MaxSends
    OBVIOUS
  <2>2. /\ pipe \in Seq(Messages) /\ pipeData \in Seq(Messages)
        /\ jobs \in [Sockets -> Seq({"client", "data", "error", "cleanup", "final"})]
        /\ wire \in [Conns -> Seq(Buffers)]
        /\ DOMAIN listeners = {} /\ DOMAIN clients = {}
    OBVIOUS
  <2>. QED
    BY <2>1, <2>2 DEF TypeOK
<1>2. KernelInv
  BY DEF KernelInv
<1>3. QueueInv /\ PlaceInv
  BY DEF QueueInv, PlaceInv, AddedOnce
<1>4. DancerInv
  <2>1. Accepting = {}
    BY DEF Accepting
  <2>. QED
    BY <2>1 DEF DancerInv
<1>. QED
  BY <1>1, <1>2, <1>3, <1>4 DEF BaseInv

LEMMA BaseNext == BaseInv /\ [Next]_vars => BaseInv'
<1>1. ASSUME BaseInv, Next PROVE BaseInv'
  <2>1. TypeOK'
    BY <1>1, TypedStep
  <2>2. CASE Plain
    <3>1. KernelInv' /\ Steady
      BY <1>1, <2>2, PlainKernel
    <3>2. DancerInv'
      BY <1>1, <2>1, <2>2, PlainDancer
    <3>3. QueueInv' /\ PlaceInv'
      BY <1>1, <2>1, <2>2, <3>1, PlainHeld
    <3>. QED
      BY <2>1, <3>1, <3>2, <3>3 DEF BaseInv
  <2>. QED
    BY <1>1, <2>1, <2>2, NextIs, AddBase, RemoveBase, FinalBase
<1>2. ASSUME BaseInv, UNCHANGED vars PROVE BaseInv'
  <2>1. UNCHANGED <<step, ident, fdOf, open, pipe, pipeData, listeners, clients, phase, todo>>
    BY <1>2 DEF vars
  <2>2. TypeOK'
    BY <1>2 DEF BaseInv, TypeOK, vars
  <2>3. KernelInv' /\ Steady /\ SameMaps
    BY <1>2, <2>1, SameKernel, SameMapsKept DEF BaseInv
  <2>4. QueueInv' /\ PlaceInv'
    BY <1>2, <2>1, <2>2, <2>3, HeldSame DEF BaseInv
  <2>5. DancerInv'
    BY <1>2, <2>1, DancerSame DEF BaseInv, DancerInv
  <2>. QED
    BY <2>2, <2>3, <2>4, <2>5 DEF BaseInv
<1>. QED
  BY <1>1, <1>2

LEMMA BaseInvariant == Spec => []BaseInv
BY BaseInit, BaseNext, PTL DEF Spec

\* The maps, the queues, the kernel's table and the history stay of their types, at
\* any interleaving of the program's calls with the dancer's loop.
THEOREM TypeCorrect == Spec => []TypeOK
<1>1. BaseInv => TypeOK
  BY DEF BaseInv
<1>. QED
  BY <1>1, BaseInvariant, PTL

LEMMA AtMostOne ==
  ASSUME NEW S, \A x, y \in S : x = y PROVE Cardinality(S) = IF S = {} THEN 0 ELSE 1
<1>1. CASE S = {}
  BY <1>1, FS_EmptySet
<1>2. CASE S # {}
  <2>1. PICK x \in S : TRUE
    BY <1>2
  <2>2. S = {x}
    BY <2>1
  <2>. QED
    BY <1>2, <2>2, FS_Singleton
<1>. QED
  BY <1>1, <1>2

LEMMA BaseAccounts == BaseInv => SocketAccounting
<1>. SUFFICES ASSUME BaseInv, NEW s \in Sockets, step[s] \in {"open", "gone"}
     PROVE  LET adds == Cardinality({i \in DOMAIN pipe : pipe[i].sock = s /\ pipe[i].fd # 0})
                          + Cardinality({i \in DOMAIN pipeData : pipeData[i].sock = s /\ pipeData[i].fd # 0})
                entries == Cardinality({f \in DOMAIN listeners : listeners[f].sock = s})
                             + Cardinality({f \in DOMAIN clients : clients[f].sock = s})
                closed == IF IsOpen(s) THEN 0 ELSE 1
            IN  /\ adds + entries + closed = 1
                /\ \A f \in DOMAIN listeners : listeners[f].sock = s => f = fdOf[s]
                /\ \A f \in DOMAIN clients : clients[f].sock = s => f = fdOf[s]
  BY DEF SocketAccounting
<1>. USE DEF BaseInv
<1>. DEFINE P == {i \in DOMAIN pipe : pipe[i].sock = s /\ pipe[i].fd # 0}
            D == {i \in DOMAIN pipeData : pipeData[i].sock = s /\ pipeData[i].fd # 0}
            L == {f \in DOMAIN listeners : listeners[f].sock = s}
            C == {f \in DOMAIN clients : clients[f].sock = s}
            g == fdOf[s]
<1>1. ASSUME NEW m \in Messages, Queued(m), m.sock = s, m.fd # 0
      PROVE  m.fd = g /\ g \in Fds /\ open[g] = s /\ g \notin DOMAIN listeners \cup DOMAIN clients
  BY <1>1, ConstantFacts DEF Queued, KernelInv, Messages
<1>2. /\ \A i \in P : pipe[i].fd = g
      /\ \A i \in D : pipeData[i].fd = g
      /\ P # {} \/ D # {} => g \in Fds /\ open[g] = s /\ g \notin DOMAIN listeners \cup DOMAIN clients
  BY <1>1, QueueTypes DEF QueueInv
<1>3. /\ \A f \in L : f = g /\ g \in Fds /\ open[g] = s /\ listeners[g].sock = s
      /\ \A f \in C : f = g /\ g \in Fds /\ open[g] = s /\ clients[g].sock = s
  <2>1. ASSUME NEW f \in Fds, open[f] = s PROVE f = g
    BY <2>1, ConstantFacts DEF KernelInv
  <2>2. \A f \in L : f \in Fds /\ open[f] = s /\ listeners[f].sock = s
    BY EntryTypes DEF PlaceInv, Stands
  <2>3. \A f \in C : f \in Fds /\ open[f] = s /\ clients[f].sock = s
    BY EntryTypes DEF PlaceInv, Stands
  <2>. QED
    BY <2>1, <2>2, <2>3
<1>4. IsOpen(s) <=> g \in Fds /\ open[g] = s
  BY DEF IsOpen
<1>5. /\ \A x, y \in P : x = y
      /\ \A x, y \in D : x = y
      /\ \A x, y \in L : x = y
      /\ \A x, y \in C : x = y
  BY <1>2, <1>3, ConstantFacts DEF QueueInv, AddedOnce
<1>6. P = {} \/ D = {}
  BY <1>2, ConstantFacts DEF QueueInv
<1>7. (P # {} \/ D # {}) => L = {} /\ C = {}
  BY <1>2, <1>3
<1>8. L = {} \/ C = {}
  BY <1>3, EntryTypes, ConstantFacts
<1>9. ASSUME g \in Fds, open[g] = s PROVE P # {} \/ D # {} \/ L # {} \/ C # {}
  <2>1. \/ g \in DOMAIN listeners \cup DOMAIN clients
        \/ \E i \in DOMAIN pipe : pipe[i].fd = g
        \/ \E i \in DOMAIN pipeData : pipeData[i].fd = g
    BY <1>9, ConstantFacts DEF PlaceInv, Registered
  <2>2. ASSUME NEW m \in Messages, Queued(m), m.fd = g PROVE m.sock = s /\ m.fd # 0
    BY <1>9, <2>2, ConstantFacts DEF Queued
  <2>3. CASE g \in DOMAIN listeners \cup DOMAIN clients
    BY <1>9, <2>3 DEF PlaceInv, Stands
  <2>4. CASE \E i \in DOMAIN pipe : pipe[i].fd = g
    BY <2>2, <2>4, QueueTypes DEF QueueInv
  <2>5. CASE \E i \in DOMAIN pipeData : pipeData[i].fd = g
    BY <2>2, <2>5, QueueTypes DEF QueueInv
  <2>. QED
    BY <2>1, <2>3, <2>4, <2>5
<1>10. (P = {} /\ D = {} /\ L = {} /\ C = {}) \/ IsOpen(s)
  BY <1>2, <1>3, <1>4
<1>11. \A f \in DOMAIN listeners : listeners[f].sock = s => f = fdOf[s]
  BY <1>3
<1>12. \A f \in DOMAIN clients : clients[f].sock = s => f = fdOf[s]
  BY <1>3
<1>. HIDE DEF P, D, L, C, g
<1>13. /\ Cardinality(P) = IF P = {} THEN 0 ELSE 1
       /\ Cardinality(D) = IF D = {} THEN 0 ELSE 1
       /\ Cardinality(L) = IF L = {} THEN 0 ELSE 1
       /\ Cardinality(C) = IF C = {} THEN 0 ELSE 1
  BY <1>5, AtMostOne
<1>14. Cardinality(P) + Cardinality(D) + (Cardinality(L) + Cardinality(C)) + (IF IsOpen(s) THEN 0 ELSE 1) = 1
  BY <1>4, <1>6, <1>7, <1>8, <1>9, <1>10, <1>13
<1>. QED
  BY <1>11, <1>12, <1>14 DEF P, D, L, C

\* A socket that ConnectTCP, Listen or Commence has given away is in exactly one
\* place: in an Add on its way, in one of the dancer's maps under its own descriptor,
\* or closed.  No message, reuse of a descriptor or order of calls loses or doubles it.
THEOREM GivenAwayOnce == Spec => []SocketAccounting
BY BaseAccounts, BaseInvariant, PTL

-----------------------------------------------------------------------------
(* The jobs of a socket.                                                   *)

LEMMA JobsQuiet ==
  ASSUME TypeOK, TypeOK', JobsInv, Steady, UNCHANGED jobs, finishing => finishing'
  PROVE  JobsInv'
<1>. SUFFICES ASSUME NEW s \in Sockets
     PROVE  /\ ~ Registered(s)' => jobs'[s] = <<>>
            /\ Ends(s)' \subseteq {Len(jobs'[s])}
            /\ Ends(s)' # {} => ~ IsOpen(s)'
            /\ Registered(s)' /\ s \notin Silent /\ ~ finishing' /\ ~ IsOpen(s)' => Ends(s)' # {}
  BY DEF JobsInv
<1>1. Ends(s)' = Ends(s) /\ (Registered(s)' <=> Registered(s))
  BY DEF Ends, Steady
<1>2. Registered(s) => (IsOpen(s)' <=> IsOpen(s))
  BY SteadyOpen
<1>3. ~ Registered(s) => Ends(s) = {}
  BY DEF JobsInv, Ends
<1>. QED
  BY <1>1, <1>2, <1>3 DEF JobsInv

LEMMA EndsOfJoin ==
  ASSUME NEW q \in Seq(Jobs), NEW r \in Seq(Jobs),
         \A i \in DOMAIN q : q[i] \notin {"cleanup", "final"},
         \A i \in DOMAIN r : r[i] \in {"cleanup", "final"} => i = Len(r)
  PROVE  /\ q \o r \in Seq(Jobs)
         /\ \A i \in DOMAIN (q \o r) : (q \o r)[i] \in {"cleanup", "final"} => i = Len(q \o r)
         /\ r # <<>> => Len(q \o r) \in DOMAIN (q \o r) /\ (q \o r)[Len(q \o r)] = r[Len(r)]
OBVIOUS

LEMMA JobsPushed ==
  ASSUME TypeOK, TypeOK', JobsInv, Steady, NEW s \in Sockets, Registered(s), IsOpen(s),
         NEW seq \in Seq({"client", "data"}), Push(s, seq), finishing' = finishing
  PROVE  JobsInv'
<1>1. seq \in Seq(Jobs) /\ jobs[s] \in Seq(Jobs)
  BY DEF Jobs, TypeOK
<1>2. /\ ~ finishing => jobs'[s] = jobs[s] \o seq
      /\ finishing => jobs'[s] = jobs[s]
      /\ \A t \in Sockets \ {s} : jobs'[t] = jobs[t]
  BY <1>1, PushType
<1>3. Ends(s) = {}
  BY DEF JobsInv
<1>4. Ends(s)' = {}
  <2>1. ASSUME NEW i \in DOMAIN (jobs[s] \o seq) PROVE (jobs[s] \o seq)[i] \notin {"cleanup", "final"}
    <3>1. \A j \in DOMAIN jobs[s] : jobs[s][j] \notin {"cleanup", "final"}
      BY <1>3 DEF Ends
    <3>2. \A j \in DOMAIN seq : seq[j] \notin {"cleanup", "final"}
      OBVIOUS
    <3>. QED
      BY <1>1, <3>1, <3>2, JoinFacts
  <2>2. CASE finishing
    BY <1>2, <1>3, <2>2 DEF Ends
  <2>3. CASE ~ finishing
    BY <1>2, <2>1, <2>3 DEF Ends
  <2>. QED
    BY <2>2, <2>3
<1>5. ASSUME NEW t \in Sockets
      PROVE  /\ ~ Registered(t)' => jobs'[t] = <<>>
             /\ Ends(t)' \subseteq {Len(jobs'[t])}
             /\ Ends(t)' # {} => ~ IsOpen(t)'
             /\ Registered(t)' /\ t \notin Silent /\ ~ finishing' /\ ~ IsOpen(t)' => Ends(t)' # {}
  <2>1. Registered(t)' <=> Registered(t)
    BY DEF Steady
  <2>2. Registered(t) => (IsOpen(t)' <=> IsOpen(t))
    BY SteadyOpen
  <2>3. CASE t = s
    BY <1>4, <2>1, <2>2, <2>3
  <2>4. CASE t # s
    <3>1. Ends(t)' = Ends(t) /\ jobs'[t] = jobs[t]
      BY <1>2, <2>4 DEF Ends
    <3>2. ~ Registered(t) => Ends(t) = {}
      BY DEF JobsInv, Ends
    <3>. QED
      BY <2>1, <2>2, <3>1, <3>2 DEF JobsInv
  <2>. QED
    BY <2>3, <2>4
<1>. QED
  BY <1>5 DEF JobsInv

\* The socket behind an entry is open, and given away.
LEMMA EntryOpen ==
  ASSUME BaseInv
  PROVE  /\ \A f \in DOMAIN listeners :
              /\ listeners[f].sock \in Sockets /\ Registered(listeners[f].sock)
              /\ IsOpen(listeners[f].sock) /\ fdOf[listeners[f].sock] = f /\ open[f] = listeners[f].sock
         /\ \A f \in DOMAIN clients :
              /\ clients[f].sock \in Sockets /\ Registered(clients[f].sock)
              /\ IsOpen(clients[f].sock) /\ fdOf[clients[f].sock] = f /\ open[f] = clients[f].sock
<1>. USE DEF BaseInv
<1>1. ASSUME NEW f \in Fds, NEW e, Stands(e, f), e.sock \in Sockets
      PROVE  Registered(e.sock) /\ IsOpen(e.sock) /\ fdOf[e.sock] = f /\ open[f] = e.sock
  BY <1>1, ConstantFacts DEF Stands, IsOpen, KernelInv
<1>2. \A f \in DOMAIN listeners : Stands(listeners[f], f) /\ f \in Fds /\ listeners[f].sock \in Sockets
  BY EntryTypes DEF PlaceInv
<1>3. \A f \in DOMAIN clients : Stands(clients[f], f) /\ f \in Fds /\ clients[f].sock \in Sockets
  BY EntryTypes DEF PlaceInv
<1>. QED
  BY <1>1, <1>2, <1>3

LEMMA PlainJobs == ASSUME BaseInv, JobsInv, Plain, TypeOK', Steady PROVE JobsInv'
<1>. USE DEF BaseInv
<1>1. ASSUME UNCHANGED jobs, finishing => finishing' PROVE JobsInv'
  BY <1>1, JobsQuiet
<1>2. ASSUME NEW s \in Sockets,
             Socket(s) \/ SocketFails(s) \/ Close(s) \/ ReadIdentifier(s) \/ WriteIdentifier(s)
      PROVE  UNCHANGED jobs /\ (finishing => finishing')
  BY <1>2 DEF Socket, SocketFails, Close, ReadIdentifier, WriteIdentifier
<1>3. ASSUME NEW c \in Conns, Send(c) PROVE UNCHANGED jobs /\ (finishing => finishing')
  BY <1>3 DEF Send
<1>4. ASSUME NEW c \in Accepted, CloseLimbo(c) PROVE UNCHANGED jobs /\ (finishing => finishing')
  BY <1>4 DEF CloseLimbo
<1>5. ASSUME ClosePipe \/ FinishUp \/ Poll \/ PollFails \/ HandlePipe \/ ApplyListenerAdd
             \/ ApplyConnectionAdd \/ ApplyQueueData \/ ApplyDone
      PROVE  UNCHANGED jobs /\ (finishing => finishing')
  BY <1>5 DEF ClosePipe, FinishUp, Poll, PollFails, HandlePipe, ApplyListenerAdd,
              ApplyConnectionAdd, ApplyQueueData, ApplyDone
<1>6. ASSUME NEW f \in Fds, NEW s \in Accepted, HandleListener(f, s)
      PROVE  UNCHANGED jobs /\ (finishing => finishing')
  BY <1>6 DEF HandleListener
<1>7. ASSUME NEW f \in Fds, AcceptFails(f) \/ SkipListener(f)
      PROVE  UNCHANGED jobs /\ (finishing => finishing')
  BY <1>7 DEF AcceptFails, SkipListener
<1>8. ASSUME NEW f \in Fds, NEW in \in {"none", "data", "closed"}, NEW k \in 0 .. MaxSends,
             NEW ok \in BOOLEAN, HandleClient(f, in, k, ok)
      PROVE  JobsInv'
  <2>. DEFINE s == clients[f].sock
              seq == IF in = "data" THEN <<"data">> ELSE <<>>
  <2>1. f \in DOMAIN clients /\ Push(s, seq) /\ finishing' = finishing
    BY <1>8 DEF HandleClient
  <2>2. s \in Sockets /\ Registered(s) /\ IsOpen(s)
    BY <2>1, EntryOpen
  <2>3. seq \in Seq({"client", "data"})
    <3>1. <<"data">> \in Seq({"client", "data"}) /\ <<>> \in Seq({"client", "data"})
      OBVIOUS
    <3>. QED
      BY <3>1
  <2>. HIDE DEF s, seq
  <2>. QED
    BY <2>1, <2>2, <2>3, JobsPushed
<1>9. ASSUME NEW t \in Accepted, PushClient(t) PROVE JobsInv'
  <2>. DEFINE s == listeners[Due].sock
              seq == <<"client">>
  <2>1. Due \in DOMAIN listeners /\ Push(s, seq) /\ finishing' = finishing
    BY <1>9 DEF PushClient, DancerInv
  <2>2. s \in Sockets /\ Registered(s) /\ IsOpen(s)
    BY <2>1, EntryOpen
  <2>3. seq \in Seq({"client", "data"})
    OBVIOUS
  <2>. HIDE DEF s, seq
  <2>. QED
    BY <2>1, <2>2, <2>3, JobsPushed
<1>. HIDE DEF BaseInv
<1>. QED
  BY <1>1, <1>2, <1>3, <1>4, <1>5, <1>6, <1>7, <1>8, <1>9 DEF Plain

LEMMA AddJobs == ASSUME BaseInv, JobsInv, NEW s \in Sockets, Add(s), BaseInv' PROVE JobsInv'
<1>. USE DEF BaseInv
<1>1. /\ step[s] \in {"limbo", "numbered"} /\ ~ Registered(s)
      /\ UNCHANGED <<fdOf, open, jobs, finishing>>
  BY DEF Add, Registered
<1>2. \A t \in Sockets : t # s => step'[t] = step[t]
  BY DEF Add, TypeOK
<1>3. IsOpen(s)
  BY <1>1 DEF KernelInv, IsOpen
<1>4. jobs[s] = <<>>
  BY <1>1 DEF JobsInv
<1>5. ASSUME NEW t \in Sockets
      PROVE  /\ ~ Registered(t)' => jobs'[t] = <<>>
             /\ Ends(t)' \subseteq {Len(jobs'[t])}
             /\ Ends(t)' # {} => ~ IsOpen(t)'
             /\ Registered(t)' /\ t \notin Silent /\ ~ finishing' /\ ~ IsOpen(t)' => Ends(t)' # {}
  <2>1. (IsOpen(t)' <=> IsOpen(t)) /\ Ends(t)' = Ends(t)
    BY <1>1 DEF IsOpen, Ends
  <2>2. CASE t = s
    BY <1>1, <1>3, <1>4, <2>1, <2>2 DEF Ends
  <2>3. CASE t # s
    BY <1>1, <1>2, <2>1, <2>3 DEF JobsInv, Registered
  <2>. QED
    BY <2>2, <2>3
<1>. QED
  BY <1>5 DEF JobsInv

LEMMA RemoveJobs == ASSUME BaseInv, JobsInv, ApplySocketRemove, BaseInv' PROVE JobsInv'
<1>. USE DEF BaseInv
<1>1. /\ UNCHANGED <<step, fdOf, finishing>>
      /\ \/ UNCHANGED <<open, jobs>>
         \/ \E f \in Fds : Removed(f)
  BY RemoveFacts
<1>2. CASE UNCHANGED <<open, jobs>>
  BY <1>1, <1>2 DEF JobsInv, Ends, IsOpen, Registered
<1>3. ASSUME NEW f \in Fds, Removed(f), NEW s, s = open[f] PROVE JobsInv'
  <2>. DEFINE seq == LastJobs(s)
  <2>1. /\ s \in Sockets /\ Registered(s) /\ open' = [open EXCEPT ![f] = NoSocket]
        /\ Push(s, seq) /\ seq \in Seq(Jobs)
    BY <1>3 DEF Removed
  <2>. HIDE DEF seq
  <2>2. fdOf[s] = f /\ IsOpen(s)
    BY <1>3, <2>1, ConstantFacts DEF KernelInv, IsOpen
  <2>3. ~ IsOpen(s)'
    BY <1>1, <2>1, <2>2, ConstantFacts DEF IsOpen, TypeOK
  <2>4. \A t \in Sockets : t # s => (IsOpen(t)' <=> IsOpen(t))
    BY <1>1, <1>3, <2>1, ConstantFacts DEF IsOpen, TypeOK
  <2>5. Ends(s) = {}
    BY <2>1, <2>2 DEF JobsInv
  <2>6. /\ ~ finishing => jobs'[s] = jobs[s] \o seq
        /\ finishing => jobs'[s] = jobs[s]
        /\ \A t \in Sockets \ {s} : jobs'[t] = jobs[t]
    BY <2>1, PushType
  <2>7. /\ Ends(s)' \subseteq {Len(jobs'[s])}
        /\ ~ finishing /\ s \notin Silent => Ends(s)' # {}
    <3>1. CASE finishing
      BY <2>5, <2>6, <3>1 DEF Ends
    <3>2. CASE ~ finishing
      <4>1. jobs[s] \in Seq(Jobs) /\ \A i \in DOMAIN jobs[s] : jobs[s][i] \notin {"cleanup", "final"}
        BY <2>1, <2>5 DEF Ends, TypeOK, Jobs
      <4>2. \A i \in DOMAIN seq : seq[i] \in {"cleanup", "final"} => i = Len(seq)
        BY DEF LastJobs, seq
      <4>3. s \notin Silent => seq # <<>> /\ seq[Len(seq)] = "cleanup"
        BY DEF LastJobs, seq
      <4>4. /\ \A i \in DOMAIN jobs'[s] : jobs'[s][i] \in {"cleanup", "final"} => i = Len(jobs'[s])
            /\ seq # <<>> => Len(jobs'[s]) \in DOMAIN jobs'[s] /\ jobs'[s][Len(jobs'[s])] = seq[Len(seq)]
        BY <2>1, <2>6, <3>2, <4>1, <4>2, EndsOfJoin
      <4>. QED
        BY <4>3, <4>4 DEF Ends
    <3>. QED
      BY <3>1, <3>2
  <2>8. ASSUME NEW t \in Sockets
        PROVE  /\ ~ Registered(t)' => jobs'[t] = <<>>
               /\ Ends(t)' \subseteq {Len(jobs'[t])}
               /\ Ends(t)' # {} => ~ IsOpen(t)'
               /\ Registered(t)' /\ t \notin Silent /\ ~ finishing' /\ ~ IsOpen(t)' => Ends(t)' # {}
    <3>1. Registered(t)' <=> Registered(t)
      BY <1>1 DEF Registered
    <3>2. CASE t = s
      BY <1>1, <2>1, <2>3, <2>7, <3>1, <3>2
    <3>3. CASE t # s
      <4>1. Ends(t)' = Ends(t) /\ jobs'[t] = jobs[t]
        BY <2>6, <3>3 DEF Ends
      <4>. QED
        BY <1>1, <2>4, <3>1, <3>3, <4>1 DEF JobsInv
    <3>. QED
      BY <3>2, <3>3
  <2>. QED
    BY <2>8 DEF JobsInv
<1>. QED
  BY <1>1, <1>2, <1>3

LEMMA FinalJobs == ASSUME BaseInv, JobsInv, Final, BaseInv' PROVE JobsInv'
<1>. USE DEF BaseInv
<1>. DEFINE entries == {listeners[f].sock : f \in DOMAIN listeners}
                         \cup {clients[f].sock : f \in DOMAIN clients}
            D == DOMAIN listeners \cup DOMAIN clients
<1>1. /\ UNCHANGED <<step, fdOf, finishing>>
      /\ \A f \in Fds : open'[f] = IF f \in D THEN NoSocket ELSE open[f]
      /\ \A s \in Sockets : jobs'[s] = IF s \in entries THEN Append(jobs[s], "final") ELSE jobs[s]
  BY DEF Final
<1>2. ASSUME NEW s \in entries
      PROVE  s \in Sockets /\ Registered(s) /\ IsOpen(s) /\ fdOf[s] \in D
  BY EntryOpen
<1>3. ASSUME NEW f \in D PROVE open[f] \in entries
  BY EntryOpen
<1>. HIDE DEF entries, D
<1>4. ASSUME NEW t \in Sockets
      PROVE  /\ ~ Registered(t)' => jobs'[t] = <<>>
             /\ Ends(t)' \subseteq {Len(jobs'[t])}
             /\ Ends(t)' # {} => ~ IsOpen(t)'
             /\ Registered(t)' /\ t \notin Silent /\ ~ finishing' /\ ~ IsOpen(t)' => Ends(t)' # {}
  <2>1. Registered(t)' <=> Registered(t)
    BY <1>1 DEF Registered
  <2>2. CASE t \in entries
    <3>1. ~ IsOpen(t)'
      BY <1>1, <1>2, <2>2, ConstantFacts DEF IsOpen
    <3>2. Ends(t) = {} /\ jobs[t] \in Seq(Jobs)
      BY <1>2, <2>2 DEF JobsInv, TypeOK, Jobs
    <3>3. Ends(t)' = {Len(jobs'[t])}
      <4>1. \A i \in DOMAIN jobs[t] : jobs[t][i] \notin {"cleanup", "final"}
        BY <3>2 DEF Ends
      <4>2. jobs'[t] = Append(jobs[t], "final") /\ "final" \in Jobs
        BY <1>1, <2>2 DEF Jobs
      <4>3. /\ Len(jobs'[t]) \in DOMAIN jobs'[t] /\ jobs'[t][Len(jobs'[t])] = "final"
            /\ \A i \in DOMAIN jobs'[t] : jobs'[t][i] \in {"cleanup", "final"} => i = Len(jobs'[t])
        BY <3>2, <4>1, <4>2
      <4>. QED
        BY <4>3 DEF Ends
    <3>. QED
      BY <1>2, <2>1, <2>2, <3>1, <3>3
  <2>3. CASE t \notin entries
    <3>1. IsOpen(t)' <=> IsOpen(t)
      BY <1>1, <1>3, <2>3, ConstantFacts DEF IsOpen
    <3>2. jobs'[t] = jobs[t] /\ Ends(t)' = Ends(t)
      BY <1>1, <2>3 DEF Ends
    <3>. QED
      BY <1>1, <2>1, <3>1, <3>2 DEF JobsInv
  <2>. QED
    BY <2>2, <2>3
<1>. QED
  BY <1>4 DEF JobsInv

LEMMA JobsInvariant == Spec => [](BaseInv /\ JobsInv)
<1>1. Init => JobsInv
  BY ConstantFacts DEF Init, JobsInv, Ends, Registered
<1>2. BaseInv /\ JobsInv /\ [Next]_vars => JobsInv'
  <2>. SUFFICES ASSUME BaseInv, JobsInv, [Next]_vars PROVE JobsInv'
    OBVIOUS
  <2>1. BaseInv' /\ TypeOK /\ TypeOK'
    BY BaseNext DEF BaseInv
  <2>2. CASE UNCHANGED vars
    BY <2>2 DEF vars, JobsInv, Ends, Registered, IsOpen
  <2>3. CASE Plain
    <3>1. Steady
      BY <2>3, PlainKernel
    <3>. QED
      BY <2>1, <2>3, <3>1, PlainJobs
  <2>. QED
    BY <2>1, <2>2, <2>3, NextIs, AddJobs, RemoveJobs, FinalJobs
<1>. QED
  BY <1>1, <1>2, BaseInit, BaseNext, PTL DEF Spec

\* A connection's cleanup callback is pushed (or, at the end, made) when the dancer
\* closes it: once, after every other callback of it, and always, but for a socket
\* with no error callback and a pool that refuses jobs.
THEOREM CleanupComesOnceAndLast == Spec => []CleanupOnceAndLast
<1>1. BaseInv /\ JobsInv => CleanupOnceAndLast
  BY DEF JobsInv, CleanupOnceAndLast, Ends, Registered
<1>. QED
  BY <1>1, JobsInvariant, PTL

-----------------------------------------------------------------------------
(* The order of what is sent.                                              *)

LEMMA NumberTypes ==
  ASSUME TypeOK
  PROVE  /\ sends \in Nat
         /\ \A i \in DOMAIN pipe : i \in Nat /\ pipe[i].n \in Nat
         /\ \A i \in DOMAIN pipeData : i \in Nat /\ pipeData[i].n \in Nat
         /\ \A f \in DOMAIN clients : \A i \in DOMAIN clients[f].sendBufs :
              i \in Nat /\ clients[f].sendBufs[i].n \in Nat
         /\ \A c \in Conns : \A i \in DOMAIN wire[c] : i \in Nat /\ wire[c][i].n \in Nat
<1>1. /\ \A m \in Messages : m.n \in Nat
      /\ \A b \in Buffers : b.n \in Nat
      /\ sends \in Nat
  BY ConstantFacts DEF Messages, Buffers, TypeOK
<1>2. pipe \in Seq(Messages) /\ pipeData \in Seq(Messages) /\ \A c \in Conns : wire[c] \in Seq(Buffers)
  BY DEF TypeOK
<1>3. \A f \in DOMAIN clients : clients[f].sendBufs \in Seq(Buffers)
  BY EntryTypes
<1>4. ASSUME NEW S, NEW q \in Seq(S), NEW i \in DOMAIN q PROVE i \in Nat /\ q[i] \in S
  BY <1>4
<1>. QED
  BY <1>1, <1>2, <1>3, <1>4

\* The messages that are no data come and go; an entry may come without buffers,
\* or go.
LEMMA OrderSame ==
  ASSUME TypeOK, OrderInv,
         \A i \in Data(pipe') : i \in Data(pipe) /\ pipe'[i].n = pipe[i].n,
         NEW c \in {0, 1},
         \A i \in Data(pipeData') :
           i \in Nat /\ i + c \in Data(pipeData) /\ pipeData'[i].n = pipeData[i + c].n,
         \A f \in DOMAIN clients' :
           \/ /\ f \in DOMAIN clients /\ clients'[f].sendBufs = clients[f].sendBufs
              /\ clients'[f].sock = clients[f].sock
           \/ clients'[f].sendBufs = <<>>,
         UNCHANGED <<wire, sends>>
  PROVE  OrderInv'
<1>1. DataOrdered(pipe)'
  BY DEF OrderInv, DataOrdered
<1>2. DataOrdered(pipeData)'
  <2>1. ASSUME NEW i \in Data(pipeData'), NEW j \in Data(pipeData'), i < j
        PROVE  pipeData'[i].n < pipeData'[j].n
    BY <2>1 DEF OrderInv, DataOrdered
  <2>. QED
    BY <2>1 DEF DataOrdered
<1>3. \A i \in Data(pipeData'), j \in Data(pipe') : pipeData'[i].n < pipe'[j].n
  BY DEF OrderInv
<1>4. /\ \A j \in Data(pipe') : pipe'[j].n <= sends
      /\ \A j \in Data(pipeData') : pipeData'[j].n <= sends
  BY DEF OrderInv
<1>5. ASSUME NEW q, Before(q, pipe), Before(q, pipeData) PROVE Before(q, pipe') /\ Before(q, pipeData')
  BY <1>5 DEF Before
<1>6. ASSUME NEW f \in DOMAIN clients'
      PROVE  /\ Ordered(clients'[f].sendBufs)
             /\ Precede(wire[clients'[f].sock], clients'[f].sendBufs)
             /\ Before(clients'[f].sendBufs, pipe') /\ Before(clients'[f].sendBufs, pipeData')
             /\ \A i \in DOMAIN clients'[f].sendBufs : clients'[f].sendBufs[i].n <= sends
  <2>1. CASE clients'[f].sendBufs = <<>>
    BY <2>1 DEF Ordered, Precede, Before
  <2>2. CASE /\ f \in DOMAIN clients /\ clients'[f].sendBufs = clients[f].sendBufs
             /\ clients'[f].sock = clients[f].sock
    BY <1>5, <2>2 DEF OrderInv
  <2>. QED
    BY <2>1, <2>2
<1>7. ASSUME NEW d \in Conns
      PROVE  /\ Ordered(wire[d]) /\ Before(wire[d], pipe') /\ Before(wire[d], pipeData')
             /\ \A i \in DOMAIN wire[d] : wire[d][i].n <= sends
  BY <1>5 DEF OrderInv
<1>. QED
  BY <1>1, <1>2, <1>3, <1>4, <1>6, <1>7 DEF OrderInv

\* A message that is no data is put at the end.
LEMMA OrderAppend ==
  ASSUME NEW q \in Seq(Messages), NEW m \in Messages, m.msg # "ConnectionQueueData"
  PROVE  \A i \in Data(Append(q, m)) : i \in Nat /\ i \in Data(q) /\ Append(q, m)[i].n = q[i].n
BY AppendFacts DEF Data

LEMMA OrderStays ==
  ASSUME TypeOK, OrderInv,
         \/ UNCHANGED pipe
         \/ \E m \in Messages : m.msg # "ConnectionQueueData" /\ pipe' = Append(pipe, m),
         \/ UNCHANGED pipeData
         \/ \E m \in Messages : m.msg # "ConnectionQueueData" /\ pipeData' = Append(pipeData, m)
         \/ pipeData # <<>> /\ pipeData' = Tail(pipeData),
         \A f \in DOMAIN clients' :
           \/ /\ f \in DOMAIN clients /\ clients'[f].sendBufs = clients[f].sendBufs
              /\ clients'[f].sock = clients[f].sock
           \/ clients'[f].sendBufs = <<>>,
         UNCHANGED <<wire, sends>>
  PROVE  OrderInv'
<1>1. \A i \in Data(pipe') : i \in Data(pipe) /\ pipe'[i].n = pipe[i].n
  BY OrderAppend, QueueTypes
<1>2. \E c \in {0, 1} : \A i \in Data(pipeData') :
        i \in Nat /\ i + c \in Data(pipeData) /\ pipeData'[i].n = pipeData[i + c].n
  <2>1. CASE UNCHANGED pipeData
    <3>1. \A i \in Data(pipeData') :
            i \in Nat /\ i + 0 = i /\ i \in Data(pipeData) /\ pipeData'[i].n = pipeData[i].n
      BY <2>1, NumberTypes DEF Data
    <3>. QED
      BY <3>1
  <2>2. CASE \E m \in Messages : m.msg # "ConnectionQueueData" /\ pipeData' = Append(pipeData, m)
    <3>1. \A i \in Data(pipeData') :
            i \in Nat /\ i + 0 = i /\ i \in Data(pipeData) /\ pipeData'[i].n = pipeData[i].n
      <4>1. PICK m \in Messages : m.msg # "ConnectionQueueData" /\ pipeData' = Append(pipeData, m)
        BY <2>2
      <4>2. pipeData \in Seq(Messages)
        BY QueueTypes
      <4>3. \A i \in Data(pipeData') : i \in Nat /\ i \in Data(pipeData) /\ pipeData'[i].n = pipeData[i].n
        BY <4>1, <4>2, OrderAppend
      <4>. QED
        BY <4>3
    <3>. QED
      BY <3>1
  <2>3. CASE pipeData # <<>> /\ pipeData' = Tail(pipeData)
    <3>1. \A i \in Data(pipeData') :
            i \in Nat /\ i + 1 \in Data(pipeData) /\ pipeData'[i].n = pipeData[i + 1].n
      BY <2>3, TailFacts, QueueTypes DEF Data
    <3>. QED
      BY <3>1
  <2>. QED
    BY <2>1, <2>2, <2>3
<1>. QED
  BY <1>1, <1>2, OrderSame

\* Data is put in the pipe, with a number of its own.
LEMMA OrderSend ==
  ASSUME BaseInv, OrderInv, NEW c \in Conns, Send(c), TypeOK' PROVE OrderInv'
<1>. USE DEF BaseInv
<1>. DEFINE m == Message("ConnectionQueueData", c, Kept(c), 0, sends')
<1>1. /\ sends \in Nat /\ sends' = sends + 1 /\ sends' \in 0 .. MaxSends
      /\ UNCHANGED <<pipeData, clients, wire>> /\ Write(m) /\ m \in Messages
      /\ m.n = sends'
  <2>1. sends \in Nat /\ sends' = sends + 1 /\ sends' \in 0 .. MaxSends
    BY NumberTypes DEF Send, TypeOK
  <2>. QED
    BY <2>1, MessageTypes, ConstantFacts DEF Send, Message
<1>. HIDE DEF m
<1>2. \/ pipe' = pipe
      \/ /\ \A i \in DOMAIN pipe' : i \in Nat
         /\ \A i \in Data(pipe') : \/ i \in Data(pipe) /\ pipe'[i].n = pipe[i].n /\ i <= Len(pipe)
                                   \/ i = Len(pipe) + 1 /\ pipe'[i].n = sends'
  <2>1. CASE pipe' = Append(pipe, m)
    <3>1. pipe \in Seq(Messages) /\ pipe' \in Seq(Messages)
      BY DEF TypeOK
    <3>. QED
      BY <1>1, <2>1, <3>1, AppendFacts DEF Data
  <2>. QED
    BY <1>1, <2>1 DEF Write
<1>3. \A i \in Data(pipe) : i \in Nat /\ i <= Len(pipe) /\ Len(pipe) \in Nat /\ pipe[i].n \in Nat /\ pipe[i].n <= sends
  <2>1. \A i \in DOMAIN pipe : i <= Len(pipe) /\ Len(pipe) \in Nat
    BY QueueTypes
  <2>. QED
    BY <2>1, NumberTypes DEF OrderInv, Data
<1>4. DataOrdered(pipe)'
  <2>1. ASSUME NEW i \in Data(pipe'), NEW j \in Data(pipe'), i < j PROVE pipe'[i].n < pipe'[j].n
    BY <1>1, <1>2, <1>3, <2>1 DEF OrderInv, DataOrdered
  <2>. QED
    BY <2>1 DEF DataOrdered
<1>5. \A j \in Data(pipe') : pipe'[j].n <= sends'
  BY <1>1, <1>2, <1>3
<1>6. /\ \A j \in Data(pipeData') : pipeData'[j].n <= sends'
      /\ \A i \in Data(pipeData'), j \in Data(pipe') : pipeData'[i].n < pipe'[j].n
  <2>1. \A i \in Data(pipeData) : pipeData[i].n \in Nat /\ pipeData[i].n <= sends
    BY NumberTypes DEF OrderInv, Data
  <2>2. \A i \in Data(pipeData), j \in Data(pipe) : pipeData[i].n < pipe[j].n
    BY DEF OrderInv
  <2>. QED
    BY <1>1, <1>2, <2>1, <2>2
<1>7. ASSUME NEW q, \A i \in DOMAIN q : q[i].n \in Nat /\ q[i].n <= sends, Before(q, pipe), Before(q, pipeData)
      PROVE  Before(q, pipe') /\ Before(q, pipeData') /\ \A i \in DOMAIN q : q[i].n <= sends'
  BY <1>1, <1>2, <1>7 DEF Before
<1>8. ASSUME NEW f \in DOMAIN clients
      PROVE  /\ Ordered(clients[f].sendBufs)
             /\ Precede(wire[clients[f].sock], clients[f].sendBufs)
             /\ Before(clients[f].sendBufs, pipe') /\ Before(clients[f].sendBufs, pipeData')
             /\ \A i \in DOMAIN clients[f].sendBufs : clients[f].sendBufs[i].n <= sends'
  BY <1>7, NumberTypes DEF OrderInv
<1>9. ASSUME NEW d \in Conns
      PROVE  /\ Ordered(wire[d]) /\ Before(wire[d], pipe') /\ Before(wire[d], pipeData')
             /\ \A i \in DOMAIN wire[d] : wire[d][i].n <= sends'
  BY <1>7, NumberTypes DEF OrderInv
<1>10. DataOrdered(pipeData')
  BY <1>1 DEF OrderInv
<1>. QED
  BY <1>1, <1>4, <1>5, <1>6, <1>8, <1>9, <1>10 DEF OrderInv

\* The dancer takes what is in the pipe.
LEMMA OrderTaken ==
  ASSUME BaseInv, OrderInv, HandlePipe PROVE OrderInv'
<1>1. pipeData = <<>> /\ pipeData' = pipe /\ pipe' = <<>> /\ UNCHANGED <<clients, wire, sends>>
  BY DEF HandlePipe, BaseInv, DancerInv
<1>2. Data(pipe') = {} /\ Data(pipeData') = Data(pipe)
  BY <1>1 DEF Data
<1>3. DataOrdered(pipe') /\ DataOrdered(pipeData')
  BY <1>1, <1>2 DEF DataOrdered, OrderInv
<1>4. ASSUME NEW q, Before(q, pipe) PROVE Before(q, pipe') /\ Before(q, pipeData')
  BY <1>1, <1>2, <1>4 DEF Before
<1>5. /\ \A j \in Data(pipe') : pipe'[j].n <= sends
      /\ \A j \in Data(pipeData') : pipeData'[j].n <= sends
      /\ \A i \in Data(pipeData'), j \in Data(pipe') : pipeData'[i].n < pipe'[j].n
  BY <1>1, <1>2 DEF OrderInv
<1>6. /\ \A f \in DOMAIN clients :
           Before(clients[f].sendBufs, pipe') /\ Before(clients[f].sendBufs, pipeData')
      /\ \A c \in Conns : Before(wire[c], pipe') /\ Before(wire[c], pipeData')
  BY <1>4 DEF OrderInv
<1>. QED
  BY <1>1, <1>3, <1>5, <1>6 DEF OrderInv

\* The first k buffers are sent.
LEMMA OrderHandle ==
  ASSUME BaseInv, OrderInv, NEW f \in Fds, NEW in \in {"none", "data", "closed"},
         NEW k \in 0 .. MaxSends, NEW ok \in BOOLEAN, HandleClient(f, in, k, ok)
  PROVE  OrderInv'
<1>. USE DEF BaseInv
<1>1. PICK c \in Conns : c = clients[f].sock /\ f \in DOMAIN clients
  BY EntryTypes DEF HandleClient
<1>2. PICK q \in Seq(Buffers) : q = clients[f].sendBufs
  BY <1>1, EntryTypes
<1>3. PICK w \in Seq(Buffers) : w = wire[c]
  BY DEF TypeOK
<1>4. k \in 0 .. Len(q) /\ UNCHANGED <<pipe, sends>>
  BY <1>2 DEF HandleClient
<1>5. PICK a \in Seq(Buffers) : a = SubSeq(q, 1, k) /\ Len(a) = k /\ \A i \in 1 .. k : a[i] = q[i]
  <2>1. /\ SubSeq(q, 1, k) \in Seq(Buffers) /\ Len(SubSeq(q, 1, k)) = k
        /\ \A i \in 1 .. k : SubSeq(q, 1, k)[i] = q[i]
    BY <1>4, SplitFacts
  <2>. QED
    BY <2>1, Zenon
<1>6. PICK b \in Seq(Buffers) : /\ b = SubSeq(q, k + 1, Len(q)) /\ Len(b) = Len(q) - k
                               /\ \A i \in 1 .. Len(q) - k : b[i] = q[k + i]
  <2>1. /\ SubSeq(q, k + 1, Len(q)) \in Seq(Buffers) /\ Len(SubSeq(q, k + 1, Len(q))) = Len(q) - k
        /\ \A i \in 1 .. Len(q) - k : SubSeq(q, k + 1, Len(q))[i] = q[k + i]
    BY <1>4, SplitFacts
  <2>. QED
    BY <2>1, Zenon
<1>7. /\ DOMAIN clients' = DOMAIN clients
      /\ clients'[f].sendBufs = b /\ clients'[f].sock = c
      /\ \A g \in DOMAIN clients : g # f =>
           clients'[g] = clients[g] /\ clients[g].sock # c /\ clients[g].sock \in Conns
  <2>1. /\ clients' = [clients EXCEPT ![f].sendBufs = SubSeq(@, k + 1, Len(q))]
        /\ clients[f] = [sock |-> clients[f].sock, id |-> clients[f].id, sendBufs |-> clients[f].sendBufs]
    BY <1>1, <1>2 DEF HandleClient, TypeOK, Entries
  <2>2. \A g \in DOMAIN clients : g # f => clients[g].sock # c /\ clients[g].sock \in Conns
    BY <1>1, EntryOpen, EntryTypes
  <2>3. DOMAIN clients' = DOMAIN clients /\ \A g \in DOMAIN clients : g # f => clients'[g] = clients[g]
    BY <2>1
  <2>4. clients'[f] = [clients[f] EXCEPT !.sendBufs = b]
    BY <1>1, <1>2, <1>6, <2>1
  <2>. QED
    BY <1>1, <2>1, <2>2, <2>3, <2>4
<1>8. wire'[c] = w \o a /\ \A d \in Conns : d # c => wire'[d] = wire[d]
  <2>1. wire' = [wire EXCEPT ![c] = @ \o a]
    BY <1>1, <1>2, <1>5 DEF HandleClient
  <2>. QED
    BY <1>3, <2>1 DEF TypeOK
<1>9. /\ Ordered(q) /\ Precede(w, q) /\ Ordered(w)
      /\ Before(q, pipe) /\ Before(q, pipeData) /\ \A i \in DOMAIN q : q[i].n <= sends
      /\ Before(w, pipe) /\ Before(w, pipeData) /\ \A i \in DOMAIN w : w[i].n <= sends
  BY <1>1, <1>2, <1>3 DEF OrderInv
<1>10. /\ Ordered(b) /\ Ordered(w \o a) /\ Precede(w \o a, b)
       /\ \A i \in DOMAIN b : \E j \in DOMAIN q : b[i] = q[j]
       /\ \A i \in DOMAIN (w \o a) :
            \/ \E j \in DOMAIN w : (w \o a)[i] = w[j]
            \/ \E j \in DOMAIN q : (w \o a)[i] = q[j]
  <2>0. /\ k \in 0 .. Len(q) /\ Ordered(q) /\ Ordered(w) /\ Precede(w, q)
        /\ Len(a) = k /\ \A i \in 1 .. k : a[i] = q[i]
        /\ Len(b) = Len(q) - k /\ \A i \in 1 .. Len(q) - k : b[i] = q[k + i]
    BY <1>4, <1>5, <1>6, <1>9
  <2>1. /\ a \in Seq(Buffers) /\ Len(a) = k
        /\ \A i \in DOMAIN a : i \in DOMAIN q /\ i <= k /\ a[i] = q[i]
        /\ b \in Seq(Buffers)
        /\ \A i \in DOMAIN b : k + i \in DOMAIN q /\ i \in Nat /\ i > 0 /\ b[i] = q[k + i]
    <3>2. DOMAIN a = 1 .. k /\ DOMAIN b = 1 .. Len(q) - k /\ DOMAIN q = 1 .. Len(q)
          /\ Len(q) \in Nat /\ k \in Nat /\ k <= Len(q)
      BY <2>0
    <3>3. \A i \in DOMAIN a : i \in DOMAIN q /\ i <= k /\ a[i] = q[i]
      BY <2>0, <3>2
    <3>4. \A i \in DOMAIN b : k + i \in DOMAIN q /\ i \in Nat /\ i > 0 /\ b[i] = q[k + i]
      BY <2>0, <3>2
    <3>. QED
      BY <2>0, <3>3, <3>4
  <2>2. \A i \in DOMAIN (w \o a) :
          \/ i \in DOMAIN w /\ (w \o a)[i] = w[i] /\ i <= Len(w)
          \/ i - Len(w) \in DOMAIN a /\ (w \o a)[i] = a[i - Len(w)] /\ i > Len(w)
    BY <2>0, <2>1, JoinFacts
  <2>3. /\ \A i \in DOMAIN (w \o a) : i \in Nat
        /\ Len(w) \in Nat
    BY <2>0, <2>1, JoinFacts
  <2>4. Ordered(b)
    <3>1. ASSUME NEW i \in DOMAIN b, NEW j \in DOMAIN b, i < j PROVE b[i].n < b[j].n
      <4>1. k + i \in DOMAIN q /\ k + j \in DOMAIN q /\ k + i < k + j
        BY <2>0, <2>1, <3>1
      <4>. QED
        BY <2>0, <2>1, <4>1 DEF Ordered
    <3>. QED
      BY <2>0, <3>1 DEF Ordered
  <2>5. Ordered(w \o a)
    <3>1. ASSUME NEW i \in DOMAIN (w \o a), NEW j \in DOMAIN (w \o a), i < j
          PROVE  (w \o a)[i].n < (w \o a)[j].n
      <4>1. CASE i \in DOMAIN w /\ (w \o a)[i] = w[i] /\ j \in DOMAIN w /\ (w \o a)[j] = w[j]
        BY <2>0, <3>1, <4>1 DEF Ordered
      <4>2. CASE /\ i \in DOMAIN w /\ (w \o a)[i] = w[i]
                 /\ j - Len(w) \in DOMAIN a /\ (w \o a)[j] = a[j - Len(w)]
        BY <2>0, <2>1, <4>2 DEF Precede
      <4>3. CASE /\ i - Len(w) \in DOMAIN a /\ (w \o a)[i] = a[i - Len(w)]
                 /\ j - Len(w) \in DOMAIN a /\ (w \o a)[j] = a[j - Len(w)]
        <5>1. i - Len(w) < j - Len(w)
          BY <2>0, <2>3, <3>1
        <5>. QED
          BY <2>0, <2>1, <4>3, <5>1 DEF Ordered
      <4>. QED
        BY <2>0, <2>2, <2>3, <3>1, <4>1, <4>2, <4>3
    <3>. QED
      BY <2>0, <3>1 DEF Ordered
  <2>6. Precede(w \o a, b)
    <3>1. ASSUME NEW i \in DOMAIN (w \o a), NEW j \in DOMAIN b PROVE (w \o a)[i].n < b[j].n
      <4>1. b[j] = q[k + j] /\ k + j \in DOMAIN q /\ j \in Nat /\ j > 0
        BY <2>0, <2>1
      <4>2. CASE i \in DOMAIN w /\ (w \o a)[i] = w[i]
        BY <2>0, <4>1, <4>2 DEF Precede
      <4>3. CASE i - Len(w) \in DOMAIN a /\ (w \o a)[i] = a[i - Len(w)]
        <5>1. i - Len(w) \in DOMAIN q /\ i - Len(w) < k + j /\ (w \o a)[i] = q[i - Len(w)]
          BY <2>0, <2>1, <2>3, <4>1, <4>3
        <5>. QED
          BY <2>0, <4>1, <5>1 DEF Ordered
      <4>. QED
        BY <2>0, <2>2, <4>2, <4>3
    <3>. QED
      BY <2>0, <3>1 DEF Precede
  <2>. QED
    BY <2>0, <2>1, <2>2, <2>4, <2>5, <2>6
<1>11. \A i \in Data(pipeData') : i \in Nat /\ i \in Data(pipeData) /\ pipeData'[i].n = pipeData[i].n
  <2>1. CASE pipeData' = Append(pipeData, Removal(clients[f]))
    <3>1. Removal(clients[f]) \in Messages /\ Removal(clients[f]).msg # "ConnectionQueueData"
      BY <1>1, MessageTypes DEF Removal, Message
    <3>2. pipeData \in Seq(Messages)
      BY QueueTypes
    <3>. QED
      BY <2>1, <3>1, <3>2, OrderAppend
  <2>2. CASE UNCHANGED pipeData
    BY <2>2, NumberTypes DEF Data
  <2>. QED
    BY <2>1, <2>2 DEF HandleClient
<1>12. ASSUME NEW r, Before(r, pipe), Before(r, pipeData) PROVE Before(r, pipe') /\ Before(r, pipeData')
  BY <1>4, <1>11, <1>12 DEF Before
<1>13. /\ Before(b, pipe) /\ Before(b, pipeData) /\ \A i \in DOMAIN b : b[i].n <= sends
       /\ Before(w \o a, pipe) /\ Before(w \o a, pipeData)
       /\ \A i \in DOMAIN (w \o a) : (w \o a)[i].n <= sends
  BY <1>9, <1>10 DEF Before
<1>14. ASSUME NEW g \in DOMAIN clients'
       PROVE  /\ Ordered(clients'[g].sendBufs)
              /\ Precede(wire'[clients'[g].sock], clients'[g].sendBufs)
              /\ Before(clients'[g].sendBufs, pipe') /\ Before(clients'[g].sendBufs, pipeData')
              /\ \A i \in DOMAIN clients'[g].sendBufs : clients'[g].sendBufs[i].n <= sends
  <2>1. CASE g = f
    BY <1>7, <1>8, <1>10, <1>12, <1>13, <2>1
  <2>2. CASE g # f
    <3>1. clients'[g] = clients[g] /\ wire'[clients[g].sock] = wire[clients[g].sock] /\ g \in DOMAIN clients
      BY <1>7, <1>8, <2>2
    <3>. QED
      BY <1>12, <3>1 DEF OrderInv
  <2>. QED
    BY <2>1, <2>2
<1>15. ASSUME NEW d \in Conns
       PROVE  /\ Ordered(wire'[d]) /\ Before(wire'[d], pipe') /\ Before(wire'[d], pipeData')
              /\ \A i \in DOMAIN wire'[d] : wire'[d][i].n <= sends
  <2>1. CASE d = c
    BY <1>8, <1>10, <1>12, <1>13, <2>1
  <2>2. CASE d # c
    BY <1>8, <1>12, <2>2 DEF OrderInv
  <2>. QED
    BY <2>1, <2>2
<1>16. DataOrdered(pipe') /\ DataOrdered(pipeData')
  BY <1>4, <1>11 DEF OrderInv, DataOrdered
<1>17. /\ \A j \in Data(pipe') : pipe'[j].n <= sends'
       /\ \A j \in Data(pipeData') : pipeData'[j].n <= sends'
       /\ \A i \in Data(pipeData'), j \in Data(pipe') : pipeData'[i].n < pipe'[j].n
  BY <1>4, <1>11 DEF OrderInv
<1>. QED
  BY <1>4, <1>14, <1>15, <1>16, <1>17 DEF OrderInv

\* A buffer goes to the end of the list of one client.
LEMMA OrderQueued ==
  ASSUME BaseInv, OrderInv, ApplyQueueData PROVE OrderInv'
<1>. USE DEF BaseInv
<1>1. PICK h \in Messages : h = Head(pipeData)
  BY ApplyingFacts DEF ApplyQueueData
<1>2. /\ h = pipeData[1] /\ h.msg = "ConnectionQueueData" /\ 1 \in DOMAIN pipeData /\ pipeData # <<>>
      /\ Queued(h) /\ h.n \in Nat /\ h.sock \in Conns /\ h.n \in 1 .. MaxSends
      /\ pipeData' = Tail(pipeData) /\ UNCHANGED <<pipe, wire, sends>>
  <2>1. Applying("ConnectionQueueData")
    BY DEF ApplyQueueData
  <2>2. h = pipeData[1] /\ h.msg = "ConnectionQueueData" /\ 1 \in DOMAIN pipeData /\ Queued(h)
        /\ h.n \in 0 .. MaxSends
    BY <1>1, <2>1, ApplyingFacts
  <2>3. h.sock \in Conns /\ h.n \in 1 .. MaxSends /\ h.n \in Nat
    BY <2>2, ConstantFacts DEF Queued
  <2>. QED
    BY <2>2, <2>3 DEF ApplyQueueData, Applying
<1>3. 1 \in Data(pipeData)
  BY <1>2 DEF Data
<1>4. \A i \in Data(pipeData') : i \in Nat /\ i > 0 /\ i + 1 \in Data(pipeData) /\ pipeData'[i].n = pipeData[i + 1].n
  BY <1>2, TailFacts, QueueTypes DEF Data
<1>5. /\ \A i \in Data(pipeData') : h.n < pipeData'[i].n
      /\ \A i \in Data(pipe') : h.n < pipe'[i].n
      /\ h.n <= sends
  <2>1. ASSUME NEW i \in Data(pipeData') PROVE h.n < pipeData'[i].n
    <3>1. i + 1 \in Data(pipeData) /\ 1 < i + 1 /\ pipeData'[i].n = pipeData[i + 1].n
      BY <1>4
    <3>. QED
      BY <1>2, <1>3, <3>1 DEF OrderInv, DataOrdered
  <2>2. ASSUME NEW i \in Data(pipe') PROVE h.n < pipe'[i].n
    BY <1>2, <1>3 DEF OrderInv
  <2>3. h.n <= sends
    BY <1>2, <1>3 DEF OrderInv
  <2>. QED
    BY <2>1, <2>2, <2>3
<1>6. PICK b \in Buffers : b = [sock |-> h.sock, n |-> h.n]
  BY <1>2 DEF Buffers
<1>7. PICK cs : cs = Matching(clients, h.id)
  OBVIOUS
<1>8. /\ cs \subseteq DOMAIN clients
      /\ clients' = IF cs = {} THEN clients ELSE [clients EXCEPT ![Min(cs)].sendBufs = Append(@, b)]
      /\ cs # {} => Min(cs) \in DOMAIN clients
  <2>1. cs \subseteq DOMAIN clients /\ DOMAIN clients \subseteq Fds
    BY <1>7 DEF Matching, TypeOK
  <2>2. cs # {} => Min(cs) \in cs
    BY <2>1, MinOfFds
  <2>. QED
    BY <1>1, <1>6, <1>7, <2>1, <2>2 DEF ApplyQueueData
<1>9. ASSUME NEW r, Before(r, pipe), Before(r, pipeData) PROVE Before(r, pipe') /\ Before(r, pipeData')
  BY <1>2, <1>4, <1>9 DEF Before
<1>10. ASSUME NEW g \in DOMAIN clients'
       PROVE  /\ Ordered(clients'[g].sendBufs)
              /\ Precede(wire'[clients'[g].sock], clients'[g].sendBufs)
              /\ Before(clients'[g].sendBufs, pipe') /\ Before(clients'[g].sendBufs, pipeData')
              /\ \A i \in DOMAIN clients'[g].sendBufs : clients'[g].sendBufs[i].n <= sends
  <2>0. g \in DOMAIN clients
    BY <1>8
  <2>1. CASE cs # {} /\ g = Min(cs)
    <3>1. PICK q \in Seq(Buffers) : q = clients[g].sendBufs
      BY <2>0, EntryTypes
    <3>2. PICK c \in Conns : c = clients[g].sock
      BY <2>0, EntryTypes
    <3>3. clients'[g].sendBufs = Append(q, b) /\ clients'[g].sock = c
      <4>1. clients'[g] = [clients[g] EXCEPT !.sendBufs = Append(@, b)]
        BY <1>8, <2>0, <2>1
      <4>2. clients[g] = [sock |-> clients[g].sock, id |-> clients[g].id, sendBufs |-> clients[g].sendBufs]
        BY <2>0 DEF TypeOK, Entries
      <4>. QED
        BY <3>1, <3>2, <4>1, <4>2
    <3>4. /\ Ordered(q) /\ Precede(wire[c], q) /\ Before(q, pipe) /\ Before(q, pipeData)
          /\ \A i \in DOMAIN q : q[i].n <= sends
          /\ Before(wire[c], pipe) /\ Before(wire[c], pipeData)
      BY <2>0, <3>1, <3>2 DEF OrderInv
    <3>5. /\ \A i \in DOMAIN q : q[i].n < b.n /\ i \in Nat /\ i <= Len(q)
          /\ \A i \in DOMAIN wire[c] : wire[c][i].n < b.n
          /\ Len(q) \in Nat
      BY <1>2, <1>3, <1>6, <3>4 DEF Before
    <3>6. \A i \in DOMAIN Append(q, b) : \/ i \in DOMAIN q /\ Append(q, b)[i] = q[i] /\ i <= Len(q)
                                         \/ i = Len(q) + 1 /\ Append(q, b)[i] = b
      BY AppendFacts
    <3>7. Ordered(Append(q, b)) /\ Precede(wire[c], Append(q, b))
      BY <3>4, <3>5, <3>6 DEF Ordered, Precede
    <3>8. /\ Before(Append(q, b), pipe') /\ Before(Append(q, b), pipeData')
          /\ \A i \in DOMAIN Append(q, b) : Append(q, b)[i].n <= sends
      <4>1. Before(q, pipe') /\ Before(q, pipeData')
        BY <1>9, <3>4
      <4>2. b.n = h.n
        BY <1>6
      <4>. QED
        BY <1>5, <3>4, <3>6, <4>1, <4>2 DEF Before
    <3>. QED
      BY <1>2, <3>3, <3>7, <3>8
  <2>2. CASE ~ (cs # {} /\ g = Min(cs))
    <3>1. clients'[g] = clients[g]
      BY <1>8, <2>0, <2>2
    <3>. QED
      BY <1>2, <1>9, <2>0, <3>1 DEF OrderInv
  <2>. QED
    BY <2>1, <2>2
<1>11. ASSUME NEW d \in Conns
       PROVE  /\ Ordered(wire'[d]) /\ Before(wire'[d], pipe') /\ Before(wire'[d], pipeData')
              /\ \A i \in DOMAIN wire'[d] : wire'[d][i].n <= sends
  BY <1>2, <1>9 DEF OrderInv
<1>12. DataOrdered(pipe') /\ DataOrdered(pipeData')
  <2>1. ASSUME NEW i \in Data(pipeData'), NEW j \in Data(pipeData'), i < j
        PROVE  pipeData'[i].n < pipeData'[j].n
    BY <1>4, <2>1 DEF OrderInv, DataOrdered
  <2>. QED
    BY <1>2, <2>1 DEF OrderInv, DataOrdered
<1>13. /\ \A j \in Data(pipe') : pipe'[j].n <= sends'
       /\ \A j \in Data(pipeData') : pipeData'[j].n <= sends'
       /\ \A i \in Data(pipeData'), j \in Data(pipe') : pipeData'[i].n < pipe'[j].n
  BY <1>2, <1>4 DEF OrderInv
<1>. QED
  BY <1>2, <1>10, <1>11, <1>12, <1>13 DEF OrderInv

LEMMA OrderNext ==
  ASSUME BaseInv, OrderInv, Next, TypeOK' PROVE OrderInv'
<1>. USE DEF BaseInv
<1>1. ASSUME UNCHANGED <<pipe, pipeData, clients, wire, sends>> PROVE OrderInv'
  BY <1>1, OrderStays
<1>2. ASSUME NEW s \in Sockets, Socket(s) \/ SocketFails(s) \/ ReadIdentifier(s) \/ WriteIdentifier(s)
      PROVE  UNCHANGED <<pipe, pipeData, clients, wire, sends>>
  BY <1>2 DEF Socket, SocketFails, ReadIdentifier, WriteIdentifier
<1>3. ASSUME NEW c \in Accepted, CloseLimbo(c) \/ PushClient(c)
      PROVE  UNCHANGED <<pipe, pipeData, clients, wire, sends>>
  BY <1>3 DEF CloseLimbo, PushClient
<1>4. ASSUME ClosePipe \/ FinishUp \/ Poll \/ PollFails \/ ApplyDone
      PROVE  UNCHANGED <<pipe, pipeData, clients, wire, sends>>
  BY <1>4 DEF ClosePipe, FinishUp, Poll, PollFails, ApplyDone
<1>5. ASSUME NEW f \in Fds, SkipListener(f) PROVE UNCHANGED <<pipe, pipeData, clients, wire, sends>>
  BY <1>5 DEF SkipListener
<1>6. ASSUME NEW f \in Fds, NEW s \in Accepted, HandleListener(f, s)
      PROVE  UNCHANGED <<pipe, pipeData, clients, wire, sends>>
  BY <1>6 DEF HandleListener
<1>7. ASSUME NEW m \in Messages, m.msg # "ConnectionQueueData", Write(m) \/ UNCHANGED pipe,
             UNCHANGED <<pipeData, clients, wire, sends>>
      PROVE  OrderInv'
  <2>1. \/ UNCHANGED pipe
        \/ \E n \in Messages : n.msg # "ConnectionQueueData" /\ pipe' = Append(pipe, n)
    BY <1>7 DEF Write
  <2>. QED
    BY <1>7, <2>1, OrderStays
<1>8. ASSUME NEW s \in Sockets, Close(s) PROVE OrderInv'
  <2>. DEFINE m == Message("SocketRemove", s, Kept(s), 0, 0)
  <2>1. m \in Messages /\ m.msg # "ConnectionQueueData"
    BY MessageTypes DEF Message
  <2>2. (Write(m) \/ UNCHANGED pipe) /\ UNCHANGED <<pipeData, clients, wire, sends>>
    BY <1>8 DEF Close
  <2>. HIDE DEF m
  <2>. QED
    BY <1>7, <2>1, <2>2
<1>9. ASSUME NEW s \in Sockets, Add(s) PROVE OrderInv'
  <2>. DEFINE m == Message(IF s \in Listeners THEN "ListenerAdd" ELSE "ConnectionAdd",
                           s, ident[s], fdOf[s], 0)
  <2>1. m \in Messages /\ m.msg # "ConnectionQueueData"
    BY MessageTypes DEF Message
  <2>2. Write(m) /\ UNCHANGED <<pipeData, clients, wire, sends>>
    BY <1>9 DEF Add
  <2>. HIDE DEF m
  <2>. QED
    BY <1>7, <2>1, <2>2
<1>10. ASSUME NEW f \in Fds, AcceptFails(f) PROVE OrderInv'
  <2>1. f \in DOMAIN listeners /\ pipeData' = Append(pipeData, Removal(listeners[f]))
        /\ UNCHANGED <<pipe, clients, wire, sends>>
    BY <1>10 DEF AcceptFails
  <2>2. Removal(listeners[f]) \in Messages /\ Removal(listeners[f]).msg # "ConnectionQueueData"
    BY <2>1, MessageTypes DEF Removal, Message
  <2>. QED
    BY <2>1, <2>2, OrderStays
<1>11. ASSUME pipeData # <<>>, pipeData' = Tail(pipeData), UNCHANGED <<pipe, wire, sends>>,
              \A f \in DOMAIN clients' :
                \/ f \in DOMAIN clients /\ clients'[f] = clients[f]
                \/ clients'[f].sendBufs = <<>>
       PROVE  OrderInv'
  BY <1>11, OrderStays
<1>12. ASSUME ApplyListenerAdd PROVE OrderInv'
  <2>1. pipeData # <<>> /\ pipeData' = Tail(pipeData) /\ UNCHANGED <<pipe, clients, wire, sends>>
    BY <1>12 DEF ApplyListenerAdd, Applying
  <2>. QED
    BY <1>11, <2>1
<1>13. ASSUME ApplyConnectionAdd PROVE OrderInv'
  <2>. DEFINE h == Head(pipeData)
  <2>1. pipeData # <<>> /\ pipeData' = Tail(pipeData) /\ UNCHANGED <<pipe, wire, sends>>
        /\ clients' = Set(clients, h.fd, Entry(h))
    BY <1>13 DEF ApplyConnectionAdd, Applying
  <2>2. Entry(h).sendBufs = <<>>
    BY DEF Entry
  <2>. HIDE DEF h
  <2>3. DOMAIN clients' = DOMAIN clients \cup {h.fd} /\ clients'[h.fd] = Entry(h)
    BY <2>1 DEF Set
  <2>4. \A g \in DOMAIN clients : g # h.fd => clients'[g] = clients[g]
    BY <2>1 DEF Set
  <2>5. ASSUME NEW f \in DOMAIN clients'
        PROVE  \/ f \in DOMAIN clients /\ clients'[f] = clients[f]
               \/ clients'[f].sendBufs = <<>>
    BY <2>2, <2>3, <2>4
  <2>. QED
    BY <1>11, <2>1, <2>5
<1>14. ASSUME ApplySocketRemove PROVE OrderInv'
  <2>1. pipeData # <<>> /\ pipeData' = Tail(pipeData) /\ UNCHANGED <<pipe, wire, sends>>
        /\ \/ UNCHANGED clients
           \/ \E f \in Fds : Removed(f)
    BY <1>14, RemoveFacts
  <2>2. ASSUME NEW g \in DOMAIN clients' PROVE g \in DOMAIN clients /\ clients'[g] = clients[g]
    BY <2>1 DEF Removed
  <2>. QED
    BY <1>11, <2>1, <2>2
<1>15. ASSUME Final PROVE OrderInv'
  <2>1. UNCHANGED <<pipe, pipeData, wire, sends>> /\ DOMAIN clients' = {}
    BY <1>15 DEF Final
  <2>. QED
    BY <2>1, OrderStays
<1>. HIDE DEF BaseInv
<1>16. CASE Plain
  <2>1. ASSUME NEW f \in Fds, NEW in \in {"none", "data", "closed"}, NEW k \in 0 .. MaxSends,
               NEW ok \in BOOLEAN, HandleClient(f, in, k, ok)
        PROVE  OrderInv'
    BY <2>1, OrderHandle
  <2>. QED
    BY <1>1, <1>2, <1>3, <1>4, <1>5, <1>6, <1>8, <1>10, <1>12, <1>13, <1>16, <2>1,
       OrderSend, OrderTaken, OrderQueued DEF Plain
<1>. QED
  BY <1>9, <1>14, <1>15, <1>16, NextIs

LEMMA OrderInvariant == Spec => [](BaseInv /\ OrderInv)
<1>1. Init => OrderInv
  BY ConstantFacts DEF Init, OrderInv, DataOrdered, Data, Ordered, Before
<1>2. BaseInv /\ OrderInv /\ [Next]_vars => OrderInv'
  <2>. SUFFICES ASSUME BaseInv, OrderInv, [Next]_vars PROVE OrderInv'
    OBVIOUS
  <2>1. TypeOK /\ TypeOK'
    BY BaseNext DEF BaseInv
  <2>2. CASE UNCHANGED vars
    BY <2>1, <2>2, OrderStays DEF vars
  <2>. QED
    BY <2>1, <2>2, OrderNext
<1>. QED
  BY <1>1, <1>2, BaseInit, BaseNext, PTL DEF Spec

\* What was given to Send goes out on each connection in the order of the calls and
\* without a repetition, however sends are split over rounds of the loop.
THEOREM SendsStayInOrder == Spec => []SentInOrder
<1>1. BaseInv /\ OrderInv => SentInOrder
  <2>. SUFFICES ASSUME BaseInv, OrderInv, NEW c \in Conns, NEW j \in DOMAIN wire[c], NEW i \in 1 .. j - 1
       PROVE  wire[c][i].n < wire[c][j].n
    BY DEF SentInOrder
  <2>1. wire[c] \in Seq(Buffers)
    BY DEF BaseInv, TypeOK
  <2>2. i \in DOMAIN wire[c] /\ i < j
    BY <2>1
  <2>. QED
    BY <2>2 DEF OrderInv, Ordered
<1>. QED
  BY <1>1, OrderInvariant, PTL
-----------------------------------------------------------------------------
(* Whose the messages and the buffers are.                                 *)

\* An identifier once given stays, and a clash of two stays too.
LEMMA IdentStays ==
  ASSUME BaseInv, Next
  PROVE  /\ \A s \in Sockets : ident[s] # 0 => ident'[s] = ident[s]
         /\ UniqueIds' => UniqueIds
<1>1. \A s \in Sockets : ident[s] # 0 => ident'[s] = ident[s]
  <2>1. ASSUME NEW s \in Sockets, WriteIdentifier(s)
        PROVE  \A t \in Sockets : ident[t] # 0 => ident'[t] = ident[t]
    BY <2>1 DEF WriteIdentifier, BaseInv, KernelInv, TypeOK
  <2>2. (\E s \in Sockets : WriteIdentifier(s)) \/ UNCHANGED ident
    BY ConstantFacts DEF Next, Program, Dancer, Sockets, Conns, Socket, SocketFails, Add, Close,
       ReadIdentifier, Send, CloseLimbo, ClosePipe, FinishUp, Poll, PollFails, HandlePipe,
       HandleListener, AcceptFails, SkipListener, HandleClient, PushClient, ApplyListenerAdd,
       ApplyConnectionAdd, ApplySocketRemove, ApplyQueueData, ApplyDone, Final
  <2>. QED
    BY <2>1, <2>2
<1>2. ASSUME UniqueIds', NEW s \in Sockets, NEW t \in Sockets, s # t, ident[s] # 0
      PROVE  ident[s] # ident[t]
  <2>1. ident'[s] = ident[s] /\ ident'[s] # ident'[t]
    BY <1>1, <1>2 DEF UniqueIds
  <2>. QED
    BY <1>1, <1>2, <2>1
<1>. QED
  BY <1>1, <1>2 DEF UniqueIds

\* There are never more identifiers given than sockets: none wraps around.
LEMMA NumberNext ==
  ASSUME FewSockets, BaseInv, NumberInv, Next PROVE NumberInv'
<1>. DEFINE n == Cardinality(Numbered)
<1>1. Numbered \subseteq Sockets /\ IsFiniteSet(Numbered) /\ n \in Nat
      /\ n <= Cardinality(Sockets) /\ Cardinality(Sockets) \in Nat
  BY FS_Subset, FS_CardinalityType DEF FewSockets, Numbered
<1>2. /\ identifier \in Nat /\ \A s \in Sockets : register[s] \in Nat /\ ident[s] \in Nat
      /\ identifier <= n /\ \A s \in Sockets : register[s] <= n /\ ident[s] <= n
  BY ConstantFacts DEF BaseInv, TypeOK, NumberInv
<1>3. ASSUME UNCHANGED idVars PROVE NumberInv'
  <2>1. Numbered' = Numbered
    BY <1>3 DEF Numbered
  <2>. QED
    BY <1>3, <2>1 DEF NumberInv
<1>4. ASSUME NEW s \in Sockets, ReadIdentifier(s) PROVE NumberInv'
  <2>1. UNCHANGED <<identifier, ident>> /\ register' = [register EXCEPT ![s] = identifier]
    BY <1>4 DEF ReadIdentifier
  <2>2. Numbered' = Numbered
    BY <2>1 DEF Numbered
  <2>3. \A t \in Sockets : register'[t] \in {register[t], identifier}
    BY <2>1 DEF BaseInv, TypeOK
  <2>. QED
    BY <1>2, <2>1, <2>2, <2>3 DEF NumberInv
<1>5. ASSUME NEW s \in Sockets, WriteIdentifier(s) PROVE NumberInv'
  <2>1. s \notin Numbered
    BY <1>5 DEF WriteIdentifier, BaseInv, KernelInv, Numbered
  <2>2. n < Cardinality(Sockets)
    <3>1. Numbered # Sockets
      BY <2>1
    <3>. QED
      BY <1>1, <3>1, FS_Subset DEF FewSockets
  <2>3. Successor(register[s]) = register[s] + 1
    <3>1. register[s] + 1 < IdRange /\ register[s] + 1 > 0 /\ IdRange \in Nat
      BY <1>1, <1>2, <2>2, ConstantFacts DEF FewSockets
    <3>2. (register[s] + 1) % IdRange = register[s] + 1
      BY <1>2, <3>1
    <3>. QED
      BY <1>2, <3>1, <3>2 DEF Successor
  <2>4. /\ identifier' = register[s] + 1
        /\ ident' = [ident EXCEPT ![s] = register[s] + 1]
        /\ register' = [register EXCEPT ![s] = 0]
    BY <1>5, <2>3 DEF WriteIdentifier
  <2>5. Numbered' = Numbered \cup {s}
    BY <1>2, <2>4 DEF Numbered, BaseInv, TypeOK
  <2>6. Cardinality(Numbered)' = n + 1
    BY <1>1, <2>1, <2>5, FS_AddElement
  <2>7. \A t \in Sockets : /\ register'[t] \in {0, register[t]}
                           /\ ident'[t] \in {ident[t], register[s] + 1}
    BY <2>4 DEF BaseInv, TypeOK
  <2>. QED
    BY <1>1, <1>2, <2>4, <2>6, <2>7 DEF NumberInv
<1>6. (\E s \in Sockets : ReadIdentifier(s) \/ WriteIdentifier(s)) \/ UNCHANGED idVars
  BY ConstantFacts DEF Next, Program, Dancer, Sockets, Conns, Socket, SocketFails, Add, Close,
     Send, CloseLimbo, ClosePipe, FinishUp, Poll, PollFails, HandlePipe,
     HandleListener, AcceptFails, SkipListener, HandleClient, PushClient, ApplyListenerAdd,
     ApplyConnectionAdd, ApplySocketRemove, ApplyQueueData, ApplyDone, Final
<1>. QED
  BY <1>3, <1>4, <1>5, <1>6

\* An object keeps a small identifier as it is, or makes it one that no socket has.
LEMMA KeptIsOwn ==
  ASSUME FewSockets, BaseInv, NumberInv, NEW s \in Sockets
  PROVE  Kept(s) = ident[s] \/ Cardinality(Sockets) < Kept(s)
<1>1. Numbered \subseteq Sockets /\ Cardinality(Numbered) \in Nat
      /\ Cardinality(Numbered) <= Cardinality(Sockets) /\ Cardinality(Sockets) \in Nat
  BY FS_Subset, FS_CardinalityType DEF FewSockets, Numbered
<1>2. /\ ident[s] \in Nat /\ ident[s] < IntRange
      /\ IntRange \in Nat /\ IdRange \in Nat /\ 2 * IntRange <= IdRange
      /\ Cardinality(Sockets) < IntRange
  BY <1>1, ConstantFacts DEF BaseInv, TypeOK, NumberInv, FewSockets
<1>3. ident[s] % IntRange = ident[s]
  BY <1>2
<1>4. Cardinality(Sockets) < IdRange - IntRange + ident[s]
  BY <1>1, <1>2
<1>. QED
  BY <1>3, <1>4 DEF Kept

\* Every message that comes carries the identifier of its own socket, or none.
LEMMA OwnAfter ==
  ASSUME BaseInv, Next, OwnMessages,
         \A i \in DOMAIN pipe' : (\E j \in DOMAIN pipe : pipe'[i] = pipe[j]) \/ OwnId(pipe[i])',
         \A i \in DOMAIN pipeData' : \/ \E j \in DOMAIN pipe : pipeData'[i] = pipe[j]
                                     \/ \E j \in DOMAIN pipeData : pipeData'[i] = pipeData[j]
                                     \/ OwnId(pipeData[i])'
  PROVE  OwnMessages'
<1>1. ASSUME NEW m \in Messages, Queued(m), OwnId(m)
      PROVE  m.id = ident'[m.sock] \/ Cardinality(Sockets) < m.id
  <2>1. m.sock \in Sockets /\ ident[m.sock] # 0
    BY <1>1 DEF Messages, Queued, Registered, BaseInv, KernelInv
  <2>. QED
    BY <1>1, <2>1, IdentStays DEF OwnId
<1>2. \A j \in DOMAIN pipe :
        pipe[j].id = ident'[pipe[j].sock] \/ Cardinality(Sockets) < pipe[j].id
  BY <1>1, QueueTypes DEF BaseInv, QueueInv, OwnMessages
<1>3. \A j \in DOMAIN pipeData :
        pipeData[j].id = ident'[pipeData[j].sock] \/ Cardinality(Sockets) < pipeData[j].id
  BY <1>1, QueueTypes DEF BaseInv, QueueInv, OwnMessages
<1>. QED
  BY <1>2, <1>3 DEF OwnMessages, OwnId

LEMMA OwnNext ==
  ASSUME FewSockets, BaseInv, NumberInv, OwnMessages, Next PROVE OwnMessages'
<1>1. pipe \in Seq(Messages) /\ pipeData \in Seq(Messages)
  BY QueueTypes DEF BaseInv
<1>2. ASSUME UNCHANGED <<pipe, pipeData>> PROVE OwnMessages'
  <2>1. /\ \A i \in DOMAIN pipe' : \E j \in DOMAIN pipe : pipe'[i] = pipe[j]
        /\ \A i \in DOMAIN pipeData' : \E j \in DOMAIN pipeData : pipeData'[i] = pipeData[j]
    BY <1>2
  <2>. QED
    BY <2>1, OwnAfter
<1>3. ASSUME NEW m \in Messages, OwnId(m), Write(m), UNCHANGED <<pipeData, ident>>
      PROVE  OwnMessages'
  <2>1. CASE pipe' = Append(pipe, m)
    <3>1. \A i \in DOMAIN pipe' : \/ \E j \in DOMAIN pipe : pipe'[i] = pipe[j]
                                  \/ OwnId(pipe[i])'
      BY <1>1, <1>3, <2>1, AppendFacts DEF OwnId
    <3>2. \A i \in DOMAIN pipeData' : \E j \in DOMAIN pipeData : pipeData'[i] = pipeData[j]
      BY <1>3
    <3>. QED
      BY <3>1, <3>2, OwnAfter
  <2>. QED
    BY <1>2, <1>3, <2>1 DEF Write
<1>4. ASSUME NEW s \in Sockets, Add(s) PROVE OwnMessages'
  <2>. DEFINE m == Message(IF s \in Listeners THEN "ListenerAdd" ELSE "ConnectionAdd",
                           s, ident[s], fdOf[s], 0)
  <2>1. m \in Messages /\ OwnId(m)
    BY MessageTypes DEF Message, BaseInv, OwnId
  <2>2. Write(m) /\ UNCHANGED <<pipeData, ident>>
    BY <1>4 DEF Add
  <2>. HIDE DEF m
  <2>. QED
    BY <1>3, <2>1, <2>2
<1>5. ASSUME NEW s \in Sockets, Close(s) PROVE OwnMessages'
  <2>. DEFINE m == Message("SocketRemove", s, Kept(s), 0, 0)
  <2>1. m \in Messages /\ OwnId(m)
    BY MessageTypes, KeptIsOwn DEF Message, BaseInv, OwnId
  <2>2. (Write(m) \/ UNCHANGED pipe) /\ UNCHANGED <<pipeData, ident>>
    BY <1>5 DEF Close
  <2>. HIDE DEF m
  <2>. QED
    BY <1>2, <1>3, <2>1, <2>2
<1>6. ASSUME NEW c \in Conns, Send(c) PROVE OwnMessages'
  <2>. DEFINE m == Message("ConnectionQueueData", c, Kept(c), 0, sends')
  <2>0. c \in Sockets /\ sends' \in 0 .. MaxSends
    BY <1>6, ConstantFacts, NumberTypes DEF Send, BaseInv, TypeOK
  <2>1. m \in Messages /\ OwnId(m)
    BY <2>0, MessageTypes, KeptIsOwn DEF Message, BaseInv, OwnId
  <2>2. Write(m) /\ UNCHANGED <<pipeData, ident>>
    BY <1>6 DEF Send
  <2>. HIDE DEF m
  <2>. QED
    BY <1>3, <2>1, <2>2
<1>7. ASSUME HandlePipe PROVE OwnMessages'
  <2>1. /\ \A i \in DOMAIN pipe' : \E j \in DOMAIN pipe : pipe'[i] = pipe[j]
        /\ \A i \in DOMAIN pipeData' : \E j \in DOMAIN pipe : pipeData'[i] = pipe[j]
    BY <1>7 DEF HandlePipe
  <2>. QED
    BY <2>1, OwnAfter
<1>8. ASSUME NEW m \in Messages, OwnId(m), pipeData' = Append(pipeData, m),
             UNCHANGED <<pipe, ident>>
      PROVE  OwnMessages'
  <2>1. \A i \in DOMAIN pipeData' : \/ \E j \in DOMAIN pipeData : pipeData'[i] = pipeData[j]
                                    \/ OwnId(pipeData[i])'
    BY <1>1, <1>8, AppendFacts DEF OwnId
  <2>2. \A i \in DOMAIN pipe' : \E j \in DOMAIN pipe : pipe'[i] = pipe[j]
    BY <1>8
  <2>. QED
    BY <2>1, <2>2, OwnAfter
<1>9. /\ \A f \in DOMAIN listeners :
           Removal(listeners[f]) \in Messages /\ OwnId(Removal(listeners[f]))
      /\ \A f \in DOMAIN clients :
           Removal(clients[f]) \in Messages /\ OwnId(Removal(clients[f]))
  BY RemovalQueued DEF OwnId, Removal, Message, BaseInv, PlaceInv, Stands
<1>10. ASSUME NEW f \in Fds, AcceptFails(f) PROVE OwnMessages'
  <2>1. f \in DOMAIN listeners /\ pipeData' = Append(pipeData, Removal(listeners[f]))
        /\ UNCHANGED <<pipe, ident>>
    BY <1>10 DEF AcceptFails
  <2>. QED
    BY <1>8, <1>9, <2>1
<1>11. ASSUME NEW f \in Fds, NEW in \in {"none", "data", "closed"}, NEW k \in 0 .. MaxSends,
              NEW ok \in BOOLEAN, HandleClient(f, in, k, ok)
       PROVE  OwnMessages'
  <2>1. f \in DOMAIN clients /\ UNCHANGED <<pipe, ident>>
        /\ (pipeData' = Append(pipeData, Removal(clients[f])) \/ UNCHANGED pipeData)
    BY <1>11 DEF HandleClient
  <2>. QED
    BY <1>2, <1>8, <1>9, <2>1
<1>12. ASSUME pipeData # <<>>, pipeData' = Tail(pipeData), UNCHANGED pipe PROVE OwnMessages'
  <2>1. /\ \A i \in DOMAIN pipeData' : \E j \in DOMAIN pipeData : pipeData'[i] = pipeData[j]
        /\ \A i \in DOMAIN pipe' : \E j \in DOMAIN pipe : pipe'[i] = pipe[j]
    BY <1>1, <1>12, TailFacts
  <2>. QED
    BY <2>1, OwnAfter
<1>13. ASSUME ApplyListenerAdd \/ ApplyConnectionAdd \/ ApplySocketRemove \/ ApplyQueueData
       PROVE  OwnMessages'
  BY <1>12, <1>13 DEF ApplyListenerAdd, ApplyConnectionAdd, ApplySocketRemove, ApplyQueueData, Applying
<1>14. ASSUME NEW s \in Sockets, Socket(s) \/ SocketFails(s) \/ ReadIdentifier(s) \/ WriteIdentifier(s)
      PROVE  UNCHANGED <<pipe, pipeData>>
  BY <1>14 DEF Socket, SocketFails, ReadIdentifier, WriteIdentifier
<1>15. ASSUME NEW c \in Accepted, CloseLimbo(c) \/ PushClient(c)
      PROVE  UNCHANGED <<pipe, pipeData>>
  BY <1>15 DEF CloseLimbo, PushClient
<1>16. ASSUME ClosePipe \/ FinishUp \/ Poll \/ PollFails \/ ApplyDone \/ Final
      PROVE  UNCHANGED <<pipe, pipeData>>
  BY <1>16 DEF ClosePipe, FinishUp, Poll, PollFails, ApplyDone, Final
<1>17. ASSUME NEW f \in Fds, SkipListener(f) PROVE UNCHANGED <<pipe, pipeData>>
  BY <1>17 DEF SkipListener
<1>18. ASSUME NEW f \in Fds, NEW s \in Accepted, HandleListener(f, s)
      PROVE  UNCHANGED <<pipe, pipeData>>
  BY <1>18 DEF HandleListener
<1>19. CASE Plain
  BY <1>2, <1>5, <1>6, <1>7, <1>10, <1>11, <1>13, <1>14, <1>15, <1>16, <1>17, <1>18, <1>19 DEF Plain
<1>. QED
  BY <1>2, <1>4, <1>13, <1>16, <1>19, NextIs

\* A message finds, among the clients, no entry but its own.
LEMMA OwnMatch ==
  ASSUME FewSockets, BaseInv, NumberInv, UniqueIds, NEW h \in Messages, Queued(h), OwnId(h),
         NEW s \in Sockets, ident[s] = h.id
  PROVE  s = h.sock
<1>1. Cardinality(Numbered) \in Nat /\ Cardinality(Numbered) <= Cardinality(Sockets)
      /\ Cardinality(Sockets) \in Nat
  BY FS_Subset, FS_CardinalityType DEF FewSockets, Numbered
<1>2. ident[s] <= Cardinality(Sockets)
  BY <1>1 DEF BaseInv, TypeOK, NumberInv
<1>3. h.sock \in Sockets /\ ident[h.sock] # 0 /\ h.id = ident[h.sock]
  BY <1>1, <1>2 DEF Messages, Queued, Registered, BaseInv, KernelInv, TypeOK, OwnId
<1>. QED
  BY <1>3 DEF UniqueIds

LEMMA BuffersNext ==
  ASSUME FewSockets, BaseInv, NumberInv, OwnMessages, UniqueIds, OwnBuffers, Next, TypeOK'
  PROVE  OwnBuffers'
<1>1. ASSUME \A f \in DOMAIN clients' :
               \/ /\ f \in DOMAIN clients /\ clients'[f].sendBufs = clients[f].sendBufs
                  /\ clients'[f].sock = clients[f].sock
               \/ clients'[f].sendBufs = <<>>,
             UNCHANGED wire
      PROVE  OwnBuffers'
  BY <1>1 DEF OwnBuffers
<1>2. ASSUME UNCHANGED <<clients, wire>> PROVE OwnBuffers'
  BY <1>2 DEF OwnBuffers
<1>3. ASSUME NEW f \in Fds, NEW in \in {"none", "data", "closed"}, NEW k \in 0 .. MaxSends,
             NEW ok \in BOOLEAN, HandleClient(f, in, k, ok)
      PROVE  OwnBuffers'
  <2>1. PICK c \in Conns : c = clients[f].sock /\ f \in DOMAIN clients
    BY <1>3, EntryTypes DEF HandleClient, BaseInv
  <2>2. PICK q \in Seq(Buffers) : q = clients[f].sendBufs
    BY <2>1, EntryTypes DEF BaseInv
  <2>3. PICK w \in Seq(Buffers) : w = wire[c]
    BY DEF BaseInv, TypeOK
  <2>4. k \in 0 .. Len(q)
    BY <1>3, <2>2 DEF HandleClient
  <2>5. /\ \A i \in DOMAIN q : q[i].sock = c
        /\ \A i \in DOMAIN w : w[i].sock = c
    BY <2>1, <2>2, <2>3 DEF OwnBuffers
  <2>6. /\ SubSeq(q, 1, k) \in Seq(Buffers)
        /\ \A i \in DOMAIN SubSeq(q, 1, k) : SubSeq(q, 1, k)[i].sock = c
        /\ \A i \in DOMAIN SubSeq(q, k + 1, Len(q)) : SubSeq(q, k + 1, Len(q))[i].sock = c
    <3>1. /\ SubSeq(q, 1, k) \in Seq(Buffers) /\ Len(SubSeq(q, 1, k)) = k
          /\ \A i \in 1 .. k : SubSeq(q, 1, k)[i] = q[i]
          /\ SubSeq(q, k + 1, Len(q)) \in Seq(Buffers)
          /\ Len(SubSeq(q, k + 1, Len(q))) = Len(q) - k
          /\ \A i \in 1 .. Len(q) - k : SubSeq(q, k + 1, Len(q))[i] = q[k + i]
      BY <2>4, SplitFacts
    <3>2. /\ \A i \in 1 .. k : i \in DOMAIN q
          /\ \A i \in 1 .. Len(q) - k : k + i \in DOMAIN q
      BY <2>4
    <3>3. /\ DOMAIN SubSeq(q, 1, k) = 1 .. k
          /\ DOMAIN SubSeq(q, k + 1, Len(q)) = 1 .. Len(q) - k
      <4>1. \A r \in Seq(Buffers) : DOMAIN r = 1 .. Len(r)
        OBVIOUS
      <4>. QED
        BY <3>1, <4>1
    <3>. QED
      BY <2>5, <3>1, <3>2, <3>3
  <2>7. PICK a \in Seq(Buffers) : a = SubSeq(q, 1, k) /\ \A i \in DOMAIN a : a[i].sock = c
    BY <2>6, Zenon
  <2>8. PICK b : b = SubSeq(q, k + 1, Len(q)) /\ \A i \in DOMAIN b : b[i].sock = c
    BY <2>6, Zenon
  <2>9. \A i \in DOMAIN (w \o a) : (w \o a)[i].sock = c
    BY <2>5, <2>7, JoinFacts
  <2>10. /\ DOMAIN clients' = DOMAIN clients
         /\ clients'[f].sendBufs = b /\ clients'[f].sock = c
         /\ \A g \in DOMAIN clients : g # f => clients'[g] = clients[g]
    <3>1. /\ clients' = [clients EXCEPT ![f].sendBufs = SubSeq(@, k + 1, Len(q))]
          /\ clients[f] = [sock |-> clients[f].sock, id |-> clients[f].id, sendBufs |-> clients[f].sendBufs]
      BY <1>3, <2>1, <2>2 DEF HandleClient, BaseInv, TypeOK, Entries
    <3>2. DOMAIN clients' = DOMAIN clients /\ \A g \in DOMAIN clients : g # f => clients'[g] = clients[g]
      BY <3>1
    <3>3. clients'[f] = [clients[f] EXCEPT !.sendBufs = b]
      BY <2>1, <2>2, <2>8, <3>1
    <3>. QED
      BY <2>1, <3>1, <3>2, <3>3
  <2>11. wire'[c] = w \o a /\ \A d \in Conns : d # c => wire'[d] = wire[d]
    <3>1. wire' = [wire EXCEPT ![c] = @ \o a]
      BY <1>3, <2>1, <2>2, <2>7 DEF HandleClient
    <3>. QED
      BY <2>3, <3>1 DEF BaseInv, TypeOK
  <2>12. ASSUME NEW g \in DOMAIN clients', NEW i \in DOMAIN clients'[g].sendBufs
         PROVE  clients'[g].sendBufs[i].sock = clients'[g].sock
    <3>1. CASE g = f
      BY <2>8, <2>10, <2>12, <3>1
    <3>2. CASE g # f
      <4>1. g \in DOMAIN clients /\ clients'[g] = clients[g]
        BY <2>10, <3>2
      <4>. QED
        BY <2>12, <4>1 DEF OwnBuffers
    <3>. QED
      BY <3>1, <3>2
  <2>13. ASSUME NEW d \in Conns, NEW i \in DOMAIN wire'[d] PROVE wire'[d][i].sock = d
    <3>1. CASE d = c
      BY <2>9, <2>11, <2>13, <3>1
    <3>2. CASE d # c
      BY <2>11, <2>13, <3>2 DEF OwnBuffers
    <3>. QED
      BY <3>1, <3>2
  <2>. QED
    BY <2>12, <2>13 DEF OwnBuffers
<1>4. ASSUME ApplyQueueData PROVE OwnBuffers'
  <2>1. PICK h \in Messages : h = Head(pipeData)
    BY <1>4, ApplyingFacts DEF ApplyQueueData, BaseInv
  <2>2. Applying("ConnectionQueueData") /\ UNCHANGED wire
    BY <1>4 DEF ApplyQueueData
  <2>3. h = pipeData[1] /\ 1 \in DOMAIN pipeData /\ Queued(h)
    BY <2>1, <2>2, ApplyingFacts DEF BaseInv
  <2>4. OwnId(h)
    BY <2>3 DEF OwnMessages
  <2>5. PICK b : b = [sock |-> h.sock, n |-> h.n]
    OBVIOUS
  <2>6. PICK cs : cs = Matching(clients, h.id)
    OBVIOUS
  <2>7. /\ \A f \in cs : f \in DOMAIN clients /\ clients[f].id = h.id
        /\ clients' = IF cs = {} THEN clients ELSE [clients EXCEPT ![Min(cs)].sendBufs = Append(@, b)]
        /\ cs # {} => Min(cs) \in cs
    <3>1. cs \subseteq DOMAIN clients /\ DOMAIN clients \subseteq Fds
          /\ \A f \in cs : clients[f].id = h.id
      BY <2>6 DEF Matching, BaseInv, TypeOK
    <3>2. cs # {} => Min(cs) \in cs
      BY <3>1, MinOfFds
    <3>. QED
      BY <1>4, <2>1, <2>5, <2>6, <3>1, <3>2 DEF ApplyQueueData
  <2>8. ASSUME NEW g \in DOMAIN clients', NEW i \in DOMAIN clients'[g].sendBufs
        PROVE  clients'[g].sendBufs[i].sock = clients'[g].sock
    <3>0. g \in DOMAIN clients
      BY <2>7
    <3>1. CASE cs # {} /\ g = Min(cs)
      <4>1. PICK q \in Seq(Buffers) : q = clients[g].sendBufs
        BY <3>0, EntryTypes DEF BaseInv
      <4>2. clients[g].sock = h.sock
        <5>1. clients[g].sock \in Sockets /\ ident[clients[g].sock] = h.id
          BY <2>7, <3>0, <3>1, EntryTypes DEF BaseInv, PlaceInv, Stands
        <5>. QED
          BY <2>3, <2>4, <5>1, OwnMatch
      <4>3. clients'[g].sendBufs = Append(q, b) /\ clients'[g].sock = h.sock
        <5>1. clients'[g] = [clients[g] EXCEPT !.sendBufs = Append(@, b)]
          BY <2>7, <3>0, <3>1
        <5>2. clients[g] = [sock |-> clients[g].sock, id |-> clients[g].id, sendBufs |-> clients[g].sendBufs]
          BY <3>0 DEF BaseInv, TypeOK, Entries
        <5>. QED
          BY <4>1, <4>2, <5>1, <5>2
      <4>4. \A j \in DOMAIN q : q[j].sock = h.sock
        BY <3>0, <4>1, <4>2 DEF OwnBuffers
      <4>5. b.sock = h.sock /\ b \in Buffers
        BY <2>1, <2>2, <2>3, <2>5, ConstantFacts DEF Queued, Messages, Buffers, Applying
      <4>6. \A j \in DOMAIN Append(q, b) : \/ Append(q, b)[j] = b
                                           \/ j \in DOMAIN q /\ Append(q, b)[j] = q[j]
        BY <4>5, AppendFacts
      <4>. QED
        BY <4>3, <4>4, <4>5, <4>6
    <3>2. CASE ~ (cs # {} /\ g = Min(cs))
      <4>1. clients'[g] = clients[g]
        BY <2>7, <3>0, <3>2
      <4>. QED
        BY <3>0, <4>1 DEF OwnBuffers
    <3>. QED
      BY <3>1, <3>2
  <2>. QED
    BY <2>2, <2>8 DEF OwnBuffers
<1>5. ASSUME ApplyConnectionAdd PROVE OwnBuffers'
  <2>1. PICK h : h = Head(pipeData)
    OBVIOUS
  <2>2. UNCHANGED wire /\ clients' = Set(clients, h.fd, Entry(h)) /\ Entry(h).sendBufs = <<>>
    BY <1>5, <2>1 DEF ApplyConnectionAdd, Entry
  <2>3. DOMAIN clients' = DOMAIN clients \cup {h.fd} /\ clients'[h.fd] = Entry(h)
    BY <2>2 DEF Set
  <2>4. \A g \in DOMAIN clients : g # h.fd => clients'[g] = clients[g]
    BY <2>2 DEF Set
  <2>. QED
    BY <1>1, <2>2, <2>3, <2>4
<1>6. ASSUME ApplySocketRemove PROVE OwnBuffers'
  <2>1. UNCHANGED wire /\ (UNCHANGED clients \/ \E f \in Fds : Removed(f))
    BY <1>6, RemoveFacts
  <2>2. \A g \in DOMAIN clients' : g \in DOMAIN clients /\ clients'[g] = clients[g]
    BY <2>1 DEF Removed
  <2>. QED
    BY <1>1, <2>1, <2>2
<1>7. ASSUME Final PROVE OwnBuffers'
  <2>1. UNCHANGED wire /\ DOMAIN clients' = {}
    BY <1>7 DEF Final
  <2>. QED
    BY <1>1, <2>1
<1>8. ASSUME NEW s \in Sockets,
             Socket(s) \/ SocketFails(s) \/ ReadIdentifier(s) \/ WriteIdentifier(s) \/ Add(s) \/ Close(s)
      PROVE  UNCHANGED <<clients, wire>>
  BY <1>8 DEF Socket, SocketFails, ReadIdentifier, WriteIdentifier, Add, Close
<1>9. ASSUME NEW c \in Accepted, CloseLimbo(c) \/ PushClient(c) PROVE UNCHANGED <<clients, wire>>
  BY <1>9 DEF CloseLimbo, PushClient
<1>10. ASSUME ClosePipe \/ FinishUp \/ Poll \/ PollFails \/ HandlePipe \/ ApplyListenerAdd \/ ApplyDone
       PROVE  UNCHANGED <<clients, wire>>
  BY <1>10 DEF ClosePipe, FinishUp, Poll, PollFails, HandlePipe, ApplyListenerAdd, ApplyDone
<1>11. ASSUME NEW f \in Fds, AcceptFails(f) \/ SkipListener(f) PROVE UNCHANGED <<clients, wire>>
  BY <1>11 DEF AcceptFails, SkipListener
<1>12. ASSUME NEW f \in Fds, NEW s \in Accepted, HandleListener(f, s) PROVE UNCHANGED <<clients, wire>>
  BY <1>12 DEF HandleListener
<1>13. ASSUME NEW c \in Conns, Send(c) PROVE UNCHANGED <<clients, wire>>
  BY <1>13 DEF Send
<1>14. CASE Plain
  BY <1>2, <1>3, <1>4, <1>5, <1>8, <1>9, <1>10, <1>11, <1>12, <1>13, <1>14 DEF Plain
<1>. QED
  BY <1>2, <1>6, <1>7, <1>8, <1>14, NextIs

LEMMA OwnInvariant ==
  FewSockets => (Spec => [](BaseInv /\ NumberInv /\ OwnMessages /\ (UniqueIds => OwnBuffers)))
<1>. SUFFICES ASSUME FewSockets
     PROVE  Spec => [](BaseInv /\ NumberInv /\ OwnMessages /\ (UniqueIds => OwnBuffers))
  OBVIOUS
<1>. DEFINE OwnInv == NumberInv /\ OwnMessages /\ (UniqueIds => OwnBuffers)
<1>1. Init => OwnInv
  <2>. SUFFICES ASSUME Init PROVE OwnInv
    OBVIOUS
  <2>1. Numbered = {}
    BY DEF Init, Numbered
  <2>2. NumberInv
    BY <2>1, FS_EmptySet DEF Init, NumberInv
  <2>. QED
    BY <2>2 DEF Init, OwnMessages, OwnBuffers
<1>2. BaseInv /\ OwnInv /\ [Next]_vars => OwnInv'
  <2>. SUFFICES ASSUME BaseInv, OwnInv, [Next]_vars PROVE OwnInv'
    OBVIOUS
  <2>1. CASE UNCHANGED vars
    BY <2>1 DEF vars, NumberInv, Numbered, OwnMessages, OwnId, OwnBuffers, UniqueIds
  <2>2. CASE Next
    <3>1. TypeOK'
      BY <2>2, TypedStep
    <3>. QED
      BY <2>2, <3>1, NumberNext, OwnNext, BuffersNext, IdentStays
  <2>. QED
    BY <2>1, <2>2
<1>. QED
  BY <1>1, <1>2, BaseInit, BaseNext, PTL DEF Spec

\* While no two sockets have the same identifier, nothing goes out on a connection
\* but what was sent on it, though the entry is found by an identifier that passed
\* through an int, and descriptors are reused.
THEOREM ConnectionCarriesItsOwn ==
  ASSUME FewSockets PROVE Spec => []SentOnItsOwn
<1>1. OwnBuffers => \A c \in Conns : \A i \in DOMAIN wire[c] : wire[c][i].sock = c
  BY DEF OwnBuffers
<1>. QED
  BY <1>1, OwnInvariant, PTL DEF SentOnItsOwn

\* While no two sockets have the same identifier, the one a SocketRemove closes is the
\* one it was sent for.
THEOREM RemovalHitsItsOwn ==
  ASSUME FewSockets PROVE Spec => RemoveHitsItsOwn
<1>. DEFINE A == UniqueIds /\ Handled =>
                   \A s \in Sockets :
                     step[s] \in {"open", "gone"} /\ IsOpen(s) /\ ~IsOpen(s)'
                       => s = Head(pipeData).sock
<1>1. ASSUME BaseInv, NumberInv, OwnMessages, [Next]_vars PROVE [A]_vars
  <2>. SUFFICES ASSUME Next, UniqueIds, Handled, NEW s \in Sockets, Registered(s), IsOpen(s), ~IsOpen(s)'
       PROVE  s = Head(pipeData).sock
    BY <1>1 DEF Registered
  <2>1. TypeOK /\ TypeOK'
    BY <1>1, TypedStep DEF BaseInv
  <2>2. CASE Plain
    BY <1>1, <2>1, <2>2, PlainKernel, SteadyOpen
  <2>3. CASE \E t \in Sockets : Add(t)
    BY <2>3 DEF Add, IsOpen
  <2>4. CASE ApplySocketRemove
    <3>1. PICK h \in Messages : h = Head(pipeData)
      BY <1>1, <2>4, ApplyingFacts DEF ApplySocketRemove, BaseInv
    <3>2. /\ UNCHANGED fdOf
          /\ \/ UNCHANGED <<open, listeners, clients, jobs>>
             \/ \E f \in Fds : Removed(f) /\ ident[open[f]] = h.id
      BY <1>1, <2>4, <3>1, RemoveFacts
    <3>3. PICK f \in Fds : Removed(f) /\ ident[open[f]] = h.id
      BY <3>2 DEF IsOpen
    <3>4. open[f] = s
      <4>1. \A g \in Fds : g # f => open'[g] = open[g]
        BY <2>1, <3>3 DEF Removed, TypeOK
      <4>. QED
        BY <3>2, <4>1 DEF IsOpen
    <3>5. h = pipeData[1] /\ 1 \in DOMAIN pipeData /\ Queued(h)
      BY <1>1, <2>4, <3>1, ApplyingFacts DEF ApplySocketRemove, BaseInv
    <3>6. OwnId(h)
      BY <1>1, <3>5 DEF OwnMessages
    <3>. QED
      BY <1>1, <3>1, <3>3, <3>4, <3>5, <3>6, OwnMatch
  <2>5. CASE Final
    BY <2>5 DEF Final, Handled
  <2>. QED
    BY <2>2, <2>3, <2>4, <2>5, NextIs
<1>2. BaseInv /\ NumberInv /\ OwnMessages /\ [Next]_vars => [A]_vars
  BY <1>1
<1>. QED
  BY <1>2, OwnInvariant, PTL DEF RemoveHitsItsOwn, Spec

-----------------------------------------------------------------------------
(* Each connection is a channel: Networking implements Connections.        *)

\* And fewer sockets than an int has positive values: Client keeps its identifier in
\* one, and what is sent under a negative one finds no connection.
SmallIdentifiers == FewSockets /\ Cardinality(Sockets) < IntRange \div 2

\* A socket is added before any data for it comes, in the pipe and in what the dancer
\* has taken from it.
AddedFirst(q) ==
  \A i, j \in DOMAIN q :
    q[i].fd # 0 /\ q[j].msg = "ConnectionQueueData" /\ q[i].sock = q[j].sock => i < j

FirstInv ==
  /\ AddedFirst(pipe) /\ AddedFirst(pipeData)
  /\ \A i \in DOMAIN pipe, j \in Data(pipeData) :
       pipe[i].fd # 0 => pipe[i].sock # pipeData[j].sock

LEMMA FirstAppend ==
  ASSUME NEW q \in Seq(Messages), NEW m \in Messages, AddedFirst(q),
         m.fd # 0 => /\ m.msg # "ConnectionQueueData"
                     /\ \A j \in Data(q) : q[j].sock # m.sock
  PROVE  AddedFirst(Append(q, m))
<1>. SUFFICES ASSUME NEW i \in DOMAIN Append(q, m), NEW j \in DOMAIN Append(q, m),
                     Append(q, m)[i].fd # 0, Append(q, m)[j].msg = "ConnectionQueueData",
                     Append(q, m)[i].sock = Append(q, m)[j].sock
              PROVE  i < j
  BY DEF AddedFirst
<1>1. CASE i \in DOMAIN q /\ j \in DOMAIN q
  BY <1>1, AppendFacts DEF AddedFirst
<1>2. CASE i = Len(q) + 1
  BY <1>2, AppendFacts DEF Data
<1>3. CASE i \in DOMAIN q /\ j = Len(q) + 1
  BY <1>3
<1>. QED
  BY <1>1, <1>2, <1>3, AppendFacts

LEMMA FirstTail ==
  ASSUME NEW q \in Seq(Messages), q # <<>>, AddedFirst(q)
  PROVE  AddedFirst(Tail(q))
<1>. SUFFICES ASSUME NEW i \in DOMAIN Tail(q), NEW j \in DOMAIN Tail(q),
                     Tail(q)[i].fd # 0, Tail(q)[j].msg = "ConnectionQueueData",
                     Tail(q)[i].sock = Tail(q)[j].sock
              PROVE  i < j
  BY DEF AddedFirst
<1>1. i + 1 < j + 1
  BY TailFacts DEF AddedFirst
<1>. QED
  BY <1>1, TailFacts

LEMMA FirstNext == ASSUME BaseInv, FirstInv, Next, TypeOK' PROVE FirstInv'
<1>1. pipe \in Seq(Messages) /\ pipeData \in Seq(Messages) /\ TypeOK
  BY QueueTypes DEF BaseInv
<1>2. ASSUME UNCHANGED <<pipe, pipeData>> PROVE FirstInv'
  BY <1>2 DEF FirstInv, AddedFirst, Data
<1>3. ASSUME NEW m \in Messages, pipe' = pipe \/ pipe' = Append(pipe, m), UNCHANGED pipeData,
             m.fd # 0 => /\ m.msg # "ConnectionQueueData"
                         /\ \A j \in Data(pipe) : pipe[j].sock # m.sock
                         /\ \A j \in Data(pipeData) : pipeData[j].sock # m.sock
      PROVE  FirstInv'
  <2>1. CASE pipe' = Append(pipe, m)
    <3>1. AddedFirst(Append(pipe, m))
      BY <1>1, <1>3, FirstAppend DEF FirstInv
    <3>2. \A i \in DOMAIN Append(pipe, m), j \in Data(pipeData) :
            Append(pipe, m)[i].fd # 0 => Append(pipe, m)[i].sock # pipeData[j].sock
      BY <1>1, <1>3, AppendFacts DEF FirstInv
    <3>. QED
      BY <1>3, <2>1, <3>1, <3>2 DEF FirstInv, AddedFirst, Data
  <2>. QED
    BY <1>2, <1>3, <2>1
<1>4. ASSUME NEW m \in Messages, pipeData' = pipeData \/ pipeData' = Append(pipeData, m),
             UNCHANGED pipe, m.fd = 0, m.msg # "ConnectionQueueData"
      PROVE  FirstInv'
  <2>1. CASE pipeData' = Append(pipeData, m)
    <3>1. AddedFirst(Append(pipeData, m))
      BY <1>1, <1>4, FirstAppend DEF FirstInv
    <3>2. \A i \in DOMAIN pipe, j \in Data(Append(pipeData, m)) :
            pipe[i].fd # 0 => pipe[i].sock # Append(pipeData, m)[j].sock
      BY <1>1, <1>4, AppendFacts DEF FirstInv, Data
    <3>. QED
      BY <1>4, <2>1, <3>1, <3>2 DEF FirstInv, AddedFirst, Data
  <2>. QED
    BY <1>2, <1>4, <2>1
<1>5. ASSUME pipeData # <<>>, pipeData' = Tail(pipeData), UNCHANGED pipe PROVE FirstInv'
  <2>1. AddedFirst(Tail(pipeData))
    BY <1>1, <1>5, FirstTail DEF FirstInv
  <2>2. \A i \in DOMAIN pipe, j \in Data(Tail(pipeData)) :
          pipe[i].fd # 0 => pipe[i].sock # Tail(pipeData)[j].sock
    BY <1>1, <1>5, TailFacts DEF FirstInv, Data
  <2>. QED
    BY <1>5, <2>1, <2>2 DEF FirstInv, AddedFirst, Data
<1>6. ASSUME NEW s \in Sockets, Add(s) PROVE FirstInv'
  <2>1. PICK m \in Messages : /\ m.sock = s /\ m.msg # "ConnectionQueueData"
                              /\ pipe' = pipe \/ pipe' = Append(pipe, m)
    <3>1. PICK m \in Messages :
            m = Message(IF s \in Listeners THEN "ListenerAdd" ELSE "ConnectionAdd",
                        s, ident[s], fdOf[s], 0)
      BY <1>1, MessageTypes
    <3>2. m.sock = s /\ m.msg # "ConnectionQueueData"
      BY <3>1 DEF Message
    <3>. QED
      BY <1>6, <3>1, <3>2 DEF Add, Write
  <2>2. ~ Registered(s) /\ UNCHANGED pipeData
    BY <1>6 DEF Add, Registered
  <2>3. /\ \A j \in DOMAIN pipe : Registered(pipe[j].sock)
        /\ \A j \in DOMAIN pipeData : Registered(pipeData[j].sock)
    BY DEF BaseInv, QueueInv, Queued
  <2>. QED
    BY <1>3, <2>1, <2>2, <2>3 DEF Data
<1>7. ASSUME NEW c \in Conns, Send(c) PROVE FirstInv'
  <2>1. PICK m \in Messages : m.fd = 0 /\ (pipe' = pipe \/ pipe' = Append(pipe, m))
    <3>1. c \in Sockets /\ sends' \in 0 .. MaxSends /\ TypeOK
      BY <1>1, ConstantFacts DEF TypeOK
    <3>2. PICK m \in Messages : m = Message("ConnectionQueueData", c, Kept(c), 0, sends')
      BY <3>1, MessageTypes
    <3>. QED
      BY <1>7, <3>2 DEF Send, Write, Message
  <2>. QED
    BY <1>3, <1>7, <2>1 DEF Send
<1>8. ASSUME NEW s \in Sockets, Close(s) PROVE FirstInv'
  <2>1. PICK m \in Messages : m.fd = 0 /\ (pipe' = pipe \/ pipe' = Append(pipe, m))
    <3>1. PICK m \in Messages : m = Message("SocketRemove", s, Kept(s), 0, 0)
      BY <1>1, MessageTypes
    <3>. QED
      BY <1>8, <3>1 DEF Close, Write, Message
  <2>. QED
    BY <1>3, <1>8, <2>1 DEF Close
<1>9. ASSUME HandlePipe PROVE FirstInv'
  <2>1. pipeData' = pipe /\ pipe' = <<>>
    BY <1>9 DEF HandlePipe
  <2>. QED
    BY <2>1 DEF FirstInv, AddedFirst, Data
<1>10. ASSUME NEW f \in Fds, AcceptFails(f) PROVE FirstInv'
  <2>1. /\ Removal(listeners[f]) \in Messages /\ Removal(listeners[f]).fd = 0
        /\ Removal(listeners[f]).msg # "ConnectionQueueData"
    BY <1>1, <1>10, MessageTypes DEF AcceptFails, Removal, Message
  <2>. QED
    BY <1>4, <1>10, <2>1 DEF AcceptFails
<1>11. ASSUME NEW f \in Fds, NEW in \in {"none", "data", "closed"}, NEW k \in 0 .. MaxSends,
              NEW ok \in BOOLEAN, HandleClient(f, in, k, ok)
       PROVE  FirstInv'
  <2>1. /\ Removal(clients[f]) \in Messages /\ Removal(clients[f]).fd = 0
        /\ Removal(clients[f]).msg # "ConnectionQueueData"
    BY <1>1, <1>11, MessageTypes DEF HandleClient, Removal, Message
  <2>2. UNCHANGED pipe /\ (pipeData' = pipeData \/ pipeData' = Append(pipeData, Removal(clients[f])))
    BY <1>11 DEF HandleClient
  <2>. QED
    BY <1>4, <2>1, <2>2
<1>12. ASSUME ApplyListenerAdd \/ ApplyConnectionAdd \/ ApplySocketRemove \/ ApplyQueueData
       PROVE  FirstInv'
  BY <1>5, <1>12 DEF ApplyListenerAdd, ApplyConnectionAdd, ApplySocketRemove, ApplyQueueData, Applying
<1>13. ASSUME NEW s \in Sockets, Socket(s) \/ SocketFails(s) \/ ReadIdentifier(s) \/ WriteIdentifier(s)
       PROVE  UNCHANGED <<pipe, pipeData>>
  BY <1>13 DEF Socket, SocketFails, ReadIdentifier, WriteIdentifier
<1>14. ASSUME NEW c \in Accepted, CloseLimbo(c) \/ PushClient(c) PROVE UNCHANGED <<pipe, pipeData>>
  BY <1>14 DEF CloseLimbo, PushClient
<1>15. ASSUME ClosePipe \/ FinishUp \/ Poll \/ PollFails \/ ApplyDone \/ Final
       PROVE  UNCHANGED <<pipe, pipeData>>
  BY <1>15 DEF ClosePipe, FinishUp, Poll, PollFails, ApplyDone, Final
<1>16. ASSUME NEW f \in Fds, SkipListener(f) \/ \E s \in Accepted : HandleListener(f, s)
       PROVE  UNCHANGED <<pipe, pipeData>>
  BY <1>16 DEF SkipListener, HandleListener
<1>17. CASE Plain
  BY <1>2, <1>7, <1>8, <1>9, <1>10, <1>11, <1>12, <1>13, <1>14, <1>15, <1>16, <1>17 DEF Plain
<1>. QED
  BY <1>2, <1>6, <1>12, <1>15, <1>17, NextIs

LEMMA FirstInvariant == Spec => [](BaseInv /\ FirstInv)
<1>1. Init => FirstInv
  BY DEF Init, FirstInv, AddedFirst, Data
<1>2. BaseInv /\ FirstInv /\ [Next]_vars => FirstInv'
  <2>. SUFFICES ASSUME BaseInv, FirstInv, [Next]_vars PROVE FirstInv'
    OBVIOUS
  <2>1. CASE UNCHANGED vars
    BY <2>1 DEF vars, FirstInv, AddedFirst, Data
  <2>. QED
    BY <2>1, TypedStep, FirstNext
<1>. QED
  BY <1>1, <1>2, BaseInit, BaseNext, PTL DEF Spec

-----------------------------------------------------------------------------
(* What Connections knows of a connection.                                 *)

\* The dancer has its socket; the data it holds in the connection's entry.
Live(c) == Registered(c) /\ IsOpen(c)

Stored(c) == UNION {Range(clients[f].sendBufs) : f \in {f \in DOMAIN clients : clients[f].sock = c}}

\* The data a message is for a connection.
Brought(c, m) ==
  IF m.msg = "ConnectionQueueData" /\ m.sock = c /\ m.id = ident[c]
  THEN {[sock |-> c, n |-> m.n]} ELSE {}

LEMMA BufferIs ==
  ASSUME NEW c \in Conns
  PROVE  /\ StateOf(c) \in {"open", "left"} <=> Live(c)
         /\ StateOf(c) \in {"open", "lost"} <=> step[c] = "open"
         /\ StateOf(c) \in {"new", "open", "lost", "left", "closed"}
         /\ BufferOf(c) = IF Live(c) THEN Waiting(c, pipe) \cup Waiting(c, pipeData) \cup Stored(c) ELSE {}
<1>1. step[c] = "open" \/ step[c] = "gone" \/ (step[c] # "open" /\ step[c] # "gone")
  OBVIOUS
<1>. QED
  BY <1>1 DEF BufferOf, StateOf, Live, Registered, Stored

LEMMA NextBufferIs ==
  ASSUME NEW c \in Conns
  PROVE  /\ StateOf(c)' \in {"open", "left"} <=> Live(c)'
         /\ StateOf(c)' \in {"open", "lost"} <=> step'[c] = "open"
         /\ BufferOf(c)' = IF Live(c)' THEN Waiting(c, pipe)' \cup Waiting(c, pipeData)' \cup Stored(c)' ELSE {}
<1>1. step'[c] = "open" \/ step'[c] = "gone" \/ (step'[c] # "open" /\ step'[c] # "gone")
  OBVIOUS
<1>. QED
  BY <1>1 DEF BufferOf, StateOf, Live, Registered, Stored

LEMMA WaitingIs ==
  ASSUME NEW c \in Conns, NEW q, NEW x
  PROVE  x \in Waiting(c, q) <=> \E i \in DOMAIN q : x \in Brought(c, q[i])
BY DEF Waiting, Brought

LEMMA WaitingAppend ==
  ASSUME NEW c \in Conns, NEW q \in Seq(Messages), NEW m \in Messages
  PROVE  Waiting(c, Append(q, m)) = Waiting(c, q) \cup Brought(c, m)
<1>1. ASSUME NEW x PROVE x \in Waiting(c, Append(q, m)) <=> x \in Waiting(c, q) \cup Brought(c, m)
  <2>1. Len(q) + 1 \in DOMAIN Append(q, m) /\ Append(q, m)[Len(q) + 1] = m
    OBVIOUS
  <2>2. (\E i \in DOMAIN Append(q, m) : x \in Brought(c, Append(q, m)[i]))
           <=> (\E i \in DOMAIN q : x \in Brought(c, q[i])) \/ x \in Brought(c, m)
    BY <2>1, AppendFacts
  <2>. QED
    BY <2>2, WaitingIs
<1>. QED
  BY <1>1

LEMMA WaitingTail ==
  ASSUME NEW c \in Conns, NEW q \in Seq(Messages), q # <<>>
  PROVE  Waiting(c, q) = Brought(c, Head(q)) \cup Waiting(c, Tail(q))
<1>1. ASSUME NEW x PROVE x \in Waiting(c, q) <=> x \in Brought(c, Head(q)) \cup Waiting(c, Tail(q))
  <2>1. (\E i \in DOMAIN q : x \in Brought(c, q[i]))
           <=> x \in Brought(c, Head(q)) \/ (\E i \in DOMAIN Tail(q) : x \in Brought(c, Tail(q)[i]))
    BY TailFacts
  <2>. QED
    BY <2>1, WaitingIs
<1>. QED
  BY <1>1

LEMMA WaitingEmpty == ASSUME NEW c \in Conns PROVE Waiting(c, <<>>) = {}
BY DEF Waiting

LEMMA WaitingNext ==
  ASSUME NEW c \in Conns, ident'[c] = ident[c]
  PROVE  Waiting(c, pipe)' = Waiting(c, pipe') /\ Waiting(c, pipeData)' = Waiting(c, pipeData')
BY DEF Waiting

\* The sendBufs of a connection are those of its entry.
LEMMA StoredIs ==
  ASSUME BaseInv, NEW c \in Conns
  PROVE  /\ fdOf[c] \in DOMAIN clients /\ clients[fdOf[c]].sock = c
              => Stored(c) = Range(clients[fdOf[c]].sendBufs)
         /\ (\A f \in DOMAIN clients : clients[f].sock # c) => Stored(c) = {}
         /\ \A f \in DOMAIN clients : clients[f].sock = c => f = fdOf[c]
<1>1. \A f \in DOMAIN clients : clients[f].sock = c => f = fdOf[c]
  BY EntryOpen
<1>. QED
  BY <1>1 DEF Stored

LEMMA StoredSame ==
  ASSUME NEW c \in Conns,
         \A f \in DOMAIN clients : clients[f].sock = c => f \in DOMAIN clients' /\ clients'[f] = clients[f],
         \A f \in DOMAIN clients' : clients'[f].sock = c =>
           \/ f \in DOMAIN clients /\ clients'[f] = clients[f]
           \/ clients'[f].sendBufs = <<>>
  PROVE  Stored(c)' = Stored(c)
<1>1. Range(<<>>) = {}
  BY DEF Range
<1>. QED
  BY <1>1 DEF Stored

-----------------------------------------------------------------------------
(* From the connections one by one to the actions of Connections.          *)

\* What a step leaves as it is of all that Connections knows.
SameRest == UNCHANGED <<wire, sends, finishing>> /\ (Readable' <=> Readable)
SameJobs == \A c \in Conns : jobs'[c] = jobs[c]
SameConn(c) == StateOf(c)' = StateOf(c) /\ BufferOf(c)' = BufferOf(c)

LEMMA SameSteps ==
  ASSUME \A c \in Conns : SameConn(c), SameJobs, SameRest
  PROVE  UNCHANGED Connection!vars
<1>1. [c \in Conns |-> StateOf(c)]' = [c \in Conns |-> StateOf(c)]
  BY DEF SameConn
<1>2. [c \in Conns |-> BufferOf(c)]' = [c \in Conns |-> BufferOf(c)]
  BY DEF SameConn
<1>3. [c \in Conns |-> jobs[c]]' = [c \in Conns |-> jobs[c]]
  BY DEF SameJobs
<1>. QED
  BY <1>1, <1>2, <1>3 DEF Connection!vars, SameRest, Readable

LEMMA OpenSteps ==
  ASSUME NEW c \in Conns, StateOf(c) = "new", StateOf(c)' = "open", Readable,
         \A d \in Conns \ {c} : StateOf(d)' = StateOf(d),
         \A d \in Conns : BufferOf(d)' = BufferOf(d), SameJobs, SameRest
  PROVE  Connection!Open(c)
<1>1. [d \in Conns |-> StateOf(d)]' = [[d \in Conns |-> StateOf(d)] EXCEPT ![c] = "open"]
  OBVIOUS
<1>2. [d \in Conns |-> BufferOf(d)]' = [d \in Conns |-> BufferOf(d)]
  OBVIOUS
<1>3. [d \in Conns |-> jobs[d]]' = [d \in Conns |-> jobs[d]]
  BY DEF SameJobs
<1>4. [d \in Conns |-> StateOf(d)][c] = "new"
  OBVIOUS
<1>. QED
  BY <1>1, <1>2, <1>3, <1>4 DEF Connection!Open, SameRest

LEMMA SendSteps ==
  ASSUME NEW c \in Conns, StateOf(c) \in {"open", "lost"}, sends < MaxSends, sends' = sends + 1,
         BufferOf(c)' = IF StateOf(c) \in {"open", "left"} /\ Readable
                        THEN BufferOf(c) \cup {[sock |-> c, n |-> sends']} ELSE BufferOf(c),
         \A d \in Conns \ {c} : BufferOf(d)' = BufferOf(d),
         \A d \in Conns : StateOf(d)' = StateOf(d), SameJobs,
         UNCHANGED <<wire, finishing>>, Readable' <=> Readable
  PROVE  Connection!Send(c)
<1>. DEFINE st == [d \in Conns |-> StateOf(d)]
            bf == [d \in Conns |-> BufferOf(d)]
<1>1. st' = st
  OBVIOUS
<1>2. bf' = IF StateOf(c) \in {"open", "left"} /\ Readable
            THEN [bf EXCEPT ![c] = @ \cup {[sock |-> c, n |-> sends']}] ELSE bf
  OBVIOUS
<1>3. [d \in Conns |-> jobs[d]]' = [d \in Conns |-> jobs[d]]
  BY DEF SameJobs
<1>4. st[c] = StateOf(c)
  OBVIOUS
<1>. HIDE DEF st, bf
<1>. QED
  BY <1>1, <1>2, <1>3, <1>4 DEF Connection!Send, Connection!Held, Connection!Connected, st, bf

LEMMA LeaveSteps ==
  ASSUME NEW c \in Conns, StateOf(c) \in {"open", "lost"},
         StateOf(c)' = IF StateOf(c) \in {"open", "left"} THEN "left" ELSE "closed",
         \A d \in Conns \ {c} : StateOf(d)' = StateOf(d),
         \A d \in Conns : BufferOf(d)' = BufferOf(d), SameJobs, SameRest
  PROVE  Connection!Leave(c)
<1>. DEFINE st == [d \in Conns |-> StateOf(d)]
            bf == [d \in Conns |-> BufferOf(d)]
<1>1. st' = [st EXCEPT ![c] = IF StateOf(c) \in {"open", "left"} THEN "left" ELSE "closed"]
  OBVIOUS
<1>2. bf' = bf
  OBVIOUS
<1>3. [d \in Conns |-> jobs[d]]' = [d \in Conns |-> jobs[d]]
  BY DEF SameJobs
<1>4. st[c] = StateOf(c)
  OBVIOUS
<1>. HIDE DEF st, bf
<1>. QED
  BY <1>1, <1>2, <1>3, <1>4 DEF Connection!Leave, Connection!Held, Connection!Connected, st, bf, SameRest

LEMMA ExchangeSteps ==
  ASSUME NEW c \in Conns, StateOf(c) \in {"open", "left"},
         jobs \in [Sockets -> Seq(Jobs)],
         jobs' = jobs \/ (~ finishing /\ jobs' = [jobs EXCEPT ![c] = @ \o <<"data">>]),
         NEW k \in 0 .. MaxSends, NEW out \in [1 .. k -> BufferOf(c)],
         Connection!Oldest(out, BufferOf(c)),
         wire' = [wire EXCEPT ![c] = @ \o out],
         BufferOf(c)' = BufferOf(c) \ Range(out),
         \A d \in Conns \ {c} : BufferOf(d)' = BufferOf(d),
         \A d \in Conns : StateOf(d)' = StateOf(d),
         UNCHANGED <<sends, finishing>>, Readable' <=> Readable
  PROVE  Connection!Exchange(c)
<1>. DEFINE st == [d \in Conns |-> StateOf(d)]
            bf == [d \in Conns |-> BufferOf(d)]
            jb == [d \in Conns |-> jobs[d]]
<1>1. st' = st
  OBVIOUS
<1>2. bf' = [bf EXCEPT ![c] = @ \ Range(out)]
  OBVIOUS
<1>3. jb' = jb \/ (~ finishing /\ jb' = [jb EXCEPT ![c] = @ \o <<"data">>])
  BY ConstantFacts
<1>4. st[c] = StateOf(c) /\ bf[c] = BufferOf(c)
  OBVIOUS
<1>. HIDE DEF st, bf, jb
<1>5. \E n \in 0 .. MaxSends : \E o \in [1 .. n -> bf[c]] :
        /\ Connection!Oldest(o, bf[c]) /\ wire' = [wire EXCEPT ![c] = @ \o o]
        /\ bf' = [bf EXCEPT ![c] = @ \ Connection!Range(o)]
  <2>1. Connection!Range(out) = Range(out)
    BY DEF Connection!Range, Range
  <2>. QED
    BY <1>2, <1>4, <2>1
<1>. QED
  BY <1>1, <1>3, <1>4, <1>5 DEF Connection!Exchange, Connection!Connected, st, bf, jb

LEMMA EndSteps ==
  ASSUME NEW c \in Conns, StateOf(c) \in {"open", "left"},
         StateOf(c)' = IF StateOf(c) \in {"open", "lost"} THEN "lost" ELSE "closed",
         BufferOf(c)' = {},
         \A d \in Conns \ {c} : SameConn(d),
         jobs \in [Sockets -> Seq(Jobs)],
         jobs' = IF finishing \/ c \in Silent THEN jobs
                 ELSE [jobs EXCEPT ![c] = @ \o <<"error", "cleanup">>],
         SameRest
  PROVE  Connection!End(c)
<1>. DEFINE st == [d \in Conns |-> StateOf(d)]
            bf == [d \in Conns |-> BufferOf(d)]
            jb == [d \in Conns |-> jobs[d]]
<1>1. st' = [d \in Conns |-> IF d \notin {c} THEN st[d] ELSE IF st[d] \in {"open", "lost"} THEN "lost" ELSE "closed"]
  BY DEF SameConn
<1>2. bf' = [d \in Conns |-> IF d \in {c} THEN {} ELSE bf[d]]
  BY DEF SameConn
<1>3. jb' = IF finishing \/ c \in Silent THEN jb ELSE [jb EXCEPT ![c] = @ \o <<"error", "cleanup">>]
  BY ConstantFacts
<1>4. st[c] \in {"open", "left"}
  OBVIOUS
<1>. HIDE DEF st, bf, jb
<1>. QED
  BY <1>1, <1>2, <1>3, <1>4 DEF Connection!End, Connection!Dropped, Connection!Held,
     Connection!Connected, SameRest, st, bf, jb

LEMMA ShutdownSteps ==
  ASSUME NEW ended \in SUBSET Conns, \A c \in ended : StateOf(c) \in {"open", "left"},
         \A c \in ended : /\ StateOf(c)' = IF StateOf(c) \in {"open", "lost"} THEN "lost" ELSE "closed"
                          /\ BufferOf(c)' = {} /\ jobs'[c] = jobs[c] \o <<"final">>,
         \A c \in Conns \ ended : SameConn(c) /\ jobs'[c] = jobs[c],
         ~ Readable', UNCHANGED <<wire, sends, finishing>>
  PROVE  Connection!Shutdown(ended)
<1>. DEFINE st == [d \in Conns |-> StateOf(d)]
            bf == [d \in Conns |-> BufferOf(d)]
            jb == [d \in Conns |-> jobs[d]]
<1>1. st' = [d \in Conns |-> IF d \notin ended THEN st[d] ELSE IF st[d] \in {"open", "lost"} THEN "lost" ELSE "closed"]
  BY DEF SameConn
<1>2. bf' = [d \in Conns |-> IF d \in ended THEN {} ELSE bf[d]]
  BY DEF SameConn
<1>3. jb' = [d \in Conns |-> IF d \in ended THEN jb[d] \o <<"final">> ELSE jb[d]]
  OBVIOUS
<1>4. \A c \in ended : st[c] \in {"open", "left"}
  OBVIOUS
<1>. HIDE DEF st, bf, jb
<1>. QED
  BY <1>1, <1>2, <1>3, <1>4 DEF Connection!Shutdown, Connection!Dropped, Connection!Held,
     Connection!Connected, st, bf, jb

\* All that was sent on a connection and has not left yet.
Everything(c) == Waiting(c, pipe) \cup Waiting(c, pipeData) \cup Stored(c)

LEMMA StateSame ==
  ASSUME BaseInv, TypeOK', Steady, NEW c \in Conns, Registered(c) => step'[c] = step[c]
  PROVE  StateOf(c)' = StateOf(c) /\ (Live(c)' <=> Live(c))
<1>1. c \in Sockets /\ TypeOK
  BY ConstantFacts DEF BaseInv
<1>2. Registered(c)' <=> Registered(c)
  BY <1>1 DEF Steady
<1>3. Registered(c) => (IsOpen(c)' <=> IsOpen(c))
  BY <1>1, SteadyOpen
<1>4. CASE Registered(c)
  BY <1>2, <1>3, <1>4 DEF StateOf, Live
<1>5. CASE ~ Registered(c)
  <2>1. step[c] # "open" /\ step[c] # "gone" /\ step'[c] # "open" /\ step'[c] # "gone"
    BY <1>2, <1>5 DEF Registered
  <2>. QED
    BY <1>2, <1>5, <2>1 DEF StateOf, Live
<1>. QED
  BY <1>4, <1>5

LEMMA ConnSame ==
  ASSUME BaseInv, TypeOK', Steady, NEW c \in Conns, Registered(c) => step'[c] = step[c],
         Live(c) => Waiting(c, pipe') \cup Waiting(c, pipeData') \cup Stored(c)' = Everything(c)
  PROVE  SameConn(c)
<1>1. c \in Sockets
  BY ConstantFacts
<1>2. StateOf(c)' = StateOf(c) /\ (Live(c)' <=> Live(c))
  BY StateSame
<1>3. CASE Live(c)
  <2>1. ident'[c] = ident[c]
    BY <1>1, <1>3 DEF Steady, Live
  <2>. QED
    BY <1>2, <1>3, <2>1, WaitingNext, BufferIs, NextBufferIs DEF SameConn, Everything
<1>4. CASE ~ Live(c)
  BY <1>2, <1>4, BufferIs, NextBufferIs DEF SameConn
<1>. QED
  BY <1>3, <1>4

\* The steps that change nothing Connections knows of.
Hidden ==
  \/ \E s \in Sockets : Socket(s) \/ SocketFails(s) \/ ReadIdentifier(s) \/ WriteIdentifier(s)
  \/ \E s \in Accepted : CloseLimbo(s) \/ PushClient(s)
  \/ \E f \in Fds : \/ \E s \in Accepted : HandleListener(f, s)
                    \/ AcceptFails(f) \/ SkipListener(f)
  \/ Poll \/ PollFails \/ HandlePipe \/ ApplyListenerAdd \/ ApplyConnectionAdd \/ ApplyDone

LEMMA HiddenStep ==
  ASSUME BaseInv, Hidden, NEW c \in Conns, Registered(c) PROVE step'[c] = step[c]
<1>1. c \in Sockets
  BY ConstantFacts
<1>2. ASSUME NEW s \in Sockets, NEW to, ~ Registered(s), step' = [step EXCEPT ![s] = to]
      PROVE  step'[c] = step[c]
  BY <1>1, <1>2 DEF BaseInv, TypeOK
<1>3. ASSUME NEW s \in Sockets, Socket(s) \/ SocketFails(s) \/ ReadIdentifier(s) \/ WriteIdentifier(s)
      PROVE  step'[c] = step[c]
  BY <1>2, <1>3 DEF Socket, SocketFails, ReadIdentifier, WriteIdentifier, Registered
<1>4. ASSUME NEW s \in Accepted, CloseLimbo(s) \/ PushClient(s) PROVE step'[c] = step[c]
  BY <1>2, <1>4, ConstantFacts DEF CloseLimbo, PushClient, Registered
<1>5. ASSUME NEW f \in Fds, NEW s \in Accepted, HandleListener(f, s) PROVE step'[c] = step[c]
  BY <1>2, <1>5, ConstantFacts DEF HandleListener, Registered
<1>6. ASSUME NEW f \in Fds, AcceptFails(f) \/ SkipListener(f) PROVE step'[c] = step[c]
  BY <1>6 DEF AcceptFails, SkipListener
<1>7. ASSUME Poll \/ PollFails \/ HandlePipe \/ ApplyListenerAdd \/ ApplyConnectionAdd \/ ApplyDone
      PROVE  step'[c] = step[c]
  BY <1>7 DEF Poll, PollFails, HandlePipe, ApplyListenerAdd, ApplyConnectionAdd, ApplyDone
<1>. QED
  BY <1>3, <1>4, <1>5, <1>6, <1>7 DEF Hidden

LEMMA HiddenRest ==
  ASSUME BaseInv, Hidden PROVE SameJobs /\ SameRest
<1>1. ASSUME NEW s \in Sockets, Socket(s) \/ SocketFails(s) \/ ReadIdentifier(s) \/ WriteIdentifier(s)
      PROVE  SameJobs /\ SameRest
  BY <1>1 DEF Socket, SocketFails, ReadIdentifier, WriteIdentifier, SameJobs, SameRest, Readable
<1>2. ASSUME NEW s \in Accepted, CloseLimbo(s) PROVE SameJobs /\ SameRest
  BY <1>2 DEF CloseLimbo, SameJobs, SameRest, Readable
<1>3. ASSUME NEW s \in Accepted, PushClient(s) PROVE SameJobs /\ SameRest
  <2>1. listeners[Due].sock \in Listeners
    BY <1>3, EntryTypes DEF PushClient, BaseInv, DancerInv
  <2>2. \A c \in Conns : c \in Sockets /\ c # listeners[Due].sock
    BY <2>1, ConstantFacts
  <2>3. SameJobs
    BY <1>3, <2>2 DEF PushClient, Push, SameJobs, BaseInv, TypeOK
  <2>. QED
    BY <1>3, <2>3 DEF PushClient, SameRest, Readable
<1>4. ASSUME NEW f \in Fds, \/ AcceptFails(f) \/ SkipListener(f)
                            \/ \E s \in Accepted : HandleListener(f, s)
      PROVE  SameJobs /\ SameRest
  BY <1>4 DEF AcceptFails, SkipListener, HandleListener, SameJobs, SameRest, Readable
<1>5. ASSUME Poll \/ PollFails \/ HandlePipe PROVE SameJobs /\ SameRest
  BY <1>5 DEF Poll, PollFails, HandlePipe, SameJobs, SameRest, Readable
<1>6. ASSUME ApplyListenerAdd \/ ApplyConnectionAdd \/ ApplyDone PROVE SameJobs /\ SameRest
  BY <1>6 DEF ApplyListenerAdd, ApplyConnectionAdd, ApplyDone, Handled, SameJobs, SameRest, Readable
<1>. QED
  BY <1>1, <1>2, <1>3, <1>4, <1>5, <1>6 DEF Hidden

\* Where the data of a connection waits is all that changes in them.
LEMMA HiddenData ==
  ASSUME BaseInv, TypeOK', Hidden, NEW c \in Conns
  PROVE  Waiting(c, pipe') \cup Waiting(c, pipeData') \cup Stored(c)' = Everything(c)
<1>0. pipe \in Seq(Messages) /\ pipeData \in Seq(Messages) /\ TypeOK
  BY QueueTypes DEF BaseInv
<1>1. ASSUME UNCHANGED clients PROVE Stored(c)' = Stored(c)
  BY <1>1 DEF Stored
<1>2. ASSUME UNCHANGED <<clients, pipe, pipeData>>
      PROVE  Waiting(c, pipe') \cup Waiting(c, pipeData') \cup Stored(c)' = Everything(c)
  BY <1>1, <1>2 DEF Everything
<1>3. ASSUME NEW f \in Fds, AcceptFails(f)
      PROVE  Waiting(c, pipe') \cup Waiting(c, pipeData') \cup Stored(c)' = Everything(c)
  <2>1. /\ f \in DOMAIN listeners /\ UNCHANGED <<clients, pipe>>
        /\ pipeData' = Append(pipeData, Removal(listeners[f]))
    BY <1>3 DEF AcceptFails
  <2>2. Removal(listeners[f]) \in Messages /\ Brought(c, Removal(listeners[f])) = {}
    BY <1>0, <2>1, MessageTypes DEF Brought, Removal, Message
  <2>. QED
    BY <1>0, <1>1, <2>1, <2>2, WaitingAppend DEF Everything
<1>4. ASSUME HandlePipe
      PROVE  Waiting(c, pipe') \cup Waiting(c, pipeData') \cup Stored(c)' = Everything(c)
  <2>1. pipeData' = pipe /\ pipe' = <<>> /\ UNCHANGED clients /\ pipeData = <<>>
    BY <1>4 DEF HandlePipe, BaseInv, DancerInv
  <2>. QED
    BY <1>1, <2>1, WaitingEmpty DEF Everything
<1>5. ASSUME NEW msg, msg # "ConnectionQueueData", Applying(msg), pipeData' = Tail(pipeData), UNCHANGED pipe
      PROVE  Waiting(c, pipe') \cup Waiting(c, pipeData') = Waiting(c, pipe) \cup Waiting(c, pipeData)
  <2>1. pipeData # <<>> /\ Brought(c, Head(pipeData)) = {}
    BY <1>5 DEF Applying, Brought
  <2>. QED
    BY <1>0, <1>5, <2>1, WaitingTail
<1>6. ASSUME ApplyListenerAdd
      PROVE  Waiting(c, pipe') \cup Waiting(c, pipeData') \cup Stored(c)' = Everything(c)
  <2>1. Applying("ListenerAdd") /\ pipeData' = Tail(pipeData) /\ UNCHANGED <<pipe, clients>>
    BY <1>6 DEF ApplyListenerAdd
  <2>2. Waiting(c, pipe') \cup Waiting(c, pipeData') = Waiting(c, pipe) \cup Waiting(c, pipeData)
    BY <1>5, <2>1
  <2>. QED
    BY <1>1, <2>1, <2>2 DEF Everything
<1>7. ASSUME ApplyConnectionAdd
      PROVE  Waiting(c, pipe') \cup Waiting(c, pipeData') \cup Stored(c)' = Everything(c)
  <2>1. Applying("ConnectionAdd") /\ pipeData' = Tail(pipeData) /\ UNCHANGED pipe
    BY <1>7 DEF ApplyConnectionAdd
  <2>2. Waiting(c, pipe') \cup Waiting(c, pipeData') = Waiting(c, pipe) \cup Waiting(c, pipeData)
    BY <1>5, <2>1
  <2>3. PICK h : h = Head(pipeData)
    OBVIOUS
  <2>4. /\ h.fd \notin DOMAIN clients /\ clients' = Set(clients, h.fd, Entry(h))
        /\ Entry(h).sendBufs = <<>>
    BY <1>7, <2>1, <2>3, ApplyingFacts DEF ApplyConnectionAdd, BaseInv, Queued, Entry
  <2>5. /\ DOMAIN clients' = DOMAIN clients \cup {h.fd} /\ clients'[h.fd] = Entry(h)
        /\ \A g \in DOMAIN clients : clients'[g] = clients[g]
    BY <2>4 DEF Set
  <2>6. Stored(c)' = Stored(c)
    BY <2>4, <2>5, StoredSame
  <2>. QED
    BY <2>2, <2>6 DEF Everything
<1>8. ASSUME NEW s \in Sockets, Socket(s) \/ SocketFails(s) \/ ReadIdentifier(s) \/ WriteIdentifier(s)
      PROVE  UNCHANGED <<clients, pipe, pipeData>>
  BY <1>8 DEF Socket, SocketFails, ReadIdentifier, WriteIdentifier
<1>9. ASSUME NEW s \in Accepted, CloseLimbo(s) \/ PushClient(s)
      PROVE  UNCHANGED <<clients, pipe, pipeData>>
  BY <1>9 DEF CloseLimbo, PushClient
<1>10. ASSUME NEW f \in Fds, SkipListener(f) \/ \E s \in Accepted : HandleListener(f, s)
       PROVE  UNCHANGED <<clients, pipe, pipeData>>
  BY <1>10 DEF SkipListener, HandleListener
<1>11. ASSUME Poll \/ PollFails \/ ApplyDone PROVE UNCHANGED <<clients, pipe, pipeData>>
  BY <1>11 DEF Poll, PollFails, ApplyDone
<1>. QED
  BY <1>2, <1>3, <1>4, <1>6, <1>7, <1>8, <1>9, <1>10, <1>11 DEF Hidden

LEMMA HiddenSteps ==
  ASSUME BaseInv, Hidden, TypeOK' PROVE UNCHANGED Connection!vars
<1>1. Plain
  BY DEF Hidden, Plain
<1>2. Steady
  BY <1>1, PlainKernel
<1>3. \A c \in Conns : SameConn(c)
  BY <1>2, ConnSame, HiddenData, HiddenStep
<1>. QED
  BY <1>3, HiddenRest, SameSteps

\* While descriptors and identifiers stay, only the data can move.
LEMMA StillSame ==
  ASSUME UNCHANGED <<open, fdOf, ident>>, NEW c \in Conns, step'[c] = step[c]
  PROVE  /\ StateOf(c)' = StateOf(c)
         /\ BufferOf(c)' = IF Live(c) THEN Waiting(c, pipe') \cup Waiting(c, pipeData') \cup Stored(c)'
                           ELSE {}
<1>1. Live(c)' <=> Live(c)
  BY DEF Live, Registered, IsOpen
<1>2. StateOf(c)' = StateOf(c)
  BY DEF StateOf, IsOpen
<1>. QED
  BY <1>1, <1>2, NextBufferIs, WaitingNext

LEMMA RestSame ==
  ASSUME UNCHANGED <<open, fdOf, ident>>, NEW c \in Conns, step'[c] = step[c],
         Live(c) => Waiting(c, pipe') \cup Waiting(c, pipeData') \cup Stored(c)' = Everything(c)
  PROVE  SameConn(c)
BY StillSame, BufferIs DEF SameConn, Everything

LEMMA ClosePipeSteps ==
  ASSUME BaseInv, ClosePipe PROVE Connection!Next
<1>1. /\ UNCHANGED <<open, fdOf, ident, step, pipe, pipeData, clients, jobs, wire, sends, finishing>>
      /\ ~ Readable'
  BY DEF ClosePipe, Readable
<1>2. \A c \in Conns : SameConn(c) /\ jobs'[c] = jobs[c]
  <2>1. \A c \in Conns : Stored(c)' = Stored(c)
    BY <1>1 DEF Stored
  <2>. QED
    BY <1>1, <2>1, RestSame DEF Everything
<1>3. Connection!Shutdown({})
  <2>1. {} \in SUBSET Conns
    OBVIOUS
  <2>. QED
    BY <1>1, <1>2, <2>1, ShutdownSteps
<1>. QED
  BY <1>3 DEF Connection!Next

LEMMA FinishUpSteps ==
  ASSUME BaseInv, FinishUp PROVE Connection!Next
<1>1. /\ UNCHANGED <<open, fdOf, ident, step, pipe, pipeData, clients, jobs, wire, sends>>
      /\ ~ Readable /\ ~ Readable' /\ ~ finishing /\ finishing' = TRUE
  BY DEF FinishUp, Readable
<1>2. \A c \in Conns : SameConn(c)
  <2>1. \A c \in Conns : Stored(c)' = Stored(c)
    BY <1>1 DEF Stored
  <2>. QED
    BY <1>1, <2>1, RestSame DEF Everything
<1>3. /\ [c \in Conns |-> StateOf(c)]' = [c \in Conns |-> StateOf(c)]
      /\ [c \in Conns |-> BufferOf(c)]' = [c \in Conns |-> BufferOf(c)]
      /\ [c \in Conns |-> jobs[c]]' = [c \in Conns |-> jobs[c]]
  BY <1>1, <1>2 DEF SameConn
<1>4. Readable' = Readable
  BY <1>1 DEF Readable
<1>5. Connection!Refuse
  BY <1>1, <1>3, <1>4 DEF Connection!Refuse
<1>. QED
  BY <1>5 DEF Connection!Next

LEMMA AddSteps ==
  ASSUME BaseInv, NEW s \in Sockets, Add(s)
  PROVE  Connection!Next \/ UNCHANGED Connection!vars
<1>. DEFINE m == Message(IF s \in Listeners THEN "ListenerAdd" ELSE "ConnectionAdd", s, ident[s], fdOf[s], 0)
<1>0. /\ pipe \in Seq(Messages) /\ m \in Messages /\ m.msg # "ConnectionQueueData"
      /\ TypeOK /\ step \in [Sockets -> {"new", "bound", "numbering", "numbered", "limbo",
                                         "open", "gone", "failed", "astray"}]
  BY MessageTypes DEF BaseInv, TypeOK, Message
<1>1. /\ UNCHANGED <<open, fdOf, ident, pipeData, clients, jobs, wire, sends, finishing>>
      /\ step[s] \in {"numbered", "limbo"} /\ (Readable' <=> Readable)
      /\ step'[s] = IF Readable THEN "open" ELSE "astray"
      /\ pipe' = IF Readable THEN Append(pipe, m) ELSE pipe
  BY <1>0 DEF Add, Write, Readable
<1>2. \A c \in Conns : c \in Sockets /\ (c # s => step'[c] = step[c])
  BY <1>0, ConstantFacts DEF Add
<1>3. \A c \in Conns : Stored(c)' = Stored(c)
  BY <1>1 DEF Stored
<1>4. ASSUME NEW c \in Conns PROVE Waiting(c, pipe') = Waiting(c, pipe)
  <2>1. Brought(c, m) = {}
    BY <1>0 DEF Brought
  <2>2. Waiting(c, Append(pipe, m)) = Waiting(c, pipe) \cup Brought(c, m)
    BY <1>0, WaitingAppend
  <2>. QED
    BY <1>1, <2>1, <2>2
<1>5. \A c \in Conns \ {s} : SameConn(c)
  BY <1>1, <1>2, <1>3, <1>4, RestSame DEF Everything
<1>6. SameJobs /\ SameRest
  BY <1>1 DEF SameJobs, SameRest
<1>7. CASE s \in Conns
  <2>1. ~ Live(s) /\ StateOf(s) = "new" /\ BufferOf(s) = {}
    BY <1>1, <1>7, BufferIs DEF StateOf, Live, Registered
  <2>2. CASE ~ Readable
    <3>1. ~ Live(s)' /\ StateOf(s)' = "new"
      BY <1>1, <2>2 DEF StateOf, Live, Registered
    <3>2. SameConn(s)
      BY <1>7, <2>1, <3>1, NextBufferIs DEF SameConn
    <3>. QED
      BY <1>5, <1>6, <3>2, SameSteps
  <2>3. CASE Readable
    <3>1. StateOf(s)' = "open"
      <4>1. fdOf[s] \in Fds /\ open[fdOf[s]] = s
        BY <1>1 DEF BaseInv, KernelInv
      <4>. QED
        BY <1>1, <2>3, <4>1 DEF StateOf, IsOpen
    <3>2. BufferOf(s)' = {}
      <4>1. ~ Registered(s)
        BY <1>1 DEF Registered
      <4>2. Waiting(s, pipe) = {} /\ Waiting(s, pipeData) = {}
        BY <4>1 DEF Waiting, BaseInv, QueueInv, Queued
      <4>3. Stored(s) = {}
        BY <4>1, EntryOpen DEF Stored
      <4>. QED
        BY <1>1, <1>3, <1>4, <1>7, <4>2, <4>3, NextBufferIs, WaitingNext
    <3>3. Connection!Open(s)
      BY <1>5, <1>6, <1>7, <2>1, <2>3, <3>1, <3>2, OpenSteps DEF SameConn
    <3>. QED
      BY <1>7, <3>3 DEF Connection!Next
  <2>. QED
    BY <2>2, <2>3
<1>8. CASE s \notin Conns
  BY <1>5, <1>6, <1>8, SameSteps
<1>. QED
  BY <1>7, <1>8

LEMMA KeptIsIdent ==
  ASSUME SmallIdentifiers, BaseInv, NumberInv, NEW s \in Sockets PROVE Kept(s) = ident[s]
<1>1. Numbered \subseteq Sockets /\ Cardinality(Numbered) \in Nat
      /\ Cardinality(Numbered) <= Cardinality(Sockets) /\ Cardinality(Sockets) \in Nat
  BY FS_Subset, FS_CardinalityType DEF SmallIdentifiers, FewSockets, Numbered
<1>2. /\ ident[s] \in Nat /\ ident[s] <= Cardinality(Sockets) /\ IntRange \in Nat
      /\ Cardinality(Sockets) < IntRange \div 2
  BY <1>1, ConstantFacts DEF BaseInv, TypeOK, NumberInv, SmallIdentifiers
<1>3. ident[s] < IntRange \div 2 /\ ident[s] < IntRange
  BY <1>1, <1>2
<1>4. ident[s] % IntRange = ident[s]
  BY <1>2, <1>3
<1>. QED
  BY <1>3, <1>4 DEF Kept

LEMMA SendIsStep ==
  ASSUME SmallIdentifiers, BaseInv, NumberInv, NEW c \in Conns, Send(c), TypeOK'
  PROVE  Connection!Next
<1>. DEFINE m == Message("ConnectionQueueData", c, Kept(c), 0, sends')
<1>0. /\ pipe \in Seq(Messages) /\ m \in Messages /\ TypeOK
      /\ m = [msg |-> "ConnectionQueueData", sock |-> c, id |-> ident[c], fd |-> 0, n |-> sends']
  <2>1. c \in Sockets /\ sends' \in 0 .. MaxSends /\ TypeOK
    BY ConstantFacts DEF TypeOK, BaseInv
  <2>. QED
    BY <2>1, MessageTypes, KeptIsIdent DEF TypeOK, Message
<1>1. /\ UNCHANGED <<open, fdOf, ident, step, pipeData, clients, jobs, wire, finishing>>
      /\ (Readable' <=> Readable) /\ step[c] = "open" /\ sends < MaxSends /\ sends' = sends + 1
      /\ pipe' = IF Readable THEN Append(pipe, m) ELSE pipe
  BY DEF Send, Write, Readable
<1>2. \A d \in Conns : Stored(d)' = Stored(d)
  BY <1>1 DEF Stored
<1>3. ASSUME NEW d \in Conns
      PROVE  Waiting(d, pipe') = IF d = c /\ Readable THEN Waiting(d, pipe) \cup {[sock |-> c, n |-> sends']}
                                 ELSE Waiting(d, pipe)
  <2>1. Brought(d, m) = IF d = c THEN {[sock |-> c, n |-> sends']} ELSE {}
    <3>1. m.msg = "ConnectionQueueData" /\ m.sock = c /\ m.id = ident[c] /\ m.n = sends'
      BY <1>0
    <3>. QED
      BY <3>1 DEF Brought
  <2>2. Waiting(d, Append(pipe, m)) = Waiting(d, pipe) \cup Brought(d, m)
    BY <1>0, WaitingAppend
  <2>. QED
    BY <1>1, <2>1, <2>2
<1>4. \A d \in Conns \ {c} : SameConn(d)
  BY <1>1, <1>2, <1>3, RestSame DEF Everything
<1>5. StateOf(c)' = StateOf(c) /\ StateOf(c) \in {"open", "lost"}
  BY <1>1, StillSame, BufferIs
<1>6. BufferOf(c)' = IF StateOf(c) \in {"open", "left"} /\ Readable
                     THEN BufferOf(c) \cup {[sock |-> c, n |-> sends']} ELSE BufferOf(c)
  BY <1>1, <1>2, <1>3, StillSame, BufferIs
<1>7. Connection!Send(c)
  BY <1>1, <1>4, <1>5, <1>6, SendSteps DEF SameConn, SameJobs
<1>. QED
  BY <1>7 DEF Connection!Next

LEMMA CloseSteps ==
  ASSUME BaseInv, NEW s \in Sockets, Close(s)
  PROVE  Connection!Next \/ UNCHANGED Connection!vars
<1>. DEFINE m == Message("SocketRemove", s, Kept(s), 0, 0)
<1>0. pipe \in Seq(Messages) /\ m \in Messages /\ m.msg = "SocketRemove" /\ TypeOK
  BY MessageTypes DEF BaseInv, TypeOK, Message
<1>1. /\ UNCHANGED <<open, fdOf, ident, pipeData, clients, jobs, wire, sends, finishing>>
      /\ (Readable' <=> Readable) /\ step[s] = "open" /\ step' = [step EXCEPT ![s] = "gone"]
      /\ pipe' = pipe \/ pipe' = Append(pipe, m)
  BY DEF Close, Write, Readable
<1>2. \A c \in Conns : Stored(c)' = Stored(c)
  BY <1>1 DEF Stored
<1>3. ASSUME NEW c \in Conns PROVE Waiting(c, pipe') = Waiting(c, pipe)
  <2>1. Brought(c, m) = {}
    BY <1>0 DEF Brought
  <2>2. Waiting(c, Append(pipe, m)) = Waiting(c, pipe) \cup Brought(c, m)
    BY <1>0, WaitingAppend
  <2>. QED
    BY <1>1, <2>1, <2>2
<1>4. \A c \in Conns \ {s} : SameConn(c)
  <2>1. \A c \in Conns \ {s} : step'[c] = step[c]
    BY <1>0, <1>1, ConstantFacts DEF TypeOK
  <2>. QED
    BY <1>1, <1>2, <1>3, <2>1, RestSame DEF Everything
<1>5. SameJobs /\ SameRest
  BY <1>1 DEF SameJobs, SameRest
<1>6. CASE s \in Conns
  <2>1. step'[s] = "gone" /\ (IsOpen(s)' <=> IsOpen(s))
    BY <1>0, <1>1 DEF IsOpen, TypeOK
  <2>2. /\ StateOf(s) = IF IsOpen(s) THEN "open" ELSE "lost"
        /\ StateOf(s)' = IF IsOpen(s) THEN "left" ELSE "closed"
        /\ Live(s) <=> IsOpen(s)
        /\ Live(s)' <=> IsOpen(s)
    BY <1>1, <2>1 DEF StateOf, Live, Registered
  <2>3. BufferOf(s)' = BufferOf(s)
    BY <1>1, <1>2, <1>3, <1>6, <2>2, BufferIs, NextBufferIs, WaitingNext
  <2>4. Connection!Leave(s)
    BY <1>4, <1>5, <1>6, <2>2, <2>3, LeaveSteps DEF SameConn
  <2>. QED
    BY <1>6, <2>4 DEF Connection!Next
<1>7. CASE s \notin Conns
  BY <1>4, <1>5, <1>7, SameSteps
<1>. QED
  BY <1>6, <1>7

LEMMA RangeOfAppend ==
  ASSUME NEW S, NEW q \in Seq(S), NEW e \in S PROVE Range(Append(q, e)) = Range(q) \cup {e}
<1>1. Len(q) + 1 \in DOMAIN Append(q, e) /\ Append(q, e)[Len(q) + 1] = e
  OBVIOUS
<1>. QED
  BY <1>1, AppendFacts DEF Range

\* The data at the front is for the entry of its socket, which is there while the
\* socket is open, or for none.
LEMMA EntryThere ==
  ASSUME BaseInv, FirstInv, Applying("ConnectionQueueData"), NEW h, h = Head(pipeData), Live(h.sock)
  PROVE  fdOf[h.sock] \in DOMAIN clients /\ clients[fdOf[h.sock]].sock = h.sock
<1>. USE DEF BaseInv
<1>1. /\ h = pipeData[1] /\ 1 \in DOMAIN pipeData /\ h.sock \in Sockets /\ h.sock \in Conns
      /\ h.msg = "ConnectionQueueData"
  BY ApplyingFacts DEF Queued
<1>2. PICK f \in Fds : f = fdOf[h.sock] /\ open[f] = h.sock
  BY DEF Live, IsOpen
<1>3. /\ Registered(open[f]) /\ open[f] # NoSocket /\ f # 0
  BY <1>1, <1>2, ConstantFacts DEF Live
<1>4. ASSUME NEW i \in DOMAIN pipe, pipe[i].fd = f PROVE FALSE
  <2>1. pipe[i].sock = h.sock
    BY <1>2, <1>3, <1>4 DEF QueueInv, Queued
  <2>. QED
    BY <1>1, <1>3, <1>4, <2>1 DEF FirstInv, Data
<1>5. ASSUME NEW i \in DOMAIN pipeData, pipeData[i].fd = f PROVE FALSE
  <2>1. pipeData[i].sock = h.sock
    BY <1>2, <1>3, <1>5 DEF QueueInv, Queued
  <2>2. i < 1
    BY <1>1, <1>3, <1>5, <2>1 DEF FirstInv, AddedFirst
  <2>3. i \in Nat /\ i # 0
    BY <1>5 DEF TypeOK
  <2>. QED
    BY <2>2, <2>3
<1>6. f \in DOMAIN listeners \cup DOMAIN clients
  BY <1>3, <1>4, <1>5 DEF PlaceInv
<1>7. f \notin DOMAIN listeners
  <2>1. ASSUME f \in DOMAIN listeners PROVE FALSE
    BY <1>1, <1>2, <2>1, EntryTypes, ConstantFacts DEF PlaceInv, Stands
  <2>. QED
    BY <2>1
<1>8. clients[f].sock = h.sock
  BY <1>2, <1>6, <1>7 DEF PlaceInv, Stands
<1>. QED
  BY <1>2, <1>6, <1>7, <1>8

LEMMA QueueDataSteps ==
  ASSUME FewSockets, BaseInv, NumberInv, OwnMessages, FirstInv, UniqueIds, ApplyQueueData,
         NEW h, h = Head(pipeData)
  PROVE  UNCHANGED Connection!vars
<1>. DEFINE cs == Matching(clients, h.id)
            b == [sock |-> h.sock, n |-> h.n]
            c == h.sock
<1>0. /\ TypeOK /\ pipeData \in Seq(Messages) /\ pipeData # <<>>
      /\ h \in Messages /\ h.msg = "ConnectionQueueData" /\ Queued(h) /\ OwnId(h)
      /\ c \in Conns /\ c \in Sockets /\ b \in Buffers
  <2>1. /\ TypeOK /\ QueueInv /\ Applying("ConnectionQueueData")
        /\ pipeData \in Seq(Messages) /\ pipeData # <<>>
    BY DEF BaseInv, TypeOK, ApplyQueueData, Applying
  <2>2. /\ h = pipeData[1] /\ h \in Messages /\ h.msg = "ConnectionQueueData" /\ Queued(h)
        /\ 1 \in DOMAIN pipeData /\ h.sock \in Sockets /\ h.n \in 0 .. MaxSends
    BY <2>1, ApplyingFacts
  <2>3. OwnId(h)
    BY <2>2 DEF OwnMessages
  <2>4. c \in Conns /\ h.n # 0
    BY <2>2 DEF Queued
  <2>5. b \in Buffers
    BY <2>2, <2>4, ConstantFacts DEF Buffers
  <2>. QED
    BY <2>1, <2>2, <2>3, <2>4, <2>5
<1>1. /\ UNCHANGED <<open, fdOf, ident, step, pipe, jobs, wire, sends, finishing>>
      /\ (Readable' <=> Readable) /\ pipeData' = Tail(pipeData)
      /\ clients' = IF cs = {} THEN clients ELSE [clients EXCEPT ![Min(cs)].sendBufs = Append(@, b)]
  BY DEF ApplyQueueData, Applying, Handled, Readable
<1>2. SameJobs /\ SameRest
  BY <1>1 DEF SameJobs, SameRest
<1>3. ASSUME NEW g \in cs PROVE g = fdOf[c] /\ g \in DOMAIN clients /\ Live(c) /\ h.id = ident[c]
  <2>1. g \in DOMAIN clients /\ clients[g].id = h.id
    BY <1>3 DEF Matching
  <2>2. /\ clients[g].sock \in Sockets /\ ident[clients[g].sock] = h.id
        /\ Registered(clients[g].sock) /\ IsOpen(clients[g].sock) /\ fdOf[clients[g].sock] = g
    BY <2>1, EntryOpen DEF BaseInv, PlaceInv, Stands
  <2>. HIDE DEF cs
  <2>3. clients[g].sock = c
    BY <1>0, <2>2, OwnMatch
  <2>. QED
    BY <2>1, <2>2, <2>3 DEF Live
<1>4. CASE Live(c) /\ h.id = ident[c]
  <2>1. PICK f : f = fdOf[c] /\ f \in DOMAIN clients /\ clients[f].sock = c
    BY <1>4, EntryThere DEF ApplyQueueData
  <2>2. clients[f].id = h.id
    BY <1>4, <2>1 DEF BaseInv, PlaceInv, Stands
  <2>3. cs = {f} /\ f \in Nat
    <3>1. f \in cs
      BY <2>1, <2>2 DEF Matching
    <3>2. f \in Fds
      BY <1>0, <2>1, EntryTypes
    <3>. QED
      BY <1>3, <2>1, <3>1, <3>2, ConstantFacts
  <2>4. Min(cs) = f
    BY <2>3, MinFacts
  <2>5. PICK q \in Seq(Buffers) : q = clients[f].sendBufs
    BY <1>0, <2>1, EntryTypes
  <2>. HIDE DEF cs
  <2>6. /\ DOMAIN clients' = DOMAIN clients
        /\ clients'[f].sendBufs = Append(q, b) /\ clients'[f].sock = c
        /\ \A g \in DOMAIN clients : g # f => clients'[g] = clients[g]
    <3>1. clients' = [clients EXCEPT ![f].sendBufs = Append(@, b)]
      BY <1>1, <2>3, <2>4
    <3>2. clients'[f] = [clients[f] EXCEPT !.sendBufs = Append(@, b)]
      BY <2>1, <3>1
    <3>3. clients[f] = [sock |-> clients[f].sock, id |-> clients[f].id, sendBufs |-> clients[f].sendBufs]
      BY <1>0, <2>1 DEF TypeOK, Entries
    <3>. QED
      BY <2>1, <2>5, <3>1, <3>2, <3>3
  <2>7. Stored(c) = Range(q) /\ Stored(c)' = Range(q) \cup {b}
    <3>1. \A g \in DOMAIN clients : clients[g].sock = c <=> g = f
      BY <1>0, <2>1, StoredIs
    <3>2. \A g \in DOMAIN clients' : clients'[g].sock = c <=> g = f
      BY <2>6, <3>1
    <3>3. Range(Append(q, b)) = Range(q) \cup {b}
      BY <1>0, <2>5, RangeOfAppend
    <3>4. Stored(c) = Range(clients[f].sendBufs)
      BY <2>1, <3>1 DEF Stored
    <3>5. Stored(c)' = Range(clients'[f].sendBufs)
      BY <2>1, <2>6, <3>2 DEF Stored
    <3>. QED
      BY <2>5, <2>6, <3>3, <3>4, <3>5
  <2>8. Waiting(c, pipeData) = {b} \cup Waiting(c, pipeData')
    <3>1. Brought(c, h) = {b}
      BY <1>0, <1>4 DEF Brought
    <3>2. Waiting(c, pipeData) = Brought(c, h) \cup Waiting(c, Tail(pipeData))
      BY <1>0, WaitingTail
    <3>. QED
      BY <1>1, <3>1, <3>2
  <2>9. SameConn(c)
    BY <1>0, <1>1, <2>7, <2>8, RestSame DEF Everything
  <2>10. ASSUME NEW d \in Conns, d # c PROVE SameConn(d)
    <3>1. Brought(d, h) = {}
      BY <2>10 DEF Brought
    <3>2. Waiting(d, pipeData) = Brought(d, h) \cup Waiting(d, Tail(pipeData))
      BY <1>0, WaitingTail
    <3>3. Stored(d)' = Stored(d)
      <4>1. \A g \in DOMAIN clients : clients[g].sock = d => g # f
        BY <2>1, <2>10
      <4>2. \A g \in DOMAIN clients' : clients'[g].sock = d => g # f
        BY <2>6, <2>10
      <4>. QED
        BY <2>6, <4>1, <4>2, StoredSame
    <3>. QED
      BY <1>1, <3>1, <3>2, <3>3, RestSame DEF Everything
  <2>. QED
    BY <1>2, <2>9, <2>10, SameSteps
<1>5. CASE ~ (Live(c) /\ h.id = ident[c])
  <2>1. cs = {}
    BY <1>3, <1>5
  <2>2. UNCHANGED clients
    BY <1>1, <2>1
  <2>. HIDE DEF cs
  <2>3. ASSUME NEW d \in Conns PROVE SameConn(d)
    <3>1. Stored(d)' = Stored(d)
      BY <2>2 DEF Stored
    <3>2. Waiting(d, pipeData) = Brought(d, h) \cup Waiting(d, Tail(pipeData))
      BY <1>0, WaitingTail
    <3>3. Live(d) => Brought(d, h) = {}
      BY <1>5 DEF Brought
    <3>. QED
      BY <1>1, <3>1, <3>2, <3>3, RestSame DEF Everything
  <2>. QED
    BY <1>2, <2>3, SameSteps
<1>. QED
  BY <1>4, <1>5

\* The first k buffers, and those that stay.
Halves(q, k, a, b) ==
  /\ a \in [1 .. k -> Range(q)] /\ Range(q) = Range(a) \cup Range(b)
  /\ Ordered(a) /\ \A x \in Range(a), y \in Range(b) : x.n < y.n

LEMMA OrderedSplit ==
  ASSUME NEW q \in Seq(Buffers), Ordered(q), NEW k \in 0 .. Len(q),
         NEW a, NEW b, a = SubSeq(q, 1, k), b = SubSeq(q, k + 1, Len(q))
  PROVE  Halves(q, k, a, b)
<1>1. /\ a \in Seq(Buffers) /\ Len(a) = k /\ \A i \in 1 .. k : a[i] = q[i]
      /\ b \in Seq(Buffers) /\ Len(b) = Len(q) - k /\ \A i \in 1 .. Len(q) - k : b[i] = q[k + i]
  <2>1. /\ SubSeq(q, 1, k) \in Seq(Buffers) /\ Len(SubSeq(q, 1, k)) = k
        /\ \A i \in 1 .. k : SubSeq(q, 1, k)[i] = q[i]
        /\ SubSeq(q, k + 1, Len(q)) \in Seq(Buffers) /\ Len(SubSeq(q, k + 1, Len(q))) = Len(q) - k
        /\ \A i \in 1 .. Len(q) - k : SubSeq(q, k + 1, Len(q))[i] = q[k + i]
    BY SplitFacts
  <2>. QED
    BY <2>1, Zenon
<1>2. /\ DOMAIN a = 1 .. k /\ DOMAIN b = 1 .. Len(q) - k /\ DOMAIN q = 1 .. Len(q)
      /\ Len(q) \in Nat /\ k \in Nat /\ k <= Len(q)
  BY <1>1
<1>3. a = [i \in 1 .. k |-> a[i]]
  BY <1>1
<1>4. /\ \A i \in DOMAIN a : i \in DOMAIN q /\ i <= k /\ i \in Nat /\ a[i] = q[i]
      /\ \A i \in DOMAIN b : k + i \in DOMAIN q /\ i \in Nat /\ i > 0 /\ b[i] = q[k + i]
      /\ \A i \in DOMAIN q : i \in DOMAIN a \/ (i - k \in DOMAIN b /\ b[i - k] = q[i])
  <2>1. \A i \in 1 .. k : i \in 1 .. Len(q) /\ i <= k /\ i \in Nat /\ a[i] = q[i]
    BY <1>1, <1>2
  <2>2. \A i \in 1 .. Len(q) - k : k + i \in 1 .. Len(q) /\ i \in Nat /\ i > 0 /\ b[i] = q[k + i]
    <3>1. ASSUME NEW i \in 1 .. Len(q) - k PROVE k + i \in 1 .. Len(q) /\ i \in Nat /\ i > 0
      BY <1>2, <3>1
    <3>. QED
      BY <1>1, <3>1
  <2>3. ASSUME NEW i \in 1 .. Len(q), i \notin 1 .. k
        PROVE  i - k \in 1 .. Len(q) - k /\ b[i - k] = q[i]
    <3>1. i - k \in 1 .. Len(q) - k /\ k + (i - k) = i
      BY <1>2, <2>3
    <3>. QED
      BY <1>1, <3>1
  <2>. QED
    BY <1>2, <2>1, <2>2, <2>3
<1>5. a \in [1 .. k -> Range(q)]
  BY <1>2, <1>3, <1>4 DEF Range
<1>6. Range(q) = Range(a) \cup Range(b)
  <2>1. \A i \in DOMAIN q : q[i] \in Range(a) \cup Range(b)
    BY <1>4 DEF Range
  <2>2. \A x \in Range(a) \cup Range(b) : \E i \in DOMAIN q : x = q[i]
    BY <1>4 DEF Range
  <2>. QED
    BY <2>1, <2>2 DEF Range
<1>7. Ordered(a)
  BY <1>4 DEF Ordered
<1>8. \A x \in Range(a), y \in Range(b) : x.n < y.n
  <2>1. \A i \in DOMAIN a, j \in DOMAIN b : i < k + j
    BY <1>2, <1>4
  <2>2. \A i \in DOMAIN a, j \in DOMAIN b : a[i].n < b[j].n
    BY <1>4, <2>1 DEF Ordered
  <2>. QED
    BY <2>2 DEF Range
<1>. QED
  BY <1>5, <1>6, <1>7, <1>8 DEF Halves

LEMMA WaitingNumbers ==
  ASSUME NEW c \in Conns, NEW q, NEW x \in Waiting(c, q)
  PROVE  \E i \in Data(q) : x.n = q[i].n
BY DEF Waiting, Data

\* The dancer's look at a connection sends the oldest of its data.
LEMMA HandleClientSteps ==
  ASSUME BaseInv, OrderInv, OwnBuffers, NEW f \in Fds, NEW in \in {"none", "data", "closed"},
         NEW k \in 0 .. MaxSends, NEW ok \in BOOLEAN, HandleClient(f, in, k, ok)
  PROVE  Connection!Next
<1>0. TypeOK
  BY DEF BaseInv
<1>1. PICK c \in Conns : c = clients[f].sock /\ f \in DOMAIN clients
  BY <1>0, EntryTypes DEF HandleClient
<1>2. PICK q \in Seq(Buffers) : q = clients[f].sendBufs
  BY <1>0, <1>1, EntryTypes
<1>3. /\ k \in 0 .. Len(q)
      /\ UNCHANGED <<open, fdOf, ident, step, pipe, sends, finishing>> /\ (Readable' <=> Readable)
  BY <1>2 DEF HandleClient, Readable
<1>4. PICK a : a = SubSeq(q, 1, k)
  OBVIOUS
<1>5. PICK b : b = SubSeq(q, k + 1, Len(q))
  OBVIOUS
<1>6. /\ Ordered(q) /\ Before(q, pipe) /\ Before(q, pipeData)
  BY <1>1, <1>2 DEF OrderInv
<1>7. /\ a \in [1 .. k -> Range(q)] /\ Range(q) = Range(a) \cup Range(b)
      /\ Ordered(a) /\ \A x \in Range(a), y \in Range(b) : x.n < y.n
  <2>1. Halves(q, k, a, b)
    BY <1>2, <1>3, <1>4, <1>5, <1>6, OrderedSplit
  <2>. QED
    BY <2>1 DEF Halves
<1>8. Live(c) /\ c \in Sockets
  BY <1>1, EntryOpen DEF Live
<1>9. /\ DOMAIN clients' = DOMAIN clients /\ clients'[f].sendBufs = b /\ clients'[f].sock = c
      /\ \A g \in DOMAIN clients : g # f => clients'[g] = clients[g] /\ clients[g].sock # c
  <2>1. /\ clients' = [clients EXCEPT ![f].sendBufs = SubSeq(@, k + 1, Len(q))]
        /\ clients[f] = [sock |-> clients[f].sock, id |-> clients[f].id, sendBufs |-> clients[f].sendBufs]
    BY <1>0, <1>1, <1>2 DEF HandleClient, TypeOK, Entries
  <2>2. \A g \in DOMAIN clients : g # f => clients[g].sock # c
    BY <1>1, EntryOpen
  <2>3. DOMAIN clients' = DOMAIN clients /\ \A g \in DOMAIN clients : g # f => clients'[g] = clients[g]
    BY <2>1
  <2>4. clients'[f] = [clients[f] EXCEPT !.sendBufs = b]
    BY <1>1, <1>2, <1>5, <2>1
  <2>. QED
    BY <1>1, <2>1, <2>2, <2>3, <2>4
<1>10. Stored(c) = Range(q) /\ Stored(c)' = Range(b)
  <2>1. \A g \in DOMAIN clients : clients[g].sock = c <=> g = f
    BY <1>1, <1>9
  <2>2. \A g \in DOMAIN clients' : clients'[g].sock = c <=> g = f
    BY <1>9, <2>1
  <2>3. Stored(c) = Range(clients[f].sendBufs)
    BY <1>1, <2>1 DEF Stored
  <2>4. Stored(c)' = Range(clients'[f].sendBufs)
    BY <1>1, <1>9, <2>2 DEF Stored
  <2>. QED
    BY <1>2, <1>9, <2>3, <2>4
<1>11. ASSUME NEW d \in Conns PROVE Waiting(d, pipeData') = Waiting(d, pipeData)
  <2>1. /\ Removal(clients[f]) \in Messages /\ Brought(d, Removal(clients[f])) = {}
    BY <1>0, <1>1, MessageTypes DEF Brought, Removal, Message
  <2>2. pipeData' = pipeData \/ pipeData' = Append(pipeData, Removal(clients[f]))
    BY DEF HandleClient
  <2>3. pipeData \in Seq(Messages)
    BY <1>0, QueueTypes
  <2>4. Waiting(d, Append(pipeData, Removal(clients[f])))
          = Waiting(d, pipeData) \cup Brought(d, Removal(clients[f]))
    BY <2>1, <2>3, WaitingAppend
  <2>. QED
    BY <2>1, <2>2, <2>4
<1>12. ASSUME NEW d \in Conns \ {c} PROVE SameConn(d)
  <2>1. Stored(d)' = Stored(d)
    <3>1. \A g \in DOMAIN clients : clients[g].sock = d => g # f
      BY <1>1, <1>12
    <3>2. \A g \in DOMAIN clients' : clients'[g].sock = d => g # f
      BY <1>9, <1>12
    <3>. QED
      BY <1>9, <3>1, <3>2, StoredSame
  <2>. QED
    BY <1>3, <1>11, <2>1, RestSame DEF Everything
<1>13. StateOf(c)' = StateOf(c) /\ StateOf(c) \in {"open", "left"}
  BY <1>3, <1>8, StillSame, BufferIs
<1>14. /\ BufferOf(c) = Waiting(c, pipe) \cup Waiting(c, pipeData) \cup Range(q)
       /\ BufferOf(c)' = Waiting(c, pipe) \cup Waiting(c, pipeData) \cup Range(b)
  BY <1>3, <1>8, <1>10, <1>11, StillSame, BufferIs
<1>15. \A x \in Range(a), y \in Waiting(c, pipe) \cup Waiting(c, pipeData) \cup Range(b) : x.n < y.n
  <2>1. ASSUME NEW x \in Range(a), NEW y \in Waiting(c, pipe) \cup Waiting(c, pipeData)
        PROVE  x.n < y.n
    <3>1. PICK i \in DOMAIN q : x = q[i]
      BY <1>7 DEF Range
    <3>2. \/ \E j \in Data(pipe) : y.n = pipe[j].n
          \/ \E j \in Data(pipeData) : y.n = pipeData[j].n
      BY <2>1, WaitingNumbers
    <3>. QED
      BY <1>6, <3>1, <3>2 DEF Before
  <2>. QED
    BY <1>7, <2>1
<1>16. BufferOf(c)' = BufferOf(c) \ Range(a)
  <2>1. \A x \in Range(a) : x.n \in Nat /\ ~ (x.n < x.n)
    <3>1. \A x \in Range(q) : x \in Buffers
      BY DEF Range
    <3>2. \A x \in Buffers : x.n \in Nat
      BY ConstantFacts DEF Buffers
    <3>. QED
      BY <1>7, <3>1, <3>2
  <2>2. \A x \in Range(a) : x \notin Waiting(c, pipe) \cup Waiting(c, pipeData) \cup Range(b)
    BY <1>15, <2>1
  <2>. QED
    BY <1>7, <1>14, <2>2
<1>17. a \in [1 .. k -> BufferOf(c)]
  <2>1. Range(q) \subseteq BufferOf(c)
    BY <1>14
  <2>. QED
    BY <1>7, <2>1
<1>18. Connection!Oldest(a, BufferOf(c))
  <2>1. \A i \in DOMAIN a : a[i] \in Range(a)
    BY DEF Range
  <2>2. \A i \in DOMAIN a, d \in BufferOf(c) \ Range(a) : a[i].n < d.n
    BY <1>7, <1>14, <1>15, <2>1
  <2>3. \A i, j \in DOMAIN a : i < j => a[i].n < a[j].n
    BY <1>7 DEF Ordered
  <2>4. Connection!Range(a) = Range(a)
    BY DEF Connection!Range, Range
  <2>. QED
    BY <2>2, <2>3, <2>4 DEF Connection!Oldest
<1>19. wire' = [wire EXCEPT ![c] = @ \o a]
  BY <1>1, <1>2, <1>4 DEF HandleClient
<1>20. /\ jobs \in [Sockets -> Seq(Jobs)]
       /\ jobs' = jobs \/ (~ finishing /\ jobs' = [jobs EXCEPT ![c] = @ \o <<"data">>])
  <2>1. jobs \in [Sockets -> Seq(Jobs)]
    BY <1>0 DEF TypeOK, Jobs
  <2>2. Push(c, IF in = "data" THEN <<"data">> ELSE <<>>)
    BY <1>1 DEF HandleClient
  <2>3. ASSUME in # "data" PROVE jobs' = jobs
    <3>1. jobs[c] \o <<>> = jobs[c]
      BY <1>8, <2>1
    <3>. QED
      BY <1>8, <2>1, <2>2, <2>3, <3>1 DEF Push
  <2>4. ASSUME in = "data"
        PROVE  jobs' = jobs \/ (~ finishing /\ jobs' = [jobs EXCEPT ![c] = @ \o <<"data">>])
    BY <2>2, <2>4 DEF Push
  <2>. QED
    BY <2>1, <2>3, <2>4
<1>21. Connection!Exchange(c)
  <2>1. \A d \in Conns : StateOf(d)' = StateOf(d)
    BY <1>12, <1>13 DEF SameConn
  <2>2. \A d \in Conns \ {c} : BufferOf(d)' = BufferOf(d)
    BY <1>12 DEF SameConn
  <2>. QED
    BY <1>3, <1>13, <1>16, <1>17, <1>18, <1>19, <1>20, <2>1, <2>2, ExchangeSteps
<1>. QED
  BY <1>21 DEF Connection!Next

\* What becomes of a connection when the dancer closes the descriptors of some entries.
LEMMA ClosedConn ==
  ASSUME BaseInv, NEW D, D \subseteq DOMAIN listeners \cup DOMAIN clients,
         \A f \in Fds : open'[f] = IF f \in D THEN NoSocket ELSE open[f],
         DOMAIN clients' = DOMAIN clients \ D,
         \A g \in DOMAIN clients' : clients'[g] = clients[g],
         UNCHANGED <<step, fdOf, ident, pipe>>,
         NEW c \in Conns, Waiting(c, pipeData') = Waiting(c, pipeData)
  PROVE  /\ (\A f \in D : open[f] # c) => SameConn(c)
         /\ \A f \in D : open[f] = c =>
              /\ StateOf(c) \in {"open", "left"} /\ BufferOf(c)' = {}
              /\ StateOf(c)' = IF StateOf(c) \in {"open", "lost"} THEN "lost" ELSE "closed"
<1>0. c \in Sockets /\ c # NoSocket /\ D \subseteq Fds
  BY ConstantFacts, EntryTypes DEF BaseInv, TypeOK
<1>1. ASSUME \A f \in D : open[f] # c PROVE SameConn(c)
  <2>1. IsOpen(c)' <=> IsOpen(c)
    BY <1>0, <1>1 DEF IsOpen
  <2>2. StateOf(c)' = StateOf(c) /\ (Live(c)' <=> Live(c))
    BY <2>1 DEF StateOf, Live, Registered
  <2>3. Stored(c)' = Stored(c)
    <3>1. \A f \in DOMAIN clients : clients[f].sock = c => f \in DOMAIN clients' /\ clients'[f] = clients[f]
      BY <1>1, EntryOpen
    <3>. QED
      BY <3>1, StoredSame
  <2>. QED
    BY <2>2, <2>3, BufferIs, NextBufferIs, WaitingNext DEF SameConn
<1>2. ASSUME NEW f \in D, open[f] = c
      PROVE  /\ StateOf(c) \in {"open", "left"} /\ BufferOf(c)' = {}
             /\ StateOf(c)' = IF StateOf(c) \in {"open", "lost"} THEN "lost" ELSE "closed"
  <2>1. Registered(c) /\ fdOf[c] = f /\ IsOpen(c) /\ ~ IsOpen(c)'
    <3>1. Registered(c)
      BY <1>2, EntryOpen
    <3>2. fdOf[c] = f /\ f \in Fds
      BY <1>0, <1>2 DEF BaseInv, KernelInv
    <3>3. open'[f] = NoSocket /\ fdOf'[c] = f
      BY <1>2, <3>2
    <3>. QED
      BY <1>0, <1>2, <3>1, <3>2, <3>3 DEF IsOpen
  <2>2. Live(c) /\ ~ Live(c)'
    BY <2>1 DEF Live
  <2>3. StateOf(c)' = IF StateOf(c) \in {"open", "lost"} THEN "lost" ELSE "closed"
    BY <2>1 DEF StateOf, Registered
  <2>. QED
    BY <2>2, <2>3, BufferIs, NextBufferIs
<1>. QED
  BY <1>1, <1>2

LEMMA RemoveSteps ==
  ASSUME BaseInv, ApplySocketRemove
  PROVE  Connection!Next \/ UNCHANGED Connection!vars
<1>0. PICK h : h = Head(pipeData)
  OBVIOUS
<1>1. /\ pipeData # <<>> /\ h.msg = "SocketRemove" /\ pipeData' = Tail(pipeData)
      /\ UNCHANGED <<ident, step, fdOf, pipe, writable, finishing, phase, sends, wire>>
      /\ \/ UNCHANGED <<open, listeners, clients, jobs>>
         \/ \E f \in Fds : Removed(f)
  BY <1>0, RemoveFacts
<1>2. TypeOK /\ pipeData \in Seq(Messages) /\ jobs \in [Sockets -> Seq(Jobs)]
  BY QueueTypes DEF BaseInv, TypeOK, Jobs
<1>3. ASSUME NEW c \in Conns PROVE Waiting(c, pipeData') = Waiting(c, pipeData)
  <2>1. Brought(c, h) = {}
    BY <1>1 DEF Brought
  <2>2. Waiting(c, pipeData) = Brought(c, h) \cup Waiting(c, Tail(pipeData))
    BY <1>0, <1>1, <1>2, WaitingTail
  <2>. QED
    BY <1>1, <2>1, <2>2
<1>4. SameRest
  BY <1>1 DEF SameRest, Readable
<1>5. CASE UNCHANGED <<open, listeners, clients, jobs>>
  <2>1. SameJobs
    BY <1>5 DEF SameJobs
  <2>2. \A c \in Conns : Stored(c)' = Stored(c)
    BY <1>5 DEF Stored
  <2>3. \A c \in Conns : SameConn(c)
    BY <1>1, <1>3, <1>5, <2>2, RestSame DEF Everything
  <2>. QED
    BY <1>4, <2>1, <2>3, SameSteps
<1>6. CASE \E f \in Fds : Removed(f)
  <2>1. PICK f \in Fds : Removed(f)
    BY <1>6
  <2>2. PICK s \in Sockets : s = open[f]
    BY <2>1 DEF Removed
  <2>3. /\ {f} \subseteq DOMAIN listeners \cup DOMAIN clients
        /\ \A g \in Fds : open'[g] = IF g \in {f} THEN NoSocket ELSE open[g]
        /\ DOMAIN clients' = DOMAIN clients \ {f}
        /\ \A g \in DOMAIN clients' : clients'[g] = clients[g]
        /\ Push(s, LastJobs(s))
    BY <1>2, <2>1, <2>2 DEF Removed, TypeOK
  <2>4. \A c \in Conns \ {s} : SameConn(c)
    BY <1>1, <1>3, <2>2, <2>3, ClosedConn
  <2>5. CASE s \in Conns
    <3>1. /\ StateOf(s) \in {"open", "left"} /\ BufferOf(s)' = {}
          /\ StateOf(s)' = IF StateOf(s) \in {"open", "lost"} THEN "lost" ELSE "closed"
      BY <1>1, <1>3, <2>2, <2>3, <2>5, ClosedConn
    <3>2. jobs' = IF finishing \/ s \in Silent THEN jobs
                  ELSE [jobs EXCEPT ![s] = @ \o <<"error", "cleanup">>]
      <4>1. CASE s \in Silent
        <5>1. jobs[s] \o <<>> = jobs[s]
          BY <1>2, <2>2
        <5>. QED
          BY <1>2, <2>3, <4>1, <5>1 DEF Push, LastJobs
      <4>2. CASE s \notin Silent
        BY <2>3, <4>2 DEF Push, LastJobs
      <4>. QED
        BY <4>1, <4>2
    <3>3. Connection!End(s)
      BY <1>2, <1>4, <2>4, <2>5, <3>1, <3>2, EndSteps
    <3>. QED
      BY <2>5, <3>3 DEF Connection!Next
  <2>6. CASE s \notin Conns
    <3>1. SameJobs
      <4>1. \A c \in Conns : c \in Sockets /\ c # s
        BY <2>6, ConstantFacts
      <4>. QED
        BY <1>2, <2>3, <4>1 DEF SameJobs, Push
    <3>. QED
      BY <1>4, <2>4, <2>6, <3>1, SameSteps
  <2>. QED
    BY <2>5, <2>6
<1>. QED
  BY <1>1, <1>5, <1>6

LEMMA FinalSteps ==
  ASSUME BaseInv, Final PROVE Connection!Next
<1>. DEFINE D == DOMAIN listeners \cup DOMAIN clients
<1>0. TypeOK /\ jobs \in [Sockets -> Seq(Jobs)]
  BY DEF BaseInv, TypeOK, Jobs
<1>1. /\ \A f \in Fds : open'[f] = IF f \in D THEN NoSocket ELSE open[f]
      /\ DOMAIN clients' = {} /\ D \subseteq Fds
      /\ UNCHANGED <<step, fdOf, ident, pipe, pipeData, wire, sends, finishing>>
      /\ ~ Readable'
  BY <1>0 DEF Final, Readable, TypeOK
<1>2. PICK ended : ended = {c \in Conns : \E f \in D : open[f] = c}
  OBVIOUS
<1>3. ASSUME NEW c \in Conns
      PROVE  /\ c \notin ended => SameConn(c)
             /\ c \in ended => /\ StateOf(c) \in {"open", "left"} /\ BufferOf(c)' = {}
                               /\ StateOf(c)' = IF StateOf(c) \in {"open", "lost"} THEN "lost" ELSE "closed"
  <2>1. /\ D \subseteq DOMAIN listeners \cup DOMAIN clients
        /\ DOMAIN clients' = DOMAIN clients \ D /\ \A g \in DOMAIN clients' : clients'[g] = clients[g]
        /\ Waiting(c, pipeData') = Waiting(c, pipeData)
    BY <1>1
  <2>2. /\ (\A f \in D : open[f] # c) => SameConn(c)
        /\ \A f \in D : open[f] = c =>
             /\ StateOf(c) \in {"open", "left"} /\ BufferOf(c)' = {}
             /\ StateOf(c)' = IF StateOf(c) \in {"open", "lost"} THEN "lost" ELSE "closed"
    <3>. HIDE DEF D
    <3>. QED
      BY <1>1, <2>1, ClosedConn
  <2>. QED
    BY <1>2, <2>2
<1>4. ASSUME NEW c \in Conns
      PROVE  jobs'[c] = IF c \in ended THEN jobs[c] \o <<"final">> ELSE jobs[c]
  <2>1. c \in Sockets
    BY ConstantFacts
  <2>2. c \in ended <=> c \in {listeners[f].sock : f \in DOMAIN listeners}
                                \cup {clients[f].sock : f \in DOMAIN clients}
    BY <1>2, EntryOpen
  <2>3. Append(jobs[c], "final") = jobs[c] \o <<"final">>
    BY <1>0, <2>1
  <2>. QED
    BY <2>1, <2>2, <2>3 DEF Final
<1>5. ended \in SUBSET Conns
  BY <1>2
<1>6. Connection!Shutdown(ended)
  <2>1. \A c \in ended : /\ StateOf(c) \in {"open", "left"} /\ BufferOf(c)' = {}
                         /\ StateOf(c)' = IF StateOf(c) \in {"open", "lost"} THEN "lost" ELSE "closed"
                         /\ jobs'[c] = jobs[c] \o <<"final">>
    BY <1>3, <1>4, <1>5
  <2>2. \A c \in Conns \ ended : SameConn(c) /\ jobs'[c] = jobs[c]
    BY <1>3, <1>4
  <2>. QED
    BY <1>1, <1>5, <2>1, <2>2, ShutdownSteps
<1>. QED
  BY <1>5, <1>6 DEF Connection!Next

LEMMA ConnectionsInit == ASSUME Init PROVE Connection!Init
<1>1. ASSUME NEW c \in Conns PROVE StateOf(c) = "new" /\ BufferOf(c) = {} /\ jobs[c] = <<>>
  <2>1. step[c] = "new" /\ jobs[c] = <<>>
    BY ConstantFacts DEF Init
  <2>2. StateOf(c) = "new"
    BY <2>1 DEF StateOf
  <2>. QED
    BY <2>1, <2>2 DEF BufferOf
<1>2. /\ [c \in Conns |-> StateOf(c)] = [c \in Conns |-> "new"]
      /\ [c \in Conns |-> BufferOf(c)] = [c \in Conns |-> {}]
      /\ [c \in Conns |-> jobs[c]] = [c \in Conns |-> <<>>]
  BY <1>1
<1>3. Readable = TRUE /\ finishing = FALSE /\ sends = 0 /\ wire = [c \in Conns |-> <<>>]
  BY DEF Init, Readable
<1>. QED
  BY <1>2, <1>3 DEF Connection!Init

\* Every step of the program and of the dancer is one of Connections, or none.
LEMMA ConnectionsNext ==
  ASSUME SmallIdentifiers, BaseInv, NumberInv, OwnMessages, OrderInv, FirstInv,
         UniqueIds, OwnBuffers, Next
  PROVE  Connection!Next \/ UNCHANGED Connection!vars
<1>0. FewSockets /\ TypeOK'
  BY TypedStep DEF SmallIdentifiers
<1>1. CASE Hidden
  BY <1>0, <1>1, HiddenSteps
<1>2. ASSUME NEW s \in Sockets, Add(s) PROVE Connection!Next \/ UNCHANGED Connection!vars
  BY <1>2, AddSteps
<1>3. ASSUME NEW s \in Sockets, Close(s) PROVE Connection!Next \/ UNCHANGED Connection!vars
  BY <1>3, CloseSteps
<1>4. ASSUME NEW c \in Conns, Send(c) PROVE Connection!Next
  BY <1>0, <1>4, SendIsStep
<1>5. ASSUME NEW f \in Fds, NEW in \in {"none", "data", "closed"}, NEW k \in 0 .. MaxSends,
             NEW ok \in BOOLEAN, HandleClient(f, in, k, ok)
      PROVE  Connection!Next
  BY <1>5, HandleClientSteps
<1>6. CASE ApplyQueueData
  <2>1. PICK h : h = Head(pipeData)
    OBVIOUS
  <2>. QED
    BY <1>0, <1>6, <2>1, QueueDataSteps
<1>7. CASE ApplySocketRemove
  BY <1>7, RemoveSteps
<1>8. CASE Final
  BY <1>8, FinalSteps
<1>9. CASE ClosePipe \/ FinishUp
  BY <1>9, ClosePipeSteps, FinishUpSteps
<1>10. CASE Program
  <2>1. Outgoing \cup Listeners \subseteq Sockets
    BY DEF Sockets, Conns
  <2>. QED
    BY <1>1, <1>2, <1>3, <1>4, <1>9, <1>10, <2>1 DEF Program, Hidden
<1>11. CASE Dancer
  BY <1>1, <1>5, <1>6, <1>7, <1>8, <1>11, ConstantFacts DEF Dancer, Hidden
<1>. QED
  BY <1>10, <1>11 DEF Next

\* While no two sockets have the same identifier, the dancer with its pipe, its maps and
\* its descriptors implements the channels of Connections: what a connected client was
\* given to send is kept till the connection ends, and leaves it oldest first.
THEOREM ConnectionsAreChannels ==
  ASSUME SmallIdentifiers PROVE Spec => ImplementsConnections
<1>. DEFINE Inv == /\ BaseInv /\ NumberInv /\ OwnMessages /\ (UniqueIds => OwnBuffers)
                   /\ OrderInv /\ FirstInv
<1>1. Spec => []Inv
  <2>1. FewSockets
    BY DEF SmallIdentifiers
  <2>2. Spec => [](BaseInv /\ NumberInv /\ OwnMessages /\ (UniqueIds => OwnBuffers))
    BY <2>1, OwnInvariant
  <2>. QED
    BY <2>2, OrderInvariant, FirstInvariant, PTL
<1>2. Inv /\ [Next]_vars => [UniqueIds => Connection!Next]_(Connection!vars)
  <2>. SUFFICES ASSUME Inv, [Next]_vars
       PROVE  (UniqueIds => Connection!Next) \/ UNCHANGED Connection!vars
    OBVIOUS
  <2>1. CASE UNCHANGED vars
    <3>1. UNCHANGED <<ident, step, fdOf, open, pipe, writable, finishing, clients, phase, pipeData,
                      jobs, sends, wire>>
      BY <2>1 DEF vars
    <3>2. \A c \in Conns : Stored(c)' = Stored(c)
      BY <3>1 DEF Stored
    <3>3. \A c \in Conns : SameConn(c)
      BY <3>1, <3>2, RestSame DEF Everything
    <3>. QED
      BY <3>1, <3>3, SameSteps DEF SameJobs, SameRest, Readable
  <2>2. CASE Next
    BY <2>2, ConnectionsNext
  <2>. QED
    BY <2>1, <2>2
<1>3. Init => Connection!Init
  BY ConnectionsInit
<1>. QED
  BY <1>1, <1>2, <1>3, PTL DEF Spec, ImplementsConnections

=============================================================================
