---------------------------- MODULE VCNetworking ----------------------------
(***************************************************************************)
(* VCNetworking (networking/VCNetworking.{hpp,cpp}): what the poll dancer  *)
(* calls poll, read, send and a pipe in a Windows build, made of Winsock   *)
(* events.  Every call is one step, since it owns the table of descriptors *)
(* (fdVec) throughout, but poll, which waits for events without it.        *)
(*                                                                         *)
(* Winsock is external: an event of a socket is recorded once, sets the    *)
(* socket's event object, and is not recorded again before the call that   *)
(* arms it (recv, accept, a send that would block); a close is recorded    *)
(* when all that was sent before it is read.  What a handler of the dancer *)
(* does with its result is modelled as far as the next calls depend on it. *)
(* Descriptors are named in the order the dancer polls them; the numbers   *)
(* of fdVec are never given out again (GetFD).                             *)
(***************************************************************************)
EXTENDS Integers, Sequences, FiniteSets, FiniteSetsExt

CONSTANTS
  MaxBacklog, \* how many connections wait to be accepted: a bound of the model
  MaxFd,      \* the last descriptor that GetFD hands out: a bound of the model
  MaxIn,      \* how much data waits in a socket: a bound of the model
  MaxBufs,    \* how many buffers wait to be sent: a bound of the model
  MaxPipe,    \* how many messages wait in the pipe: a bound of the model
  MaxHandles  \* MAXIMUM_WAIT_OBJECTS

Pipe == 0
TheListener == 1
Sockets == 2 .. MaxFd
Fds == 0 .. MaxFd

ASSUME VCNetworkingAssumption ==
  /\ MaxFd \in Nat \ {0} /\ {MaxBacklog, MaxIn, MaxBufs, MaxPipe, MaxHandles} \subseteq Nat

NetworkEvents == {"accept", "read", "write", "close"}
Ends == {"open", "closed", "reset"}
Messages == [msg : {"add", "remove", "data", "fail"}, fd : Fds \ {Pipe}]

VARIABLES
  pipe,      \* its messages, the event object its ends share, whether it can be written
  lastFD,    \* the next descriptor
  place,     \* who keeps a descriptor: the program, the pipe, the dancer's maps
  net,       \* each socket's event object, what is recorded and what is armed
  sendReady, \* what fdVec says of each socket
  sendBufs,  \* how many buffers the dancer has for each client
  waiting,   \* the kernel's data for each socket; connections, for the listener
  peer,      \* what the other end of each socket has done
  room,      \* whether the kernel takes more to send
  errno,     \* whether errno still says EWOULDBLOCK
  dancer     \* the dancer's round: its phase and its locals

socketVars == <<net, sendReady, sendBufs, waiting, peer, room>>
vars == <<pipe, lastFD, place, socketVars, errno, dancer>>

Unselected == [event |-> FALSE, record |-> {}, armed |-> {}]

TypeOK ==
  /\ pipe \in [data : Seq(Messages), event : {"reset", "set", "closed"}, writable : BOOLEAN]
  /\ lastFD \in 2 .. MaxFd + 1
  /\ place \in [Fds \ {Pipe} -> {"none", "held", "piped", "mapped", "closed"}]
  /\ net \in [Fds \ {Pipe} -> [event : BOOLEAN, record : SUBSET NetworkEvents,
                               armed : SUBSET NetworkEvents]]
  /\ sendReady \in [Sockets -> BOOLEAN] /\ sendBufs \in [Sockets -> 0 .. MaxBufs]
  /\ waiting \in [Fds \ {Pipe} -> Nat] /\ waiting[TheListener] <= MaxBacklog
  /\ \A s \in Sockets : waiting[s] <= MaxIn
  /\ peer \in [Sockets -> Ends] /\ room \in [Sockets -> BOOLEAN]
  /\ errno \in BOOLEAN
  /\ dancer \in [phase : {"build", "built", "asleep", "check", "round", "pipe", "recv", "ended"},
                 first : Fds, revents : [Fds -> SUBSET {"in", "out"}],
                 ready : Nat, messages : Seq(Messages), cleanup : BOOLEAN]

NewRound == [phase |-> "build", first |-> Pipe, revents |-> [f \in Fds |-> {}],
             ready |-> 0, messages |-> <<>>, cleanup |-> FALSE]

Init ==
  /\ pipe = [data |-> <<>>, event |-> "reset", writable |-> TRUE]
  /\ lastFD = 2
  /\ place = [f \in Fds \ {Pipe} |-> "none"]
  /\ net = [f \in Fds \ {Pipe} |-> Unselected]
  /\ sendReady = [s \in Sockets |-> FALSE] /\ sendBufs = [s \in Sockets |-> 0]
  /\ waiting = [f \in Fds \ {Pipe} |-> 0]
  /\ peer = [s \in Sockets |-> "open"] /\ room = [s \in Sockets |-> TRUE]
  /\ errno = FALSE
  /\ dancer = NewRound

-----------------------------------------------------------------------------
(* Winsock.                                                                *)

\* What is armed is recorded, once, and the event object set.
Recorded(n, events) ==
  LET new == n.armed \cap events
  IN  [event |-> n.event \/ new # {}, record |-> n.record \cup new, armed |-> n.armed \ new]

\* accept, recv, and a send that would block arm their event for what is left, or comes later.
Rearmed(n, event) == [n EXCEPT !.armed = @ \cup {event}]

\* WSAEnumNetworkEvents clears the record and resets the event object.
Enumerated(n) == [n EXCEPT !.record = {}, !.event = FALSE]

\* The events that hold of a socket with so much data and such a peer.
Holding(amount, other) ==
  (IF amount > 0 THEN {"read", "accept"} ELSE {})
    \cup (IF other = "reset" \/ (other = "closed" /\ amount = 0) THEN {"close"} ELSE {})

\* WSAEventSelect records at once what already holds.
Select(amount, other) ==
  Recorded([event |-> FALSE, record |-> {}, armed |-> {"read", "write", "close"}],
           Holding(amount, other) \cup {"write"})

PeerConnects ==
  /\ place[TheListener] = "mapped" /\ waiting[TheListener] < MaxBacklog
  /\ waiting' = [waiting EXCEPT ![TheListener] = @ + 1]
  /\ net' = [net EXCEPT ![TheListener] = Recorded(@, {"accept"})]
  /\ UNCHANGED <<pipe, lastFD, place, sendReady, sendBufs, peer, room, errno, dancer>>

\* A peer may give up before it is accepted.
PeerGivesUp ==
  /\ waiting[TheListener] > 0
  /\ waiting' = [waiting EXCEPT ![TheListener] = @ - 1]
  /\ UNCHANGED <<pipe, lastFD, place, net, sendReady, sendBufs, peer, room, errno, dancer>>

\* A peer sends, closes when it has sent everything, or resets the connection.
PeerActs(s, amount, other) ==
  /\ place[s] = "mapped" /\ peer[s] # "reset"
  /\ \/ peer[s] = "open" /\ amount = waiting[s] + 1 /\ amount <= MaxIn /\ other = "open"
     \/ peer[s] = "open" /\ amount = waiting[s] /\ other = "closed"
     \/ amount = 0 /\ other = "reset"
  /\ waiting' = [waiting EXCEPT ![s] = amount]
  /\ peer' = [peer EXCEPT ![s] = other]
  /\ net' = [net EXCEPT ![s] = Recorded(@, Holding(amount, other))]
  /\ UNCHANGED <<pipe, lastFD, place, sendReady, sendBufs, room, errno, dancer>>

PeerReads(s) ==
  /\ place[s] = "mapped" /\ ~ room[s]
  /\ room' = [room EXCEPT ![s] = TRUE]
  /\ net' = [net EXCEPT ![s] = Recorded(@, {"write"})]
  /\ UNCHANGED <<pipe, lastFD, place, sendReady, sendBufs, waiting, peer, errno, dancer>>

-----------------------------------------------------------------------------
(* The program: sockets it opens, and messages it pipes to the dancer.     *)

Under(msg, messages) == {i \in DOMAIN messages : messages[i].msg = msg}

\* write: the message is appended and the event set, unless the end is closed: then
\* there is no such descriptor, and the message is lost.
Write(msg, f) ==
  /\ pipe.writable /\ Len(pipe.data) < MaxPipe
  /\ pipe' = [pipe EXCEPT !.data = Append(@, [msg |-> msg, fd |-> f]),
                          !.event = IF @ = "closed" THEN @ ELSE "set"]

\* Networking::Listen: socket and bind.
Bind ==
  /\ place[TheListener] = "none"
  /\ place' = [place EXCEPT ![TheListener] = "held"]
  /\ UNCHANGED <<pipe, lastFD, socketVars, errno, dancer>>

\* An entry of fdVec with an event object, for a socket that may hold data, or an end,
\* by the time it is polled.
Opened(s, amount, other) ==
  /\ s = lastFD /\ s <= MaxFd /\ amount <= MaxIn /\ (other = "reset" => amount = 0)
  /\ lastFD' = s + 1
  /\ place' = [place EXCEPT ![s] = "held"]
  /\ peer' = [peer EXCEPT ![s] = other]
  /\ sendReady' = [sendReady EXCEPT ![s] = TRUE]

\* ConnectTCP, up to its message: socket and connect.  (A connection that does not open
\* leaves an entry that nobody uses again.)
Connect(s, amount, other) ==
  /\ Opened(s, amount, other)
  /\ waiting' = [waiting EXCEPT ![s] = amount]
  /\ net' = [net EXCEPT ![s] = Select(amount, other)]
  /\ UNCHANGED <<pipe, sendBufs, room, errno, dancer>>

\* The rest of Listen and ConnectTCP; Commence, for an accepted client.
Hand(f) ==
  /\ place[f] = "held"
  /\ Write("add", f)
  /\ place' = [place EXCEPT ![f] = "piped"]
  /\ UNCHANGED <<lastFD, socketVars, errno, dancer>>

\* SignalCloseSocket, and Send as long as there are not too many buffers.
Ask(msg, f) ==
  /\ place[f] \in {"piped", "mapped"}
  /\ msg = "data" => /\ f \in Sockets
                     /\ sendBufs[f] + Cardinality(Under("data", pipe.data))
                          + Cardinality(Under("data", dancer.messages)) < MaxBufs
  /\ Write(msg, f)
  /\ UNCHANGED <<lastFD, place, socketVars, errno, dancer>>

\* Cleanup closes the end it writes to, and with it the event object of both ends.
\* (A wait that the event has ended is over, though the dancer has not looked yet.)
ClosePipe ==
  /\ pipe.writable /\ ~ (dancer.phase = "asleep" /\ pipe.event = "set")
  /\ pipe' = [pipe EXCEPT !.event = "closed", !.writable = FALSE]
  /\ UNCHANGED <<lastFD, place, socketVars, errno, dancer>>

-----------------------------------------------------------------------------
(* The dancer: poll.                                                       *)

Mapped == {f \in Fds \ {Pipe} : place[f] = "mapped"}
Handles == {Pipe} \cup Mapped
Signalled == {f \in Handles : IF f = Pipe THEN pipe.event = "set" ELSE net[f].event}
ToSend == {s \in Sockets \cap Mapped : sendBufs[s] > 0}
ToHandle == {f \in Fds : dancer.revents[f] # {}}

\* The handles are collected, and who may send is known already.
PollCollect ==
  /\ dancer.phase = "build"
  /\ dancer' = [dancer EXCEPT !.phase = "built", !.revents =
                   [f \in Fds |-> IF f \in ToSend /\ sendReady[f] THEN {"out"} ELSE {}]]
  /\ UNCHANGED <<pipe, lastFD, place, socketVars, errno>>

\* WaitForMultipleObjects fails: too many handles, or one that is closed.  The dancer
\* is given -1, unless there is something to send.
WaitFailedUnseen == dancer' = [dancer EXCEPT !.phase = "round"]
WaitFailed == dancer' = [dancer EXCEPT !.phase = "round", !.cleanup = (ToHandle = {})]

Wakes == /\ Signalled # {}
         /\ dancer' = [dancer EXCEPT !.phase = "check", !.first = Min(Signalled)]

PollWait ==
  /\ dancer.phase = "built"
  /\ IF pipe.event = "closed" \/ Cardinality(Handles) > MaxHandles
       THEN WaitFailed
       ELSE \/ Wakes
            \/ /\ Signalled = {}
               /\ dancer' = [dancer EXCEPT !.phase = IF ToHandle = {} THEN "asleep" ELSE "round"]
  /\ UNCHANGED <<pipe, lastFD, place, socketVars, errno>>

PollWake ==
  /\ dancer.phase = "asleep" /\ Wakes
  /\ UNCHANGED <<pipe, lastFD, place, socketVars, errno>>

\* What happens when a handle is closed while it is waited for is undefined.
PollBroken ==
  /\ dancer.phase = "asleep" /\ pipe.event = "closed"
  /\ WaitFailed
  /\ UNCHANGED <<pipe, lastFD, place, socketVars, errno>>

\* FD_WRITE comes once; fdVec remembers it until a send would block.
RememberedOnlyForNow(output) == UNCHANGED sendReady
Remembered(output) == sendReady' = [s \in Sockets |-> sendReady[s] \/ s \in output]

\* Every handle from the first that ended the wait is looked at.  A wait for the closed
\* event of the pipe does not time out either.
PollCheck ==
  /\ dancer.phase = "check"
  /\ LET found == {f \in Handles : f >= dancer.first /\
                       (f \in Signalled \/ (f = Pipe /\ pipe.event = "closed"))}
         input(f) == f \in found /\
                       (f = Pipe \/ net[f].record \cap {"accept", "read", "close"} # {})
         output == {s \in Sockets \cap found : "write" \in net[s].record}
     IN  /\ net' = [f \in Fds \ {Pipe} |-> IF f \in found THEN Enumerated(net[f]) ELSE net[f]]
         /\ Remembered(output)
         /\ dancer' = [dancer EXCEPT !.phase = "round", !.revents =
              [f \in Fds |-> @[f] \cup (IF input(f) THEN {"in"} ELSE {})
                                 \cup (IF f \in output \cap ToSend THEN {"out"} ELSE {})]]
  /\ UNCHANGED <<pipe, lastFD, place, sendBufs, waiting, peer, room, errno>>

-----------------------------------------------------------------------------
(* The dancer: what it does with the descriptors poll gave it, in order.   *)

Handling(f, what) ==
  /\ dancer.phase = "round" /\ f \in ToHandle /\ f = Min(ToHandle)
  /\ what \in dancer.revents[f] /\ (what = "out" => "in" \notin dancer.revents[f])
Step(phase, f, seen, messages) ==
  [dancer EXCEPT !.phase = phase, !.revents[f] = @ \ seen, !.messages = @ \o messages]
Failed(f) == Step("round", f, {"in", "out"}, <<[msg |-> "fail", fd |-> f]>>)

\* HandlePipe: ioctl tells how much there is; nothing means that the pipe is closed.
PipeIoctl ==
  /\ Handling(Pipe, "in")
  /\ dancer' = IF pipe.data = <<>>
                 THEN [Step("round", Pipe, {"in"}, <<>>) EXCEPT !.cleanup = TRUE]
                 ELSE [dancer EXCEPT !.phase = "pipe", !.ready = Len(pipe.data)]
  /\ UNCHANGED <<pipe, lastFD, place, socketVars, errno>>

\* The event is reset when nothing is left of the pipe's data.
EventLeftSet(rest) == pipe.event
EventLeftAlways(rest) == IF pipe.event = "set" THEN "reset" ELSE pipe.event
EventLeft(rest) == IF pipe.event = "set" /\ rest = <<>> THEN "reset" ELSE pipe.event

PipeRead ==
  /\ dancer.phase = "pipe"
  /\ LET rest == SubSeq(pipe.data, dancer.ready + 1, Len(pipe.data))
     IN  pipe' = [pipe EXCEPT !.data = rest, !.event = EventLeft(rest)]
  /\ dancer' = [Step("round", Pipe, {"in"}, SubSeq(pipe.data, 1, dancer.ready))
                   EXCEPT !.ready = 0]
  /\ UNCHANGED <<lastFD, place, socketVars, errno>>

\* HandleListener: accept opens a descriptor, which the program is given with a client.
Accept(s, amount, other) ==
  /\ Handling(TheListener, "in") /\ waiting[TheListener] > 0
  /\ Opened(s, amount, other)
  /\ waiting' = [waiting EXCEPT ![s] = amount, ![TheListener] = @ - 1]
  /\ net' = [net EXCEPT ![s] = Select(amount, other),
                ![TheListener] = Recorded(Rearmed(@, "accept"),
                                          Holding(waiting[TheListener] - 1, "open"))]
  /\ dancer' = Step("round", TheListener, {"in"}, <<>>)
  /\ UNCHANGED <<pipe, sendBufs, room, errno>>

\* Nobody is there any more, or there is no descriptor for it: the listener is given up.
AcceptFails ==
  /\ Handling(TheListener, "in")
  /\ waiting[TheListener] = 0 \/ lastFD > MaxFd
  /\ dancer' = Failed(TheListener)
  /\ UNCHANGED <<pipe, lastFD, place, socketVars, errno>>

\* HandleClient: ioctl tells how much there is; nothing means that the connection is over.
ClientIoctl(s) ==
  /\ Handling(s, "in")
  /\ dancer' = IF waiting[s] = 0 THEN Failed(s)
                 ELSE [dancer EXCEPT !.phase = "recv", !.ready = waiting[s]]
  /\ UNCHANGED <<pipe, lastFD, place, socketVars, errno>>

ClientRecv(s) ==
  /\ dancer.phase = "recv" /\ s = Min(ToHandle)
  /\ LET left == IF peer[s] = "reset" THEN 0 ELSE waiting[s] - dancer.ready
     IN  /\ waiting' = [waiting EXCEPT ![s] = left]
         /\ net' = [net EXCEPT ![s] = Recorded(Rearmed(@, "read"), Holding(left, peer[s]))]
  /\ dancer' = [Step("round", s, {"in"}, <<>>) EXCEPT !.ready = 0]
  /\ UNCHANGED <<pipe, lastFD, place, sendReady, sendBufs, peer, room, errno>>

LastBuffer(s) == sendBufs[s] = 1

\* send, when the kernel takes the buffer, after which it may have room for no more.
ClientSend(s, more) ==
  /\ Handling(s, "out") /\ sendReady[s] /\ peer[s] # "reset" /\ room[s]
  /\ sendBufs' = [sendBufs EXCEPT ![s] = @ - 1]
  /\ room' = [room EXCEPT ![s] = more]
  /\ dancer' = Step("round", s, IF LastBuffer(s) THEN {"out"} ELSE {}, <<>>)
  /\ UNCHANGED <<pipe, lastFD, place, net, sendReady, waiting, peer, errno>>

\* send, when it would block: fdVec remembers, and Winsock records when it would not.
ClientSendBlocks(s) ==
  /\ Handling(s, "out") /\ sendReady[s] /\ peer[s] # "reset" /\ ~ room[s]
  /\ sendReady' = [sendReady EXCEPT ![s] = FALSE]
  /\ errno' = TRUE
  /\ net' = [net EXCEPT ![s] = Rearmed(@, "write")]
  /\ dancer' = Step("round", s, {"out"}, <<>>)
  /\ UNCHANGED <<pipe, lastFD, place, sendBufs, waiting, peer, room>>

\* send, when it is not ready or the connection is over.  It does not set errno, so what
\* an earlier send left there decides whether the connection is kept.
ClientSendFails(s) ==
  /\ Handling(s, "out") /\ (~ sendReady[s] \/ peer[s] = "reset")
  /\ dancer' = IF errno THEN Step("round", s, {"out"}, <<>>) ELSE Failed(s)
  /\ UNCHANGED <<pipe, lastFD, place, socketVars, errno>>

-----------------------------------------------------------------------------
(* The dancer: its messages, and its end.                                  *)

\* close, and what the dancer keeps of the socket, buffers included.
Closed(gone) ==
  /\ place' = [f \in DOMAIN place |-> IF f \in gone THEN "closed" ELSE place[f]]
  /\ net' = [f \in DOMAIN net |-> IF f \in gone THEN Unselected ELSE net[f]]
  /\ waiting' = [f \in DOMAIN waiting |-> IF f \in gone THEN 0 ELSE waiting[f]]
  /\ sendBufs' = [s \in Sockets |-> IF s \in gone THEN 0 ELSE sendBufs[s]]
  /\ UNCHANGED <<sendReady, peer, room>>

\* A listener listens, and selects its event, when the dancer adds it.
Added(f) ==
  /\ place' = [place EXCEPT ![f] = "mapped"]
  /\ net' = IF f = TheListener
              THEN [net EXCEPT ![f] = [Unselected EXCEPT !.armed = {"accept", "close"}]] ELSE net
  /\ UNCHANGED <<sendReady, sendBufs, waiting, peer, room>>

HandleMessage ==
  /\ dancer.phase = "round" /\ ToHandle = {} /\ dancer.messages # <<>>
  /\ LET m == Head(dancer.messages)
     IN  \/ m.msg = "add" /\ Added(m.fd)
         \/ m.msg \in {"remove", "fail"} /\ Closed({m.fd} \cap Mapped)
         \/ /\ m.msg = "data"
            /\ sendBufs' = IF m.fd \in Mapped THEN [sendBufs EXCEPT ![m.fd] = @ + 1] ELSE sendBufs
            /\ UNCHANGED <<place, net, sendReady, waiting, peer, room>>
  /\ dancer' = [dancer EXCEPT !.messages = Tail(@)]
  /\ UNCHANGED <<pipe, lastFD, errno>>

RoundOver == dancer.phase = "round" /\ ToHandle = {} /\ dancer.messages = <<>>

NextRound ==
  /\ RoundOver /\ ~ dancer.cleanup
  /\ dancer' = NewRound
  /\ UNCHANGED <<pipe, lastFD, place, socketVars, errno>>

\* The dancer closes its end of the pipe, and all that is in its maps.
DancerEnds ==
  /\ RoundOver /\ dancer.cleanup
  /\ dancer' = [NewRound EXCEPT !.phase = "ended", !.cleanup = TRUE]
  /\ pipe' = [pipe EXCEPT !.event = "closed"]
  /\ Closed(Mapped)
  /\ UNCHANGED <<lastFD, errno>>

Dancer ==
  \/ PollCollect \/ PollWait \/ PollWake \/ PollCheck
  \/ PipeIoctl \/ PipeRead
  \/ \E s \in Sockets, amount \in 0 .. MaxIn, other \in Ends : Accept(s, amount, other)
  \/ AcceptFails
  \/ \E s \in Sockets : \/ ClientIoctl(s) \/ ClientRecv(s)
                       \/ \E more \in BOOLEAN : ClientSend(s, more)
                       \/ ClientSendBlocks(s) \/ ClientSendFails(s)
  \/ HandleMessage \/ NextRound \/ DancerEnds

Others ==
  \/ PeerConnects \/ PeerGivesUp
  \/ \E s \in Sockets : PeerReads(s)
  \/ \E s \in Sockets, amount \in 0 .. MaxIn, other \in Ends :
       PeerActs(s, amount, other) \/ Connect(s, amount, other)
  \/ Bind
  \/ \E f \in Fds \ {Pipe} : Hand(f) \/ \E msg \in {"remove", "data"} : Ask(msg, f)
  \/ ClosePipe

Next == Dancer \/ Others \/ PollBroken

Spec == Init /\ [][Next]_vars

\* Nothing keeps the dancer's thread from running.
FairSpec == Spec /\ WF_vars(Dancer)

-----------------------------------------------------------------------------
(* Properties.                                                             *)

Ended == dancer.phase = "ended"

\* Input without data is taken for an end: of the program, if it is the pipe's
\* (networking.cpp:270), of the connection, if it is a client's (337).  It always is one:
\* an event is never left set over no data, nor seen twice for the same data.  Otherwise
\* the dancer ends when it has more handles than a wait takes.
EndsAreReal ==
  /\ dancer.cleanup /\ ~ Ended => ~ pipe.writable \/ Cardinality(Handles) > MaxHandles
  /\ \A i \in DOMAIN dancer.messages : LET m == dancer.messages[i]
       IN  m.msg = "fail" /\ m.fd \in Sockets => peer[m.fd] # "open"

\* The dancer sleeps only when there is nothing for it to do: no message in the pipe,
\* no data or end of a connection it polls for, nothing to send that the kernel would take.
SleepsOnlyWhenIdle ==
  dancer.phase = "asleep" /\ Signalled = {} /\ pipe.writable =>
    /\ pipe.data = <<>>
    /\ \A s \in Sockets \cap Mapped : waiting[s] = 0 /\ peer[s] = "open"
    /\ \A s \in ToSend : ~ room[s]

\* While the pipe is open, and the handles are not too many for a wait ...
Waits == pipe.writable /\ Cardinality(Handles) <= MaxHandles

\* ... messages are handled, what a client has to send goes to the kernel when that has
\* room for it, and a connection that is over is closed: no event is lost between two polls.
ClientsAreServed ==
  \A s \in Sockets :
    /\ (place[s] = "piped") ~> (place[s] # "piped" \/ ~ Waits)
    /\ (s \in ToSend /\ room[s]) ~> (Handling(s, "out") \/ place[s] # "mapped" \/ ~ Waits)
    /\ (place[s] = "mapped" /\ peer[s] # "open") ~> (place[s] # "mapped" \/ ~ Waits)

\* "Close the pipe.  This will be interpreted as a close signal" (networking.cpp:501): the
\* dancer ends, if it is not asleep, where nothing may wake it, and if no send has left in
\* errno what makes it try a connection that was reset for ever.
CloseIsASignal == ~ pipe.writable ~> (Ended \/ dancer.phase = "asleep" \/ errno)
=============================================================================
