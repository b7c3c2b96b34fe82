--------------------------- MODULE VCNetworkingProofs ---------------------------
(***************************************************************************)
(* The emulation of poll and of pipes for Windows (VCNetworking.{hpp,cpp}) *)
(* for any number of descriptors, messages, buffers and handles: where an  *)
(* event is at any time, and that poll neither loses one nor reports one   *)
(* that is over.                                                           *)
(*                                                                         *)
(* The invariant, IInv, follows each event of a socket: it is armed, or    *)
(* recorded, or in the dancer's hands, and it is armed only while it does  *)
(* not hold (SocketOK); and the pipe's, which is set while there is data   *)
(* (PipeInv).  A socket that poll has looked at keeps its data until the   *)
(* dancer reads it, since nobody else does (RoundInv).  What the dancer is *)
(* sent of a socket is sent after the socket was handed over, and it is    *)
(* handed over once (MessageInv).                                          *)
(***************************************************************************)
EXTENDS VCNetworking, FiniteSetTheorems, SequenceTheorems, WellFoundedInduction, TLAPS

USE DEF socketVars

-----------------------------------------------------------------------------
(* Descriptors.                                                            *)

LEMMA FdFacts ==
  /\ Pipe \in Fds /\ TheListener \in Fds \ {Pipe} /\ TheListener \notin Sockets
  /\ Sockets \subseteq Fds \ {Pipe} /\ Fds \subseteq Nat /\ \A f \in Fds : Pipe <= f
  /\ \A f \in Fds \ {Pipe} : f = TheListener \/ f \in Sockets
  /\ MaxFd \in Nat \ {0} /\ MaxBacklog \in Nat /\ MaxIn \in Nat /\ MaxBufs \in Nat
  /\ IsFiniteSet(Fds)
<1>1. IsFiniteSet(0 .. MaxFd)
  BY VCNetworkingAssumption, FS_Interval
<1>. QED
  BY <1>1, VCNetworkingAssumption DEF Fds, Pipe, TheListener, Sockets

\* The dancer takes the descriptors in order.
LEMMA MinFacts ==
  ASSUME NEW S \in SUBSET Nat, S # {}
  PROVE  Min(S) \in S /\ \A x \in S : Min(S) <= x
<1>. DEFINE T == {0 .. y : y \in S}
<1>1. T \subseteq FiniteSubsetsOf(Nat) /\ T # {}
  <2>1. \A y \in S : y \in Int /\ 0 .. y \subseteq Nat
    OBVIOUS
  <2>2. \A y \in S : IsFiniteSet(0 .. y)
    BY <2>1, FS_Interval
  <2>. QED
    BY <2>1, <2>2 DEF FiniteSubsetsOf
<1>2. PICK x \in T : \A z \in T : <<z, x>> \notin StrictSubsetOrdering(Nat)
  BY <1>1, FS_StrictSubsetOrderingWellFounded, WFMin
<1>3. PICK m \in S : x = 0 .. m
  BY DEF T
<1>4. ASSUME NEW y \in S PROVE m <= y
  <2>. SUFFICES ASSUME y < m PROVE FALSE
    OBVIOUS
  <2>1. 0 .. y \subseteq 0 .. m /\ m \in 0 .. m /\ m \notin 0 .. y /\ 0 .. m \subseteq Nat
    OBVIOUS
  <2>2. <<0 .. y, 0 .. m>> \in StrictSubsetOrdering(Nat)
    BY <2>1 DEF StrictSubsetOrdering
  <2>. QED
    BY <1>2, <1>3, <2>2
<1>. QED
  BY <1>4 DEF Min

-----------------------------------------------------------------------------
(* The inductive invariant.                                                *)

\* The messages about f that a queue holds.
OfData(f, messages) == {i \in DOMAIN messages : messages[i].msg = "data" /\ messages[i].fd = f}

Failing(f) == \E i \in DOMAIN dancer.messages : dancer.messages[i] = [msg |-> "fail", fd |-> f]

(* The event object of the pipe is set while there is data, until an end   *)
(* is closed.                                                              *)
PipeInv ==
  /\ pipe.event = "closed" <=> ~ pipe.writable \/ dancer.phase = "ended"
  /\ pipe.event # "closed" => (pipe.event = "set" <=> pipe.data # <<>>)
  /\ "in" \in dancer.revents[Pipe] => pipe.data # <<>> \/ ~ pipe.writable
  /\ dancer.phase = "pipe" => "in" \in dancer.revents[Pipe] /\ dancer.ready \in 1 .. Len(pipe.data)
  /\ dancer.cleanup /\ dancer.phase # "ended" =>
       \/ ~ pipe.writable
       \/ Cardinality(Handles) > MaxHandles /\ dancer.messages = <<>> /\ ToHandle = {}
          /\ dancer.phase = "round"

(* A queue names descriptors that were handed over; to add one, once.      *)
Queued(m) ==
  /\ m.msg = "add" => place[m.fd] = "piped"
  /\ m.msg = "data" => m.fd \in Sockets
  /\ m.msg \in {"remove", "data"} => place[m.fd] # "none"
  /\ m.msg = "fail" => place[m.fd] \in {"mapped", "closed"}
                       /\ (m.fd \in Sockets => peer[m.fd] # "open")

AddedOnce(messages) ==
  \A i, j \in DOMAIN messages :
    messages[i].msg = "add" /\ messages[j].msg = "add" /\ messages[i].fd = messages[j].fd => i = j

MessageInv ==
  /\ \A i \in DOMAIN pipe.data : Queued(pipe.data[i]) /\ pipe.data[i].msg # "fail"
  /\ \A i \in DOMAIN dancer.messages : Queued(dancer.messages[i])
  /\ AddedOnce(pipe.data) /\ AddedOnce(dancer.messages)
  /\ \A i \in DOMAIN pipe.data, j \in DOMAIN dancer.messages :
       pipe.data[i].msg = "add" /\ dancer.messages[j].msg = "add" =>
         pipe.data[i].fd # dancer.messages[j].fd
  /\ \A s \in Sockets : sendBufs[s] + Cardinality(OfData(s, pipe.data))
                          + Cardinality(OfData(s, dancer.messages)) <= MaxBufs

(* The dancer's round: what poll gave is about what is mapped, and input   *)
(* is known only after the wait.                                           *)
RoundInv ==
  /\ \A f \in Fds \ {Pipe} : dancer.revents[f] # {} => place[f] = "mapped"
  /\ \A s \in Sockets : s >= lastFD => place[s] = "none"
  /\ dancer.phase \in {"build", "built", "asleep", "check"} =>
       dancer.messages = <<>> /\ ~ dancer.cleanup /\ \A f \in Fds : "in" \notin dancer.revents[f]
  /\ dancer.phase \in {"build", "asleep", "ended"} => ToHandle = {}
  /\ dancer.phase \in {"built", "asleep"} =>
       \A s \in ToSend : sendReady[s] => "out" \in dancer.revents[s]
  /\ \A f \in Fds : "out" \in dancer.revents[f] => f \in ToSend /\ sendReady[f]
  /\ dancer.phase = "recv" => \A s \in Sockets : s = Min(ToHandle) =>
       /\ "in" \in dancer.revents[s]
       /\ peer[s] = "reset" \/ dancer.ready <= waiting[s]
       /\ "read" \notin net[s].armed \cup net[s].record
       /\ "close" \in net[s].armed \cup net[s].record

(* Every event of a socket is armed, recorded, or in the dancer's hands;   *)
(* none is armed that holds already.                                       *)
SocketOK(s) ==
  LET n == net[s]
      pending == n.armed \cup n.record
  IN  /\ n.event <=> n.record # {}
      /\ n.armed \cap n.record \subseteq {"write"} /\ pending \subseteq {"read", "write", "close"}
      /\ "read" \in n.armed => waiting[s] = 0
      /\ "read" \in n.record => waiting[s] > 0 \/ peer[s] # "open"
      /\ "close" \in n.armed <=> peer[s] = "open" \/ (peer[s] = "closed" /\ waiting[s] > 0)
      /\ peer[s] = "reset" => waiting[s] = 0
      /\ "read" \in pending \/ "in" \in dancer.revents[s] \/ Failing(s)
      /\ "close" \in pending \/ "in" \in dancer.revents[s] \/ Failing(s)
      /\ "in" \in dancer.revents[s] =>
           /\ "read" \notin pending \/ "close" \notin pending
           /\ waiting[s] > 0 \/ peer[s] # "open"
      /\ ~ sendReady[s] => "write" \in n.record \/ ("write" \in n.armed /\ ~ room[s])

SocketInv == \A s \in Sockets : place[s] \in {"held", "piped", "mapped"} => SocketOK(s)

IInv == TypeOK /\ PipeInv /\ MessageInv /\ RoundInv /\ SocketInv
-----------------------------------------------------------------------------
(* Queues of messages.                                                     *)

LEMMA CountType ==
  ASSUME NEW f, NEW q \in Seq(Messages)
  PROVE  IsFiniteSet(OfData(f, q)) /\ Cardinality(OfData(f, q)) \in Nat
<1>1. IsFiniteSet(1 .. Len(q)) /\ OfData(f, q) \subseteq 1 .. Len(q)
  BY FS_Interval DEF OfData
<1>. QED
  BY <1>1, FS_Subset, FS_CardinalityType

LEMMA CountOfNone ==
  ASSUME NEW f PROVE Cardinality(OfData(f, <<>>)) = 0
<1>1. OfData(f, <<>>) = {}
  BY DEF OfData
<1>. QED
  BY <1>1, FS_EmptySet

LEMMA CountOfOne ==
  ASSUME NEW f, NEW m \in Messages
  PROVE  Cardinality(OfData(f, <<m>>)) = IF m.msg = "data" /\ m.fd = f THEN 1 ELSE 0
<1>1. OfData(f, <<m>>) = IF m.msg = "data" /\ m.fd = f THEN {1} ELSE {}
  BY DEF OfData
<1>. QED
  BY <1>1, FS_EmptySet, FS_Singleton

LEMMA CountOfConcat ==
  ASSUME NEW f, NEW q \in Seq(Messages), NEW r \in Seq(Messages)
  PROVE  Cardinality(OfData(f, q \o r)) = Cardinality(OfData(f, q)) + Cardinality(OfData(f, r))
<1>. DEFINE A == OfData(f, q)
            B == OfData(f, r)
            C == OfData(f, q \o r) \ A
<1>1. /\ q \o r \in Seq(Messages) /\ Len(q \o r) = Len(q) + Len(r)
      /\ \A i \in 1 .. Len(q) + Len(r) : (q \o r)[i] = IF i <= Len(q) THEN q[i] ELSE r[i - Len(q)]
  BY ConcatProperties
<1>2. Len(q) \in Nat /\ Len(r) \in Nat /\ DOMAIN q = 1 .. Len(q) /\ DOMAIN r = 1 .. Len(r)
      /\ DOMAIN (q \o r) = 1 .. Len(q) + Len(r)
  BY <1>1, LenProperties
<1>3. ASSUME NEW i \in 1 .. Len(q) + Len(r)
      PROVE  /\ i <= Len(q) => (i \in OfData(f, q \o r) <=> i \in A)
             /\ i > Len(q) => (i \in OfData(f, q \o r) <=> i - Len(q) \in B) /\ i \notin A
  BY <1>1, <1>2 DEF OfData
<1>4. A \subseteq OfData(f, q \o r)
  BY <1>2, <1>3 DEF OfData
<1>5. C = {i \in Len(q) + 1 .. Len(q) + Len(r) : i - Len(q) \in B} /\ B \subseteq 1 .. Len(r)
  BY <1>2, <1>3 DEF OfData
<1>. HIDE DEF A, B, C
<1>6. ExistsBijection(B, C)
  <2>. DEFINE g == [j \in B |-> j + Len(q)]
  <2>1. g \in [B -> C]
    BY <1>2, <1>5
  <2>2. \A j, k \in B : g[j] = g[k] => j = k
    BY <1>2, <1>5
  <2>3. \A i \in C : \E j \in B : g[j] = i
    <3>. SUFFICES ASSUME NEW i \in C PROVE i - Len(q) \in B /\ g[i - Len(q)] = i
      OBVIOUS
    <3>. QED
      BY <1>2, <1>5
  <2>. HIDE DEF g
  <2>. QED
    BY <2>1, <2>2, <2>3 DEF ExistsBijection, Bijection, Injection, Surjection, IsInjective
<1>7. IsFiniteSet(A) /\ IsFiniteSet(B) /\ IsFiniteSet(OfData(f, q \o r))
      /\ Cardinality(A) \in Nat /\ Cardinality(B) \in Nat
  BY <1>1, CountType DEF A, B
<1>8. IsFiniteSet(C) /\ Cardinality(C) = Cardinality(B)
  BY <1>6, <1>7, FS_Bijection
<1>9. OfData(f, q \o r) = A \cup C /\ A \cap C = {}
  BY <1>4 DEF C
<1>10. Cardinality(A \cup C) = Cardinality(A) + Cardinality(C) - Cardinality({})
  BY <1>7, <1>8, <1>9, FS_Union
<1>. QED
  BY <1>7, <1>8, <1>9, <1>10, FS_EmptySet DEF A, B

\* What a queue and its rest hold.
LEMMA SplitQueue ==
  ASSUME NEW q \in Seq(Messages), NEW k \in 0 .. Len(q)
  PROVE  /\ SubSeq(q, 1, k) \in Seq(Messages) /\ Len(SubSeq(q, 1, k)) = k
         /\ \A i \in 1 .. k : SubSeq(q, 1, k)[i] = q[i]
         /\ SubSeq(q, k + 1, Len(q)) \in Seq(Messages) /\ Len(SubSeq(q, k + 1, Len(q))) = Len(q) - k
         /\ \A i \in 1 .. Len(q) - k : SubSeq(q, k + 1, Len(q))[i] = q[k + i]
         /\ SubSeq(q, 1, k) \o SubSeq(q, k + 1, Len(q)) = q
<1>1. Len(q) \in Nat /\ k \in Int /\ k + 1 \in Int /\ Len(q) \in Int /\ \A i \in 1 .. Len(q) : q[i] \in Messages
  OBVIOUS
<1>2. /\ SubSeq(q, 1, k) \in Seq(Messages) /\ Len(SubSeq(q, 1, k)) = k
      /\ \A i \in 1 .. k : SubSeq(q, 1, k)[i] = q[i]
  <2>1. /\ SubSeq(q, 1, k) \in Seq(Messages) /\ Len(SubSeq(q, 1, k)) = IF 1 <= k THEN k - 1 + 1 ELSE 0
        /\ \A i \in 1 .. k - 1 + 1 : SubSeq(q, 1, k)[i] = q[1 + i - 1]
    BY <1>1, SubSeqProperties
  <2>. QED
    BY <2>1
<1>3. /\ SubSeq(q, k + 1, Len(q)) \in Seq(Messages) /\ Len(SubSeq(q, k + 1, Len(q))) = Len(q) - k
      /\ \A i \in 1 .. Len(q) - k : SubSeq(q, k + 1, Len(q))[i] = q[k + i]
  <2>1. /\ SubSeq(q, k + 1, Len(q)) \in Seq(Messages)
        /\ Len(SubSeq(q, k + 1, Len(q))) = IF k + 1 <= Len(q) THEN Len(q) - (k + 1) + 1 ELSE 0
        /\ \A i \in 1 .. Len(q) - (k + 1) + 1 : SubSeq(q, k + 1, Len(q))[i] = q[(k + 1) + i - 1]
    BY <1>1, SubSeqProperties
  <2>2. \A i \in 1 .. Len(q) - k : i \in 1 .. Len(q) - (k + 1) + 1 /\ (k + 1) + i - 1 = k + i
    BY <1>1
  <2>3. (IF k + 1 <= Len(q) THEN Len(q) - (k + 1) + 1 ELSE 0) = Len(q) - k
    BY <1>1
  <2>. QED
    BY <2>1, <2>2, <2>3
<1>4. SubSeq(q, 1, k) \o SubSeq(q, k + 1, Len(q)) = q
  <2>1. SubSeq(q, 1, k) \o SubSeq(q, k + 1, Len(q)) = SubSeq(q, 1, Len(q))
    <3>1. 1 \in 1 .. Len(q) + 1 /\ k \in 1 - 1 .. Len(q) /\ Len(q) \in k .. Len(q)
      BY <1>1
    <3>. QED
      BY <3>1, ConcatAdjacentSubSeq
  <2>. QED
    BY <2>1, SubSeqFull
<1>. QED
  BY <1>2, <1>3, <1>4

LEMMA TailOfQueue ==
  ASSUME NEW q \in Seq(Messages), q # <<>>
  PROVE  /\ Head(q) = q[1] /\ q[1] \in Messages /\ Tail(q) \in Seq(Messages) /\ 1 \in DOMAIN q
         /\ \A i \in DOMAIN Tail(q) : i + 1 \in DOMAIN q /\ Tail(q)[i] = q[i + 1]
         /\ \A f : Cardinality(OfData(f, q)) = Cardinality(OfData(f, Tail(q)))
                      + IF q[1].msg = "data" /\ q[1].fd = f THEN 1 ELSE 0
<1>1. /\ Head(q) = q[1] /\ q[1] \in Messages /\ Tail(q) \in Seq(Messages) /\ 1 \in DOMAIN q
      /\ \A i \in DOMAIN Tail(q) : i + 1 \in DOMAIN q /\ Tail(q)[i] = q[i + 1]
  OBVIOUS
<1>2. q = <<q[1]>> \o Tail(q)
  OBVIOUS
<1>3. ASSUME NEW f
      PROVE  Cardinality(OfData(f, q)) = Cardinality(OfData(f, Tail(q)))
                      + IF q[1].msg = "data" /\ q[1].fd = f THEN 1 ELSE 0
  <2>1. <<q[1]>> \in Seq(Messages)
    BY <1>1
  <2>2. Cardinality(OfData(f, <<q[1]>> \o Tail(q))) =
          Cardinality(OfData(f, <<q[1]>>)) + Cardinality(OfData(f, Tail(q)))
    BY <1>1, <2>1, CountOfConcat
  <2>3. Cardinality(OfData(f, Tail(q))) \in Nat
    BY <1>1, CountType
  <2>4. OfData(f, q) = OfData(f, <<q[1]>> \o Tail(q))
    BY <1>2, Zenon
  <2>5. Cardinality(OfData(f, <<q[1]>>)) = IF q[1].msg = "data" /\ q[1].fd = f THEN 1 ELSE 0
    BY <1>1, CountOfOne
  <2>. QED
    BY <2>2, <2>3, <2>4, <2>5
<1>. QED
  BY <1>1, <1>3

LEMMA CountOfAppend ==
  ASSUME NEW f, NEW q \in Seq(Messages), NEW m \in Messages
  PROVE  Cardinality(OfData(f, Append(q, m))) = Cardinality(OfData(f, q))
                      + IF m.msg = "data" /\ m.fd = f THEN 1 ELSE 0
<1>1. Append(q, m) = q \o <<m>> /\ <<m>> \in Seq(Messages)
  OBVIOUS
<1>2. Cardinality(OfData(f, q \o <<m>>)) = Cardinality(OfData(f, q)) + Cardinality(OfData(f, <<m>>))
  BY <1>1, CountOfConcat
<1>. QED
  BY <1>1, <1>2, CountOfOne

LEMMA AppendToQueue ==
  ASSUME NEW q \in Seq(Messages), NEW m \in Messages
  PROVE  /\ Append(q, m) \in Seq(Messages) /\ Append(q, m) = q \o <<m>> /\ Append(q, m) # <<>>
         /\ Len(Append(q, m)) = Len(q) + 1
         /\ \A i \in DOMAIN Append(q, m) : \/ i \in DOMAIN q /\ Append(q, m)[i] = q[i]
                                           \/ i = Len(q) + 1 /\ Append(q, m)[i] = m
         /\ Len(q) + 1 \in DOMAIN Append(q, m) /\ Append(q, m)[Len(q) + 1] = m
         /\ \A i \in DOMAIN q : i \in DOMAIN Append(q, m) /\ Append(q, m)[i] = q[i] /\ i # Len(q) + 1
OBVIOUS
-----------------------------------------------------------------------------
(* Effects of a step.                                                      *)

NetType == [event : BOOLEAN, record : SUBSET NetworkEvents, armed : SUBSET NetworkEvents]

DancerType ==
  [phase : {"build", "built", "asleep", "check", "round", "pipe", "recv", "ended"},
   first : Fds, revents : [Fds -> SUBSET {"in", "out"}],
   ready : Nat, messages : Seq(Messages), cleanup : BOOLEAN]

Pending(s) == net[s].armed \cup net[s].record

LEMMA SocketStays ==
  ASSUME NEW s \in Sockets, SocketOK(s), net'[s] = net[s], waiting'[s] = waiting[s],
         peer'[s] = peer[s], room'[s] = room[s], sendReady'[s] = sendReady[s],
         "in" \in dancer'.revents[s] <=> "in" \in dancer.revents[s], Failing(s) => Failing(s)'
  PROVE  SocketOK(s)'
BY DEF SocketOK

LEMMA SameHandles ==
  ASSUME \A f \in Fds \ {Pipe} : place'[f] = "mapped" <=> place[f] = "mapped"
  PROVE  Mapped' = Mapped /\ Handles' = Handles
BY DEF Mapped, Handles

LEMMA MessagesStay ==
  ASSUME TypeOK, MessageInv, pipe'.data = pipe.data, dancer'.messages = dancer.messages,
         \A f \in Fds \ {Pipe} : place'[f] = place[f] \/ place[f] = "none",
         \A s \in Sockets : place[s] # "none" /\ peer[s] # "open" => peer'[s] # "open",
         \A s \in Sockets : sendBufs'[s] \in Nat /\ sendBufs'[s] <= sendBufs[s]
  PROVE  MessageInv'
<1>1. ASSUME NEW m \in Messages, Queued(m) PROVE Queued(m)'
  BY <1>1, FdFacts DEF Queued, Messages
<1>2. pipe.data \in Seq(Messages) /\ dancer.messages \in Seq(Messages)
  BY DEF TypeOK
<1>3. /\ \A i \in DOMAIN pipe.data : pipe.data[i] \in Messages
      /\ \A i \in DOMAIN dancer.messages : dancer.messages[i] \in Messages
  BY <1>2
<1>4. ASSUME NEW s \in Sockets
      PROVE  sendBufs'[s] + Cardinality(OfData(s, pipe.data))
               + Cardinality(OfData(s, dancer.messages)) <= MaxBufs
  <2>1. /\ Cardinality(OfData(s, pipe.data)) \in Nat /\ Cardinality(OfData(s, dancer.messages)) \in Nat
        /\ sendBufs[s] \in Nat /\ MaxBufs \in Nat
    BY <1>2, CountType, FdFacts DEF TypeOK
  <2>2. sendBufs[s] + Cardinality(OfData(s, pipe.data)) + Cardinality(OfData(s, dancer.messages)) <= MaxBufs
    BY DEF MessageInv
  <2>. QED
    BY <2>1, <2>2
<1>. QED
  BY <1>1, <1>3, <1>4 DEF MessageInv, AddedOnce, OfData

\* A step that the dancer and the pipe have no part in.
LEMMA QuietKeeps ==
  ASSUME IInv, TypeOK', SocketInv', UNCHANGED <<pipe, dancer, sendBufs>>,
         \A f \in Fds \ {Pipe} : place'[f] = place[f] \/ (place[f] = "none" /\ place'[f] = "held"),
         \A s \in Sockets : place[s] # "none" /\ peer[s] # "open" => peer'[s] # "open",
         \A s \in Sockets : s >= lastFD' => place'[s] = "none",
         \A s \in Sockets : place[s] # "none" => sendReady'[s] = sendReady[s],
         \A s \in Sockets : place[s] = "mapped" =>
           /\ peer[s] = "reset" => peer'[s] = "reset"
           /\ peer'[s] = "reset" \/ waiting'[s] >= waiting[s]
           /\ "read" \notin Pending(s) => "read" \notin Pending(s)'
           /\ "close" \in Pending(s) => "close" \in Pending(s)'
  PROVE  IInv'
<1>. USE DEF IInv
<1>1. Mapped' = Mapped /\ Handles' = Handles /\ ToHandle' = ToHandle /\ ToSend' = ToSend
  BY SameHandles DEF ToHandle, ToSend
<1>2. PipeInv'
  BY <1>1 DEF PipeInv
<1>3. MessageInv'
  <2>1. \A s \in Sockets : sendBufs'[s] \in Nat /\ sendBufs'[s] <= sendBufs[s]
    BY FdFacts DEF TypeOK
  <2>. QED
    BY <2>1, MessagesStay
<1>4. RoundInv'
  <2>1. \A f \in Fds \ {Pipe} : dancer'.revents[f] # {} => place'[f] = "mapped"
    BY DEF RoundInv
  <2>2. ToSend \subseteq Sockets /\ \A s \in ToSend : place[s] = "mapped"
    BY DEF ToSend, Mapped
  <2>3. ASSUME dancer.phase = "recv", NEW s \in Sockets, s = Min(ToHandle)
        PROVE  /\ "in" \in dancer.revents[s]
               /\ peer'[s] = "reset" \/ dancer.ready <= waiting'[s]
               /\ "read" \notin Pending(s)'
               /\ "close" \in Pending(s)'
    <3>1. /\ "in" \in dancer.revents[s] /\ (peer[s] = "reset" \/ dancer.ready <= waiting[s])
          /\ "read" \notin Pending(s) /\ "close" \in Pending(s)
      BY <2>3 DEF RoundInv, Pending
    <3>2. place[s] = "mapped"
      BY <3>1, FdFacts DEF RoundInv
    <3>3. waiting[s] \in Nat /\ waiting'[s] \in Nat /\ dancer.ready \in Nat
      BY FdFacts DEF TypeOK
    <3>. QED
      BY <3>1, <3>2, <3>3
  <2>4. \A f \in Fds : "out" \in dancer.revents[f] => f \in ToSend /\ sendReady'[f]
    BY <2>2 DEF RoundInv
  <2>. QED
    BY <1>1, <2>1, <2>2, <2>3, <2>4 DEF RoundInv, Pending
<1>. QED
  BY <1>2, <1>3, <1>4

\* A step of another end.
LEMMA PeerKeeps ==
  ASSUME IInv, TypeOK', SocketInv',
         UNCHANGED <<pipe, lastFD, place, sendReady, sendBufs, errno, dancer>>,
         \A s \in Sockets :
           /\ peer[s] # "open" => peer'[s] # "open"
           /\ peer[s] = "reset" => peer'[s] = "reset"
           /\ peer'[s] = "reset" \/ waiting'[s] >= waiting[s]
           /\ "read" \notin Pending(s) => "read" \notin Pending(s)'
           /\ "close" \in Pending(s) => "close" \in Pending(s)'
  PROVE  IInv'
<1>1. \A s \in Sockets : s >= lastFD' => place'[s] = "none"
  BY DEF IInv, RoundInv
<1>. QED
  BY <1>1, QuietKeeps

-----------------------------------------------------------------------------
(* The other ends.                                                         *)

LEMMA PeerConnectsKeeps == ASSUME IInv, PeerConnects PROVE IInv'
<1>. USE DEF PeerConnects, IInv
<1>1. \A s \in Sockets : net'[s] = net[s] /\ waiting'[s] = waiting[s]
  BY FdFacts DEF TypeOK
<1>2. TypeOK'
  <2>1. Recorded(net[TheListener], {"accept"}) \in NetType
    BY FdFacts DEF TypeOK, Recorded, NetType, NetworkEvents
  <2>2. net' \in [Fds \ {Pipe} -> NetType] /\ waiting' \in [Fds \ {Pipe} -> Nat]
        /\ waiting'[TheListener] <= MaxBacklog
    BY <2>1, FdFacts DEF TypeOK, NetType
  <2>. QED
    BY <1>1, <2>2 DEF TypeOK, NetType
<1>3. SocketInv'
  BY <1>1, SocketStays DEF SocketInv, Failing
<1>4. \A s \in Sockets : Pending(s)' = Pending(s) /\ waiting'[s] >= waiting[s]
  BY <1>1, FdFacts DEF Pending, TypeOK
<1>. QED
  BY <1>2, <1>3, <1>4, PeerKeeps

LEMMA PeerGivesUpKeeps == ASSUME IInv, PeerGivesUp PROVE IInv'
<1>. USE DEF PeerGivesUp, IInv
<1>1. \A s \in Sockets : net'[s] = net[s] /\ waiting'[s] = waiting[s]
  BY FdFacts DEF TypeOK
<1>2. TypeOK'
  <2>1. waiting' \in [Fds \ {Pipe} -> Nat] /\ waiting'[TheListener] <= MaxBacklog
    BY FdFacts DEF TypeOK
  <2>. QED
    BY <1>1, <2>1 DEF TypeOK
<1>3. SocketInv'
  BY <1>1, SocketStays DEF SocketInv, Failing
<1>4. \A s \in Sockets : Pending(s)' = Pending(s) /\ waiting'[s] >= waiting[s]
  BY <1>1, FdFacts DEF Pending, TypeOK
<1>. QED
  BY <1>2, <1>3, <1>4, PeerKeeps

LEMMA PeerReadsKeeps == ASSUME IInv, NEW s \in Sockets, PeerReads(s) PROVE IInv'
<1>. USE DEF PeerReads, IInv
<1>1. /\ s \in Fds \ {Pipe} /\ net[s] \in NetType /\ SocketOK(s)
      /\ net'[s] = Recorded(net[s], {"write"}) /\ room'[s] = TRUE
      /\ \A r \in Sockets \ {s} : net'[r] = net[r] /\ room'[r] = room[r]
  BY FdFacts DEF TypeOK, SocketInv, NetType
<1>2. TypeOK'
  <2>1. Recorded(net[s], {"write"}) \in NetType
    BY <1>1 DEF Recorded, NetType, NetworkEvents
  <2>2. net' \in [Fds \ {Pipe} -> NetType] /\ room' \in [Sockets -> BOOLEAN]
    BY <2>1 DEF TypeOK, NetType
  <2>. QED
    BY <2>2 DEF TypeOK, NetType
<1>8. net'[s].event = (net[s].event \/ net[s].armed \cap {"write"} # {})
  BY <1>1 DEF Recorded, NetType
<1>9. net'[s].event <=> net[s].event \/ net[s].armed \cap {"write"} # {}
  BY <1>8, Zenon
<1>3. /\ net'[s].event <=> net[s].event \/ "write" \in net[s].armed
      /\ net'[s].record = net[s].record \cup (net[s].armed \cap {"write"})
      /\ net'[s].armed = net[s].armed \ {"write"}
  BY <1>1, <1>9 DEF Recorded, NetType
<1>4. SocketOK(s)'
  BY <1>1, <1>3 DEF SocketOK, Failing, NetType
<1>5. SocketInv'
  BY <1>1, <1>4, SocketStays DEF SocketInv, Failing
<1>6. \A r \in Sockets : \A e \in {"read", "close"} : e \in Pending(r)' <=> e \in Pending(r)
  BY <1>1, <1>3 DEF Pending
<1>7. \A r \in Sockets : waiting[r] >= waiting[r]
  BY FdFacts DEF TypeOK
<1>. QED
  BY <1>2, <1>5, <1>6, <1>7, PeerKeeps

LEMMA PeerActsKeeps ==
  ASSUME IInv, NEW s \in Sockets, NEW amount \in 0 .. MaxIn, NEW other \in Ends,
         PeerActs(s, amount, other)
  PROVE  IInv'
<1>. USE DEF PeerActs, IInv
<1>1. /\ s \in Fds \ {Pipe} /\ net[s] \in NetType /\ SocketOK(s) /\ place[s] = "mapped"
      /\ net'[s] = Recorded(net[s], Holding(amount, other)) /\ waiting'[s] = amount /\ peer'[s] = other
      /\ \A r \in Sockets \ {s} : net'[r] = net[r] /\ waiting'[r] = waiting[r] /\ peer'[r] = peer[r]
      /\ waiting[s] \in Nat /\ amount \in Nat
  BY FdFacts DEF TypeOK, SocketInv, NetType
<1>2. /\ peer[s] # "reset"
      /\ \/ peer[s] = "open" /\ amount = waiting[s] + 1 /\ amount <= MaxIn /\ other = "open"
         \/ peer[s] = "open" /\ amount = waiting[s] /\ other = "closed"
         \/ amount = 0 /\ other = "reset"
  OBVIOUS
<1>3. TypeOK'
  <2>1. Recorded(net[s], Holding(amount, other)) \in NetType
    BY <1>1 DEF Recorded, NetType, NetworkEvents
  <2>2. net' \in [Fds \ {Pipe} -> NetType] /\ peer' \in [Sockets -> Ends]
    BY <2>1 DEF TypeOK, NetType
  <2>3. waiting' \in [Fds \ {Pipe} -> Nat] /\ waiting'[TheListener] <= MaxBacklog
        /\ \A r \in Sockets : waiting'[r] <= MaxIn
    BY <1>1, FdFacts DEF TypeOK
  <2>. QED
    BY <2>2, <2>3 DEF TypeOK, NetType
<1>4. /\ "read" \in Holding(amount, other) <=> amount > 0
      /\ "close" \in Holding(amount, other) <=> other = "reset" \/ (other = "closed" /\ amount = 0)
      /\ "write" \notin Holding(amount, other)
  BY DEF Holding
<1>. DEFINE h == Holding(amount, other)
<1>11. net'[s].event = (net[s].event \/ net[s].armed \cap h # {})
  BY <1>1 DEF Recorded, NetType
<1>12. net'[s].event <=> net[s].event \/ net[s].armed \cap h # {}
  BY <1>11, Zenon
<1>13. /\ net'[s].record = net[s].record \cup (net[s].armed \cap h)
      /\ net'[s].armed = net[s].armed \ h
  BY <1>1 DEF Recorded, NetType
<1>. HIDE DEF h
<1>5. /\ net'[s].event <=> net[s].event \/ net[s].armed \cap h # {}
      /\ net'[s].record = net[s].record \cup (net[s].armed \cap h)
      /\ net'[s].armed = net[s].armed \ h
  BY <1>12, <1>13
<1>6. SocketOK(s)'
  <2>1. Failing(s)' = Failing(s) /\ dancer' = dancer /\ sendReady' = sendReady /\ room' = room
    BY DEF Failing
  <2>2. /\ (net[s].event <=> net[s].record # {})
        /\ net[s].armed \cap net[s].record \subseteq {"write"} /\ Pending(s) \subseteq {"read", "write", "close"}
        /\ "read" \in net[s].armed => waiting[s] = 0
        /\ "read" \in net[s].record => waiting[s] > 0 \/ peer[s] # "open"
        /\ "close" \in net[s].armed <=> peer[s] = "open" \/ (peer[s] = "closed" /\ waiting[s] > 0)
    BY <1>1 DEF SocketOK, Pending
  <2>3. Pending(s)' = Pending(s)
    BY <1>5 DEF Pending
  <2>4. /\ "read" \in net'[s].armed => amount = 0
        /\ "read" \in net'[s].record => amount > 0 \/ other # "open"
        /\ "close" \in net'[s].armed <=> other = "open" \/ (other = "closed" /\ amount > 0)
        /\ other = "reset" => amount = 0
    BY <1>1, <1>2, <1>4, <1>5, <2>2 DEF h
  <2>5. "in" \in dancer.revents[s] => amount > 0 \/ other # "open"
    BY <1>1, <1>2 DEF SocketOK
  <2>6. (net'[s].event <=> net'[s].record # {}) /\ net'[s].armed \cap net'[s].record \subseteq {"write"}
    BY <1>5, <2>2
  <2>7. ~ sendReady[s] => "write" \in net'[s].record \/ ("write" \in net'[s].armed /\ ~ room[s])
    BY <1>1, <1>4, <1>5 DEF SocketOK, h
  <2>8. /\ "read" \in Pending(s) \/ "in" \in dancer.revents[s] \/ Failing(s)
        /\ "close" \in Pending(s) \/ "in" \in dancer.revents[s] \/ Failing(s)
        /\ "in" \in dancer.revents[s] => "read" \notin Pending(s) \/ "close" \notin Pending(s)
    BY <1>1 DEF SocketOK, Pending
  <2>. QED
    BY <1>1, <2>1, <2>2, <2>3, <2>4, <2>5, <2>6, <2>7, <2>8 DEF SocketOK, Pending
<1>7. SocketInv'
  BY <1>1, <1>6, SocketStays DEF SocketInv, Failing
<1>8. \A r \in Sockets : Pending(r)' = Pending(r)
  BY <1>1, <1>5 DEF Pending
<1>10. \A r \in Sockets : /\ peer[r] # "open" => peer'[r] # "open"
                          /\ peer[r] = "reset" => peer'[r] = "reset"
  BY <1>1, <1>2
<1>9. \A r \in Sockets : peer'[r] = "reset" \/ waiting'[r] >= waiting[r]
  BY <1>1, <1>2, FdFacts DEF TypeOK
<1>. QED
  BY <1>3, <1>7, <1>8, <1>9, <1>10, PeerKeeps

-----------------------------------------------------------------------------
(* The program.                                                            *)

LEMMA RecordedFacts ==
  ASSUME NEW n \in NetType, NEW events \in SUBSET NetworkEvents
  PROVE  /\ Recorded(n, events) \in NetType
         /\ Recorded(n, events).event <=> n.event \/ n.armed \cap events # {}
         /\ Recorded(n, events).record = n.record \cup (n.armed \cap events)
         /\ Recorded(n, events).armed = n.armed \ events
<1>1. Recorded(n, events).event = (n.event \/ n.armed \cap events # {})
  BY DEF Recorded, NetType
<1>2. Recorded(n, events).event <=> n.event \/ n.armed \cap events # {}
  BY <1>1, Zenon
<1>3. /\ Recorded(n, events).record = n.record \cup (n.armed \cap events)
      /\ Recorded(n, events).armed = n.armed \ events
  BY DEF Recorded, NetType
<1>4. Recorded(n, events) \in NetType
  BY DEF Recorded, NetType
<1>. QED
  BY <1>2, <1>3, <1>4

\* What holds already is recorded, and the rest is armed.
LEMMA SelectFacts ==
  ASSUME NEW amount \in Nat, NEW other \in Ends, other = "reset" => amount = 0
  PROVE  LET n == Select(amount, other)
         IN  /\ n \in NetType /\ n.event /\ n.armed \cap n.record = {}
             /\ n.armed \cup n.record = {"read", "write", "close"} /\ "write" \in n.record
             /\ "read" \in n.record <=> amount > 0
             /\ "close" \in n.armed <=> other = "open" \/ (other = "closed" /\ amount > 0)
<1>. DEFINE all == {"read", "write", "close"}
            n == [event |-> FALSE, record |-> {}, armed |-> all]
            h == Holding(amount, other) \cup {"write"}
<1>1. /\ "read" \in h <=> amount > 0
      /\ "close" \in h <=> other = "reset" \/ (other = "closed" /\ amount = 0)
      /\ "write" \in h /\ h \in SUBSET NetworkEvents
  BY DEF Holding, NetworkEvents
<1>2. n \in NetType /\ n.event = FALSE /\ n.record = {} /\ n.armed = all
  BY DEF NetType, NetworkEvents
<1>3. Select(amount, other) = Recorded(n, h)
  BY DEF Select
<1>. HIDE DEF n, h
<1>4. /\ Recorded(n, h) \in NetType /\ Recorded(n, h).record = all \cap h /\ Recorded(n, h).armed = all \ h
      /\ Recorded(n, h).event
  BY <1>1, <1>2, RecordedFacts
<1>5. /\ "close" \in all \ h <=> other = "open" \/ (other = "closed" /\ amount > 0)
      /\ "read" \in all \cap h <=> amount > 0
      /\ "write" \in all \cap h /\ (all \ h) \cap (all \cap h) = {} /\ (all \ h) \cup (all \cap h) = all
  BY <1>1 DEF Ends
<1>. QED
  BY <1>3, <1>4, <1>5

\* A socket that is new is in order.
LEMMA NewSocket ==
  ASSUME IInv, NEW s \in Sockets, NEW amount \in 0 .. MaxIn, NEW other \in Ends,
         Opened(s, amount, other), net'[s] = Select(amount, other), waiting'[s] = amount,
         "in" \notin dancer'.revents[s]
  PROVE  SocketOK(s)' /\ place[s] = "none" /\ place'[s] = "held" /\ net'[s] \in NetType
         /\ peer'[s] = other /\ sendReady'[s] = TRUE
<1>1. amount \in Nat /\ s \in Fds \ {Pipe} /\ (other = "reset" => amount = 0) /\ lastFD \in Nat
  BY FdFacts DEF Opened, IInv, TypeOK
<1>2. place'[s] = "held" /\ peer'[s] = other /\ sendReady'[s] = TRUE
  BY <1>1 DEF Opened, IInv, TypeOK
<1>3. place[s] = "none"
  BY <1>1 DEF Opened, IInv, RoundInv
<1>4. /\ net'[s] \in NetType /\ net'[s].event /\ net'[s].armed \cap net'[s].record = {}
      /\ net'[s].armed \cup net'[s].record = {"read", "write", "close"} /\ "write" \in net'[s].record
      /\ "read" \in net'[s].record <=> amount > 0
      /\ "close" \in net'[s].armed <=> other = "open" \/ (other = "closed" /\ amount > 0)
  BY <1>1, SelectFacts
<1>5. SocketOK(s)'
  BY <1>1, <1>2, <1>4 DEF SocketOK
<1>. QED
  BY <1>2, <1>3, <1>4, <1>5

LEMMA BindKeeps == ASSUME IInv, Bind PROVE IInv'
<1>. USE DEF Bind, IInv
<1>1. /\ place'[TheListener] = "held"
      /\ \A f \in Fds \ {Pipe} : f # TheListener => place'[f] = place[f]
  BY FdFacts DEF TypeOK
<1>2. TypeOK'
  BY DEF TypeOK
<1>3. SocketInv'
  BY <1>1, FdFacts, SocketStays DEF SocketInv, Failing
<1>4. \A s \in Sockets : place'[s] = place[s] /\ Pending(s)' = Pending(s) /\ waiting[s] >= waiting[s]
  BY <1>1, FdFacts DEF Pending, TypeOK
<1>5. \A s \in Sockets : s >= lastFD' => place'[s] = "none"
  BY <1>4 DEF RoundInv
<1>6. \A f \in Fds \ {Pipe} : place'[f] = place[f] \/ (place[f] = "none" /\ place'[f] = "held")
  BY <1>1
<1>. QED
  BY <1>2, <1>3, <1>4, <1>5, <1>6, QuietKeeps

\* What a step that opens a descriptor leaves alone.
LEMMA OpenedFacts ==
  ASSUME IInv, NEW s \in Sockets, NEW amount \in 0 .. MaxIn, NEW other \in Ends, Opened(s, amount, other)
  PROVE  /\ place' \in [Fds \ {Pipe} -> {"none", "held", "piped", "mapped", "closed"}]
         /\ peer' \in [Sockets -> Ends] /\ sendReady' \in [Sockets -> BOOLEAN]
         /\ lastFD' \in 2 .. MaxFd + 1
         /\ \A f \in Fds \ {Pipe} : f # s => place'[f] = place[f]
         /\ \A r \in Sockets : r # s => peer'[r] = peer[r] /\ sendReady'[r] = sendReady[r]
         /\ \A r \in Sockets : r >= lastFD' => place'[r] = "none"
<1>1. s \in Fds \ {Pipe} /\ lastFD \in 2 .. MaxFd + 1 /\ MaxFd \in Nat /\ \A r \in Sockets : r \in Nat
  BY FdFacts DEF IInv, TypeOK
<1>2. \A f \in Fds \ {Pipe} : f # s => place'[f] = place[f]
  BY <1>1 DEF IInv, TypeOK, Opened
<1>3. \A r \in Sockets : r >= lastFD' => place'[r] = "none"
  <2>. SUFFICES ASSUME NEW r \in Sockets, r >= lastFD' PROVE place'[r] = "none"
    OBVIOUS
  <2>1. r # s /\ r >= lastFD
    BY <1>1 DEF Opened
  <2>. QED
    BY <1>2, <2>1, FdFacts DEF IInv, RoundInv
<1>4. lastFD' \in 2 .. MaxFd + 1
  BY <1>1 DEF Opened
<1>. QED
  BY <1>1, <1>2, <1>3, <1>4 DEF IInv, TypeOK, Opened

LEMMA ConnectKeeps ==
  ASSUME IInv, NEW s \in Sockets, NEW amount \in 0 .. MaxIn, NEW other \in Ends, Connect(s, amount, other)
  PROVE  IInv'
<1>1. Opened(s, amount, other) /\ UNCHANGED <<pipe, sendBufs, room, errno, dancer>>
  BY DEF Connect
<1>2. s \in Fds \ {Pipe} /\ amount \in Nat /\ amount <= MaxIn
  BY FdFacts
<1>3. /\ net'[s] = Select(amount, other) /\ waiting'[s] = amount
      /\ \A f \in Fds \ {Pipe} : f # s => net'[f] = net[f] /\ waiting'[f] = waiting[f]
  BY <1>2 DEF Connect, IInv, TypeOK
<1>4. place[s] = "none"
  BY <1>1, FdFacts DEF Opened, IInv, RoundInv, TypeOK
<1>5. dancer.revents[s] = {}
  BY <1>2, <1>4 DEF IInv, RoundInv
<1>6. /\ SocketOK(s)' /\ place'[s] = "held" /\ net'[s] \in NetType /\ peer'[s] = other
  BY <1>1, <1>3, <1>5, NewSocket
<1>7. TypeOK'
  <2>1. net' \in [Fds \ {Pipe} -> NetType]
    BY <1>3, <1>6, <1>2 DEF Connect, IInv, TypeOK, NetType
  <2>2. waiting' \in [Fds \ {Pipe} -> Nat] /\ waiting'[TheListener] <= MaxBacklog
        /\ \A r \in Sockets : waiting'[r] <= MaxIn
    BY <1>2, <1>3, FdFacts DEF Connect, IInv, TypeOK
  <2>. QED
    BY <1>1, <2>1, <2>2, OpenedFacts DEF IInv, TypeOK, NetType
<1>8. SocketInv'
  <2>. SUFFICES ASSUME NEW r \in Sockets, r # s, place'[r] \in {"held", "piped", "mapped"} PROVE SocketOK(r)'
    BY <1>6 DEF SocketInv
  <2>1. SocketOK(r) /\ net'[r] = net[r] /\ waiting'[r] = waiting[r] /\ peer'[r] = peer[r]
        /\ sendReady'[r] = sendReady[r]
    BY <1>1, <1>3, OpenedFacts, FdFacts DEF IInv, SocketInv
  <2>. QED
    BY <1>1, <2>1, SocketStays DEF Failing
<1>9. \A r \in Sockets : r # s => Pending(r)' = Pending(r) /\ waiting'[r] = waiting[r] /\ waiting[r] \in Nat
                                  /\ peer'[r] = peer[r] /\ sendReady'[r] = sendReady[r]
  <2>1. \A r \in Sockets : r \in Fds \ {Pipe}
    BY FdFacts
  <2>2. \A r \in Sockets : r # s => /\ net'[r] = net[r] /\ waiting'[r] = waiting[r]
                                   /\ peer'[r] = peer[r] /\ sendReady'[r] = sendReady[r]
    BY <1>1, <1>3, <2>1, OpenedFacts
  <2>3. \A r \in Sockets : waiting[r] \in Nat
    BY <2>1 DEF IInv, TypeOK
  <2>. QED
    BY <2>2, <2>3 DEF Pending
<1>10. \A r \in Sockets : place[r] = "mapped" => /\ r # s /\ waiting'[r] >= waiting[r]
  BY <1>4, <1>9
<1>11. \A f \in Fds \ {Pipe} : place'[f] = place[f] \/ (place[f] = "none" /\ place'[f] = "held")
  BY <1>1, <1>4, <1>6, OpenedFacts
<1>12. \A r \in Sockets : r >= lastFD' => place'[r] = "none"
  BY <1>1, OpenedFacts
<1>. QED
  BY <1>1, <1>4, <1>7, <1>8, <1>9, <1>10, <1>11, <1>12, QuietKeeps

\* A message is written to the pipe.
LEMMA WriteKeeps ==
  ASSUME IInv, NEW msg \in {"add", "remove", "data"}, NEW f \in Fds \ {Pipe}, Write(msg, f),
         UNCHANGED <<lastFD, socketVars, errno, dancer>>,
         msg = "add" => place[f] = "held" /\ place' = [place EXCEPT ![f] = "piped"],
         msg # "add" => place[f] # "none" /\ place' = place,
         msg = "data" => f \in Sockets /\ sendBufs[f] + Cardinality(OfData(f, pipe.data))
                           + Cardinality(OfData(f, dancer.messages)) < MaxBufs
  PROVE  IInv'
<1>. DEFINE m == [msg |-> msg, fd |-> f]
            q == Append(pipe.data, m)
<1>1. m \in Messages /\ m.msg = msg /\ m.fd = f
  BY DEF Messages
<1>2. pipe.data \in Seq(Messages) /\ dancer.messages \in Seq(Messages)
  BY DEF IInv, TypeOK
<1>. HIDE DEF m
<1>3. /\ pipe'.data = q /\ pipe'.writable = pipe.writable
      /\ pipe'.event = (IF pipe.event = "closed" THEN "closed" ELSE "set") /\ pipe.writable
  BY DEF IInv, TypeOK, Write, m
<1>4. /\ q \in Seq(Messages) /\ q # <<>> /\ Len(q) = Len(pipe.data) + 1
      /\ \A i \in DOMAIN q : \/ i \in DOMAIN pipe.data /\ q[i] = pipe.data[i]
                             \/ i = Len(pipe.data) + 1 /\ q[i] = m
  BY <1>1, <1>2, AppendToQueue
<1>5. ASSUME NEW s
      PROVE  Cardinality(OfData(s, q)) = Cardinality(OfData(s, pipe.data))
                                           + IF msg = "data" /\ f = s THEN 1 ELSE 0
  <2>1. Cardinality(OfData(s, q)) = Cardinality(OfData(s, pipe.data))
                      + IF m.msg = "data" /\ m.fd = s THEN 1 ELSE 0
    BY <1>1, <1>2, CountOfAppend, Zenon
  <2>. HIDE DEF q
  <2>. QED
    BY <1>1, <2>1
<1>. HIDE DEF q
<1>6. TypeOK'
  <2>1. pipe' \in [data : Seq(Messages), event : {"reset", "set", "closed"}, writable : BOOLEAN]
    <3>1. pipe' = [data |-> q, event |-> pipe'.event, writable |-> pipe.writable]
      BY <1>3 DEF IInv, TypeOK, Write
    <3>. QED
      BY <1>3, <1>4, <3>1 DEF IInv, TypeOK
  <2>2. place' \in [Fds \ {Pipe} -> {"none", "held", "piped", "mapped", "closed"}]
    <3>1. CASE msg = "add"
      <4>1. place' = [place EXCEPT ![f] = "piped"]
        BY <3>1
      <4>. QED
        BY <4>1 DEF IInv, TypeOK
    <3>2. CASE msg # "add"
      BY <3>2 DEF IInv, TypeOK
    <3>. QED
      BY <3>1, <3>2
  <2>. QED
    BY <2>1, <2>2 DEF IInv, TypeOK
<1>7. /\ \A g \in Fds \ {Pipe} : g # f => place'[g] = place[g]
      /\ msg = "add" => place'[f] = "piped" /\ place[f] = "held"
      /\ msg # "add" => place'[f] = place[f] /\ place[f] # "none"
  BY DEF IInv, TypeOK
<1>8. Mapped' = Mapped /\ Handles' = Handles /\ ToHandle' = ToHandle /\ ToSend' = ToSend
  <2>1. \A g \in Fds \ {Pipe} : place'[g] = "mapped" <=> place[g] = "mapped"
    BY <1>7
  <2>. QED
    BY <2>1, SameHandles DEF ToHandle, ToSend
<1>9. PipeInv'
  <2>1. pipe.data \in Seq(Messages) /\ Len(pipe.data) \in Nat
    BY <1>2
  <2>. QED
    BY <1>3, <1>4, <1>8, <2>1 DEF IInv, PipeInv
<1>10. MessageInv'
  <2>1. ASSUME NEW l \in Messages, Queued(l) PROVE Queued(l)'
    BY <1>7, <2>1, FdFacts DEF Queued, Messages
  <2>2. ASSUME NEW l \in Messages, l.msg = msg, l.fd = f PROVE Queued(l)'
    BY <1>7, <2>2 DEF Queued
  <2>3. ASSUME NEW i \in DOMAIN q, NEW l, l = q[i] PROVE l \in Messages /\ Queued(l)' /\ l.msg # "fail"
    <3>1. CASE i \in DOMAIN pipe.data /\ q[i] = pipe.data[i]
      <4>1. l \in Messages /\ Queued(l) /\ l.msg # "fail"
        BY <1>2, <2>3, <3>1 DEF IInv, MessageInv
      <4>. QED
        BY <2>1, <4>1
    <3>2. CASE q[i] = m
      <4>1. l \in Messages /\ l.msg = msg /\ l.fd = f
        BY <1>1, <2>3, <3>2
      <4>. QED
        BY <2>2, <4>1
    <3>. QED
      BY <1>4, <3>1, <3>2
  <2>4. \A i \in DOMAIN dancer.messages : Queued(dancer.messages[i])'
    BY <1>2, <2>1 DEF IInv, MessageInv
  <2>5. \A i \in DOMAIN pipe.data : pipe.data[i].msg = "add" /\ msg = "add" => pipe.data[i].fd # f
    BY <1>7 DEF IInv, MessageInv, Queued
  <2>6. \A i \in DOMAIN dancer.messages : dancer.messages[i].msg = "add" /\ msg = "add" => dancer.messages[i].fd # f
    BY <1>7 DEF IInv, MessageInv, Queued
  <2>7. AddedOnce(q)
    BY <1>1, <1>4, <2>5 DEF IInv, MessageInv, AddedOnce
  <2>8. \A i \in DOMAIN q, j \in DOMAIN dancer.messages :
          q[i].msg = "add" /\ dancer.messages[j].msg = "add" => q[i].fd # dancer.messages[j].fd
    BY <1>1, <1>4, <2>6 DEF IInv, MessageInv
  <2>9. ASSUME NEW s \in Sockets
        PROVE  sendBufs[s] + Cardinality(OfData(s, q)) + Cardinality(OfData(s, dancer.messages)) <= MaxBufs
    <3>1. /\ Cardinality(OfData(s, pipe.data)) \in Nat /\ Cardinality(OfData(s, dancer.messages)) \in Nat
          /\ sendBufs[s] \in Nat /\ MaxBufs \in Nat
      BY <1>2, CountType, FdFacts DEF IInv, TypeOK
    <3>2. sendBufs[s] + Cardinality(OfData(s, pipe.data)) + Cardinality(OfData(s, dancer.messages)) <= MaxBufs
      BY DEF IInv, MessageInv
    <3>. QED
      BY <1>5, <3>1, <3>2
  <2>10. AddedOnce(dancer.messages)
    BY DEF IInv, MessageInv
  <2>11. dancer' = dancer /\ sendBufs' = sendBufs
    OBVIOUS
  <2>12. \A i \in DOMAIN pipe'.data : Queued(pipe.data[i])' /\ pipe'.data[i].msg # "fail"
    BY <1>3, <2>3
  <2>13. AddedOnce(pipe.data)'
    BY <1>3, <2>7 DEF AddedOnce
  <2>14. \A s \in Sockets : sendBufs'[s] + Cardinality(OfData(s, pipe.data))'
                              + Cardinality(OfData(s, dancer.messages))' <= MaxBufs
    BY <1>3, <2>9, <2>11 DEF OfData
  <2>15. AddedOnce(dancer.messages)'
    BY <2>10, <2>11 DEF AddedOnce
  <2>. QED
    BY <1>3, <2>4, <2>8, <2>11, <2>12, <2>13, <2>14, <2>15 DEF MessageInv
<1>11. RoundInv'
  <2>1. \A g \in Fds \ {Pipe} : dancer.revents[g] # {} => place'[g] = "mapped"
    BY <1>7 DEF IInv, RoundInv
  <2>2. \A s \in Sockets : s >= lastFD => place'[s] = "none"
    BY <1>7, FdFacts DEF IInv, RoundInv
  <2>. QED
    BY <1>8, <2>1, <2>2 DEF IInv, RoundInv
<1>12. SocketInv'
  BY <1>7, FdFacts, SocketStays DEF IInv, SocketInv, Failing
<1>. QED
  BY <1>6, <1>9, <1>10, <1>11, <1>12 DEF IInv

LEMMA HandKeeps == ASSUME IInv, NEW f \in Fds \ {Pipe}, Hand(f) PROVE IInv'
BY WriteKeeps DEF Hand

LEMMA AskKeeps == ASSUME IInv, NEW f \in Fds \ {Pipe}, NEW msg \in {"remove", "data"}, Ask(msg, f) PROVE IInv'
<1>1. msg = "data" => f \in Sockets /\ sendBufs[f] + Cardinality(OfData(f, pipe.data))
                           + Cardinality(OfData(f, dancer.messages)) < MaxBufs
  <2>. SUFFICES ASSUME msg = "data", f \in Sockets
       PROVE  sendBufs[f] + Cardinality(OfData(f, pipe.data)) + Cardinality(OfData(f, dancer.messages)) < MaxBufs
    BY DEF Ask
  <2>1. ASSUME NEW q \in Seq(Messages)
        PROVE  /\ Cardinality(OfData(f, q)) <= Cardinality(Under("data", q))
               /\ Cardinality(OfData(f, q)) \in Nat /\ Cardinality(Under("data", q)) \in Nat
    <3>1. IsFiniteSet(1 .. Len(q)) /\ Under("data", q) \subseteq 1 .. Len(q)
      BY FS_Interval DEF Under
    <3>2. IsFiniteSet(Under("data", q)) /\ OfData(f, q) \subseteq Under("data", q)
      BY <3>1, FS_Subset DEF Under, OfData
    <3>. QED
      BY <3>2, FS_Subset, FS_CardinalityType
  <2>2. pipe.data \in Seq(Messages) /\ dancer.messages \in Seq(Messages) /\ sendBufs[f] \in Nat /\ MaxBufs \in Nat
    BY FdFacts DEF IInv, TypeOK
  <2>3. sendBufs[f] + Cardinality(Under("data", pipe.data)) + Cardinality(Under("data", dancer.messages)) < MaxBufs
    BY DEF Ask
  <2>4. /\ Cardinality(OfData(f, pipe.data)) <= Cardinality(Under("data", pipe.data))
        /\ Cardinality(OfData(f, pipe.data)) \in Nat /\ Cardinality(Under("data", pipe.data)) \in Nat
    BY <2>1, <2>2
  <2>5. /\ Cardinality(OfData(f, dancer.messages)) <= Cardinality(Under("data", dancer.messages))
        /\ Cardinality(OfData(f, dancer.messages)) \in Nat /\ Cardinality(Under("data", dancer.messages)) \in Nat
    BY <2>1, <2>2
  <2>. QED
    BY <2>2, <2>3, <2>4, <2>5
<1>. QED
  BY <1>1, WriteKeeps DEF Ask

LEMMA ClosePipeKeeps == ASSUME IInv, ClosePipe PROVE IInv'
<1>. USE DEF ClosePipe, IInv
<1>1. pipe'.data = pipe.data /\ pipe'.event = "closed" /\ pipe'.writable = FALSE
  BY DEF TypeOK
<1>2. TypeOK'
  BY DEF TypeOK
<1>3. Handles' = Handles /\ ToHandle' = ToHandle /\ ToSend' = ToSend
  BY DEF Handles, Mapped, ToHandle, ToSend
<1>4. PipeInv'
  BY <1>1, <1>3 DEF PipeInv
<1>5. MessageInv'
  BY <1>1, FdFacts, MessagesStay DEF TypeOK
<1>6. RoundInv'
  BY <1>3 DEF RoundInv
<1>7. SocketInv'
  BY SocketStays DEF SocketInv, Failing
<1>. QED
  BY <1>2, <1>4, <1>5, <1>6, <1>7

-----------------------------------------------------------------------------
(* The dancer's steps.                                                     *)

Phases == {"build", "built", "asleep", "check", "round", "pipe", "recv", "ended"}

LEMMA StepFacts ==
  ASSUME TypeOK, NEW phase \in Phases, NEW f \in Fds, NEW seen,
         NEW q \in Seq(Messages),
         NEW d, d = Step(phase, f, seen, q)
  PROVE  /\ d \in DancerType /\ d.phase = phase /\ d.ready = dancer.ready /\ d.cleanup = dancer.cleanup
         /\ d.messages = dancer.messages \o q
         /\ d.revents[f] = dancer.revents[f] \ seen
         /\ \A g \in Fds : g # f => d.revents[g] = dancer.revents[g]
         /\ \A g \in Fds : d.revents[g] \subseteq dancer.revents[g]
<1>1. dancer \in DancerType
  BY DEF TypeOK, DancerType
<1>2. dancer.messages \o q \in Seq(Messages)
  BY <1>1, ConcatProperties DEF DancerType
<1>. QED
  BY <1>1, <1>2 DEF Step, DancerType, Phases

LEMMA OnlyDancer ==
  ASSUME TypeOK, UNCHANGED <<pipe, lastFD, place, socketVars, errno>>, dancer' \in DancerType
  PROVE  TypeOK'
BY DEF TypeOK, DancerType

\* What is mapped has a place of its own among the descriptors.
LEMMA RoundKeeps ==
  ASSUME IInv, dancer'.phase \in {"round", "pipe"},
         \A f \in Fds : dancer'.revents[f] \subseteq dancer.revents[f],
         \A f \in Fds \ {Pipe} : dancer.revents[f] # {} => place'[f] = place[f],
         \A s \in Sockets : s >= lastFD' => place'[s] = "none",
         \A s \in Sockets : "out" \in dancer'.revents[s] => sendBufs'[s] > 0 /\ sendReady'[s]
  PROVE  RoundInv'
<1>1. \A f \in Fds \ {Pipe} : dancer'.revents[f] # {} => place'[f] = "mapped"
  BY DEF IInv, RoundInv
<1>2. ASSUME NEW f \in Fds, "out" \in dancer'.revents[f]
      PROVE  f \in ToSend' /\ sendReady'[f]
  <2>1. f \in ToSend /\ f \in Sockets /\ f \in Fds \ {Pipe}
    BY <1>2, FdFacts DEF IInv, RoundInv, ToSend
  <2>. QED
    BY <1>1, <1>2, <2>1 DEF ToSend, Mapped
<1>. QED
  BY <1>1, <1>2 DEF RoundInv

LEMMA PipeKeeps ==
  ASSUME IInv, pipe' = pipe, dancer.phase # "ended", dancer'.phase \notin {"ended", "pipe"},
         "in" \in dancer'.revents[Pipe] => "in" \in dancer.revents[Pipe],
         dancer'.cleanup = dancer.cleanup, ToHandle # {} \/ dancer.messages # <<>>
  PROVE  PipeInv'
BY DEF IInv, PipeInv

\* A socket that the dancer gave up is in order: a message says so.
LEMMA SocketFails ==
  ASSUME NEW s \in Sockets, SocketOK(s), net'[s] = net[s], waiting'[s] = waiting[s],
         peer'[s] = peer[s], room'[s] = room[s], sendReady'[s] = sendReady[s],
         "in" \notin dancer'.revents[s], Failing(s)'
  PROVE  SocketOK(s)'
BY DEF SocketOK

\* A descriptor is given up.
LEMMA FailedKeeps ==
  ASSUME IInv, NEW f \in Fds \ {Pipe}, dancer.phase = "round", dancer.revents[f] # {},
         f \in Sockets => peer[f] # "open", dancer' = Failed(f),
         UNCHANGED <<pipe, lastFD, place, socketVars, errno>>
  PROVE  IInv'
<1>. DEFINE m == [msg |-> "fail", fd |-> f]
<1>1. m \in Messages /\ m.msg = "fail" /\ m.fd = f /\ <<m>> \in Seq(Messages)
  BY DEF Messages
<1>. HIDE DEF m
<1>2. TypeOK /\ dancer.messages \in Seq(Messages) /\ place[f] = "mapped"
  BY DEF IInv, TypeOK, RoundInv
<1>3. dancer' = Step("round", f, {"in", "out"}, <<m>>)
  BY DEF Failed, m
<1>4. /\ dancer' \in DancerType /\ dancer'.phase = "round" /\ dancer'.cleanup = dancer.cleanup
      /\ dancer'.messages = dancer.messages \o <<m>> /\ dancer'.revents[f] = dancer.revents[f] \ {"in", "out"}
      /\ \A g \in Fds : g # f => dancer'.revents[g] = dancer.revents[g]
      /\ \A g \in Fds : dancer'.revents[g] \subseteq dancer.revents[g]
  <2>. DEFINE seen == {"in", "out"}
              q == <<m>>
  <2>1. "round" \in Phases /\ f \in Fds /\ q \in Seq(Messages)
        /\ dancer' = Step("round", f, seen, q)
    BY <1>1, <1>3 DEF Phases
  <2>. HIDE DEF seen, q
  <2>2. /\ dancer' \in DancerType /\ dancer'.phase = "round" /\ dancer'.cleanup = dancer.cleanup
        /\ dancer'.messages = dancer.messages \o q /\ dancer'.revents[f] = dancer.revents[f] \ seen
        /\ \A g \in Fds : g # f => dancer'.revents[g] = dancer.revents[g]
        /\ \A g \in Fds : dancer'.revents[g] \subseteq dancer.revents[g]
    BY <1>2, <2>1, StepFacts
  <2>. QED
    BY <2>2 DEF seen, q
<1>5. TypeOK'
  BY <1>2, <1>4, OnlyDancer
<1>6. /\ dancer'.messages = Append(dancer.messages, m)
      /\ \A i \in DOMAIN dancer'.messages :
           \/ i \in DOMAIN dancer.messages /\ dancer'.messages[i] = dancer.messages[i]
           \/ i = Len(dancer.messages) + 1 /\ dancer'.messages[i] = m
      /\ Len(dancer.messages) + 1 \in DOMAIN dancer'.messages
      /\ dancer'.messages[Len(dancer.messages) + 1] = m
      /\ \A i \in DOMAIN dancer.messages : i \in DOMAIN dancer'.messages
                                           /\ dancer'.messages[i] = dancer.messages[i]
  BY <1>1, <1>2, <1>4, AppendToQueue
<1>7. MessageInv'
  <2>1. ASSUME NEW l \in Messages, Queued(l) PROVE Queued(l)'
    BY <2>1 DEF Queued
  <2>2. ASSUME NEW l \in Messages, l.msg = "fail", l.fd = f PROVE Queued(l)'
    BY <1>2, <2>2 DEF Queued
  <2>3. ASSUME NEW i \in DOMAIN dancer'.messages, NEW l, l = dancer'.messages[i] PROVE Queued(l)'
    <3>1. CASE i \in DOMAIN dancer.messages /\ l = dancer.messages[i]
      <4>1. l \in Messages /\ Queued(l)
        BY <1>2, <3>1 DEF IInv, MessageInv
      <4>. QED
        BY <2>1, <4>1
    <3>2. CASE l = m
      BY <1>1, <2>2, <3>2
    <3>. QED
      BY <1>6, <2>3, <3>1, <3>2
  <2>4. ASSUME NEW i \in DOMAIN pipe.data, NEW l, l = pipe.data[i] PROVE Queued(l)' /\ l.msg # "fail"
    <3>1. l \in Messages /\ Queued(l) /\ l.msg # "fail"
      BY <2>4 DEF IInv, MessageInv, TypeOK
    <3>. QED
      BY <2>1, <3>1
  <2>5. AddedOnce(dancer.messages)'
    BY <1>1, <1>6 DEF IInv, MessageInv, AddedOnce
  <2>6. \A i \in DOMAIN pipe.data, j \in DOMAIN dancer'.messages :
          pipe.data[i].msg = "add" /\ dancer'.messages[j].msg = "add" => pipe.data[i].fd # dancer'.messages[j].fd
    BY <1>1, <1>6 DEF IInv, MessageInv
  <2>7. ASSUME NEW s \in Sockets
        PROVE  Cardinality(OfData(s, dancer.messages))' = Cardinality(OfData(s, dancer.messages))
    <3>1. Cardinality(OfData(s, Append(dancer.messages, m))) = Cardinality(OfData(s, dancer.messages)) + 0
      BY <1>1, <1>2, CountOfAppend
    <3>2. Cardinality(OfData(s, dancer.messages)) \in Nat
      BY <1>2, CountType
    <3>3. OfData(s, dancer'.messages) = OfData(s, Append(dancer.messages, m))
      BY <1>6, Zenon
    <3>4. OfData(s, dancer'.messages) = OfData(s, dancer.messages)'
      BY DEF OfData
    <3>. QED
      BY <3>1, <3>2, <3>3, <3>4
  <2>8. \A s \in Sockets : sendBufs'[s] + Cardinality(OfData(s, pipe.data))'
                             + Cardinality(OfData(s, dancer.messages))' <= MaxBufs
    BY <2>7 DEF IInv, MessageInv, OfData
  <2>9. \A i \in DOMAIN pipe'.data : Queued(pipe.data[i])' /\ pipe'.data[i].msg # "fail"
    BY <2>4
  <2>10. \A i \in DOMAIN dancer'.messages : Queued(dancer.messages[i])'
    BY <2>3
  <2>11. AddedOnce(pipe.data)'
    BY DEF IInv, MessageInv, AddedOnce
  <2>. QED
    BY <2>5, <2>6, <2>8, <2>9, <2>10, <2>11 DEF MessageInv
<1>8. PipeInv'
  <2>1. ToHandle # {} /\ Pipe \in Fds /\ Pipe # f
    BY FdFacts DEF ToHandle
  <2>. QED
    BY <1>4, <2>1, PipeKeeps
<1>9. RoundInv'
  <2>1. \A s \in Sockets : s >= lastFD' => place'[s] = "none"
    BY DEF IInv, RoundInv
  <2>2. \A s \in Sockets : "out" \in dancer'.revents[s] => sendBufs'[s] > 0 /\ sendReady'[s]
    BY <1>4, FdFacts DEF IInv, RoundInv, ToSend
  <2>. QED
    BY <1>4, <2>1, <2>2, RoundKeeps
<1>10. SocketInv'
  <2>. SUFFICES ASSUME NEW s \in Sockets, SocketOK(s) PROVE SocketOK(s)'
    BY DEF IInv, SocketInv
  <2>1. Failing(s) => Failing(s)'
    BY <1>6 DEF Failing
  <2>2. CASE s # f
    <3>1. dancer'.revents[s] = dancer.revents[s]
      BY <1>4, <2>2, FdFacts
    <3>. QED
      BY <2>1, <3>1, SocketStays
  <2>3. CASE s = f
    <3>1. Failing(s)' /\ "in" \notin dancer'.revents[s]
      BY <1>4, <1>6, <2>3 DEF Failing, m
    <3>. QED
      BY <3>1, SocketFails
  <2>. QED
    BY <2>2, <2>3
<1>. QED
  BY <1>5, <1>7, <1>8, <1>9, <1>10 DEF IInv

-----------------------------------------------------------------------------
(* The dancer: poll.                                                       *)

\* A step of poll that changes neither descriptors nor messages, and is told of no input.
LEMMA PollKeeps ==
  ASSUME IInv, UNCHANGED <<pipe, lastFD, place, socketVars, errno>>, dancer' \in DancerType,
         dancer'.messages = dancer.messages, PipeInv', RoundInv',
         \A s \in Sockets : "in" \in dancer'.revents[s] <=> "in" \in dancer.revents[s]
  PROVE  IInv'
<1>1. TypeOK'
  BY OnlyDancer DEF IInv
<1>2. MessageInv'
  <2>1. \A s \in Sockets : sendBufs'[s] \in Nat /\ sendBufs'[s] <= sendBufs[s]
    BY FdFacts DEF IInv, TypeOK
  <2>. QED
    BY <2>1, MessagesStay DEF IInv
<1>3. SocketInv'
  BY SocketStays DEF IInv, SocketInv, Failing
<1>. QED
  BY <1>1, <1>2, <1>3 DEF IInv

LEMMA DancerTyped == ASSUME IInv PROVE dancer \in DancerType
BY DEF IInv, TypeOK, DancerType

LEMMA PollCollectKeeps == ASSUME IInv, PollCollect PROVE IInv'
<1>. DEFINE r == [f \in Fds |-> IF f \in ToSend /\ sendReady[f] THEN {"out"} ELSE {}]
<1>1. r \in [Fds -> SUBSET {"in", "out"}]
  OBVIOUS
<1>2. \A f \in Fds : "in" \notin r[f] /\ ("out" \in r[f] <=> f \in ToSend /\ sendReady[f])
                     /\ (r[f] # {} => f \in ToSend)
  OBVIOUS
<1>. HIDE DEF r
<1>3. /\ dancer' = [dancer EXCEPT !.phase = "built", !.revents = r] /\ dancer.phase = "build"
      /\ UNCHANGED <<pipe, lastFD, place, socketVars, errno>>
  BY DEF PollCollect, r
<1>4. /\ dancer' \in DancerType /\ dancer'.phase = "built" /\ dancer'.revents = r
      /\ dancer'.messages = dancer.messages /\ dancer'.cleanup = dancer.cleanup
  BY <1>1, <1>3, DancerTyped DEF DancerType
<1>5. dancer.messages = <<>> /\ ~ dancer.cleanup /\ \A f \in Fds : "in" \notin dancer.revents[f]
  BY <1>3 DEF IInv, RoundInv
<1>6. Mapped' = Mapped /\ ToSend' = ToSend
  BY <1>3 DEF Mapped, ToSend
<1>7. PipeInv'
  BY <1>2, <1>3, <1>4, <1>5, FdFacts DEF IInv, PipeInv
<1>8. RoundInv'
  <2>1. \A f \in Fds \ {Pipe} : dancer'.revents[f] # {} => place'[f] = "mapped"
    BY <1>2, <1>3, <1>4 DEF ToSend, Mapped
  <2>2. \A s \in Sockets : s >= lastFD' => place'[s] = "none"
    BY <1>3 DEF IInv, RoundInv
  <2>3. ToSend \subseteq Sockets
    BY DEF ToSend
  <2>. QED
    BY <1>2, <1>3, <1>4, <1>5, <1>6, <2>1, <2>2, <2>3, FdFacts DEF RoundInv
<1>9. \A s \in Sockets : "in" \in dancer'.revents[s] <=> "in" \in dancer.revents[s]
  BY <1>2, <1>4, <1>5, FdFacts
<1>. QED
  BY <1>3, <1>4, <1>7, <1>8, <1>9, PollKeeps

\* A wait that fails.
LEMMA WaitFailedKeeps ==
  ASSUME IInv, dancer.phase \in {"built", "asleep"}, WaitFailed,
         pipe.event = "closed" \/ Cardinality(Handles) > MaxHandles,
         UNCHANGED <<pipe, lastFD, place, socketVars, errno>>
  PROVE  IInv'
<1>1. /\ dancer' \in DancerType /\ dancer'.phase = "round" /\ dancer'.revents = dancer.revents
      /\ dancer'.messages = dancer.messages /\ dancer'.cleanup = (ToHandle = {})
  BY DancerTyped DEF DancerType, WaitFailed
<1>2. dancer.messages = <<>> /\ ~ dancer.cleanup /\ \A f \in Fds : "in" \notin dancer.revents[f]
  BY DEF IInv, RoundInv
<1>3. ToHandle' = ToHandle /\ Handles' = Handles
  BY <1>1 DEF ToHandle, Handles, Mapped
<1>4. dancer'.cleanup => ToHandle = {}
  BY <1>1
<1>5. PipeInv'
  BY <1>1, <1>2, <1>3, <1>4, FdFacts DEF IInv, PipeInv
<1>6. RoundInv'
  <2>1. \A s \in Sockets : s >= lastFD' => place'[s] = "none"
    BY DEF IInv, RoundInv
  <2>2. \A s \in Sockets : "out" \in dancer'.revents[s] => sendBufs'[s] > 0 /\ sendReady'[s]
    BY <1>1, FdFacts DEF IInv, RoundInv, ToSend
  <2>. QED
    BY <1>1, <2>1, <2>2, RoundKeeps
<1>. QED
  BY <1>1, <1>5, <1>6, PollKeeps

\* A wait that an event ends.
LEMMA WakesKeeps ==
  ASSUME IInv, dancer.phase \in {"built", "asleep"}, Wakes,
         UNCHANGED <<pipe, lastFD, place, socketVars, errno>>
  PROVE  IInv'
<1>1. Min(Signalled) \in Fds
  <2>1. Signalled \subseteq Fds /\ Signalled \subseteq Nat /\ Signalled # {}
    BY FdFacts DEF Signalled, Handles, Mapped, Wakes
  <2>. QED
    BY <2>1, MinFacts
<1>2. /\ dancer' \in DancerType /\ dancer'.phase = "check" /\ dancer'.revents = dancer.revents
      /\ dancer'.messages = dancer.messages /\ dancer'.cleanup = dancer.cleanup
  BY <1>1, DancerTyped DEF DancerType, Wakes
<1>3. dancer.messages = <<>> /\ ~ dancer.cleanup /\ \A f \in Fds : "in" \notin dancer.revents[f]
  BY DEF IInv, RoundInv
<1>4. ToSend' = ToSend
  BY DEF ToSend, Mapped
<1>5. PipeInv'
  BY <1>2, <1>3, FdFacts DEF IInv, PipeInv
<1>6. RoundInv'
  BY <1>2, <1>3, <1>4 DEF IInv, RoundInv
<1>. QED
  BY <1>2, <1>5, <1>6, PollKeeps

LEMMA PollWaitKeeps == ASSUME IInv, PollWait PROVE IInv'
<1>1. dancer.phase = "built" /\ UNCHANGED <<pipe, lastFD, place, socketVars, errno>>
  BY DEF PollWait
<1>2. CASE pipe.event = "closed" \/ Cardinality(Handles) > MaxHandles
  <2>1. WaitFailed
    BY <1>2 DEF PollWait
  <2>. QED
    BY <1>1, <1>2, <2>1, WaitFailedKeeps
<1>3. CASE Wakes
  BY <1>1, <1>3, WakesKeeps
<1>4. CASE dancer' = [dancer EXCEPT !.phase = IF ToHandle = {} THEN "asleep" ELSE "round"]
  <2>1. /\ dancer' \in DancerType /\ dancer'.phase = (IF ToHandle = {} THEN "asleep" ELSE "round")
        /\ dancer'.messages = dancer.messages /\ dancer'.cleanup = dancer.cleanup
        /\ dancer'.revents = dancer.revents
    BY <1>4, DancerTyped DEF DancerType
  <2>2. dancer.messages = <<>> /\ ~ dancer.cleanup /\ \A f \in Fds : "in" \notin dancer.revents[f]
    BY <1>1 DEF IInv, RoundInv
  <2>3. ToSend' = ToSend /\ ToHandle' = ToHandle
    BY <1>1, <2>1 DEF ToSend, Mapped, ToHandle
  <2>4. PipeInv'
    BY <1>1, <2>1, <2>2, FdFacts DEF IInv, PipeInv
  <2>5. RoundInv'
    BY <1>1, <2>1, <2>2, <2>3 DEF IInv, RoundInv
  <2>. QED
    BY <1>1, <2>1, <2>4, <2>5, PollKeeps
<1>. QED
  BY <1>2, <1>3, <1>4 DEF PollWait

LEMMA PollWakeKeeps == ASSUME IInv, PollWake PROVE IInv'
BY WakesKeeps DEF PollWake

LEMMA PollBrokenKeeps == ASSUME IInv, PollBroken PROVE IInv'
BY WaitFailedKeeps DEF PollBroken

LEMMA PollCheckKeeps == ASSUME IInv, PollCheck PROVE IInv'
<1>. DEFINE found == {f \in Handles : f >= dancer.first /\
                       (f \in Signalled \/ (f = Pipe /\ pipe.event = "closed"))}
            input(f) == f \in found /\
                       (f = Pipe \/ net[f].record \cap {"accept", "read", "close"} # {})
            output == {s \in Sockets \cap found : "write" \in net[s].record}
            r == [f \in Fds |-> dancer.revents[f] \cup (IF input(f) THEN {"in"} ELSE {})
                                 \cup (IF f \in output \cap ToSend THEN {"out"} ELSE {})]
<1>1. /\ dancer.phase = "check"
      /\ net' = [f \in Fds \ {Pipe} |-> IF f \in found THEN Enumerated(net[f]) ELSE net[f]]
      /\ sendReady' = [s \in Sockets |-> sendReady[s] \/ s \in output]
      /\ dancer' = [dancer EXCEPT !.phase = "round", !.revents = r]
      /\ UNCHANGED <<pipe, lastFD, place, sendBufs, waiting, peer, room, errno>>
  BY DEF PollCheck, Remembered
<1>2. dancer \in DancerType /\ dancer.messages = <<>> /\ ~ dancer.cleanup
      /\ \A f \in Fds : dancer.revents[f] \in SUBSET {"in", "out"} /\ "in" \notin dancer.revents[f]
  BY <1>1, DancerTyped DEF IInv, RoundInv, DancerType
<1>3. r \in [Fds -> SUBSET {"in", "out"}]
      /\ \A f \in Fds : /\ "in" \in r[f] <=> input(f)
                        /\ "out" \in r[f] <=> "out" \in dancer.revents[f] \/ f \in output \cap ToSend
                        /\ r[f] # {} => dancer.revents[f] # {} \/ input(f) \/ f \in output \cap ToSend
  <2>. HIDE DEF input, output
  <2>. QED
    BY <1>2
<1>4. /\ found \subseteq Handles /\ output \subseteq Sockets \cap found
      /\ \A f \in found : f = Pipe \/ place[f] = "mapped"
      /\ Pipe \in found => pipe.event \in {"set", "closed"}
      /\ \A f \in found : f # Pipe => f \in Fds \ {Pipe}
  BY DEF Handles, Mapped, Signalled
<1>5. /\ \A s \in Sockets : s \in output <=> s \in found /\ "write" \in net[s].record
      /\ \A s \in Sockets : input(s) <=> s \in found /\ net[s].record \cap {"accept", "read", "close"} # {}
      /\ \A f \in Fds : input(f) => f \in found
  BY FdFacts
<1>. HIDE DEF found, input, output, r
<1>6. /\ dancer' \in DancerType /\ dancer'.phase = "round" /\ dancer'.revents = r
      /\ dancer'.messages = dancer.messages /\ dancer'.cleanup = dancer.cleanup
  BY <1>1, <1>2, <1>3 DEF DancerType
<1>7. ASSUME NEW n \in NetType
      PROVE  Enumerated(n) \in NetType /\ Enumerated(n).event = FALSE
             /\ Enumerated(n).record = {} /\ Enumerated(n).armed = n.armed
  BY DEF Enumerated, NetType
<1>8. /\ \A f \in Fds \ {Pipe} : net[f] \in NetType /\ (f \notin found => net'[f] = net[f])
                                 /\ (f \in found => net'[f] = Enumerated(net[f]))
      /\ net' \in [Fds \ {Pipe} -> NetType]
  <2>1. \A f \in Fds \ {Pipe} : net[f] \in NetType
    BY DEF IInv, TypeOK, NetType
  <2>. QED
    BY <1>1, <1>7, <2>1
<1>9. /\ sendReady' \in [Sockets -> BOOLEAN]
      /\ \A s \in Sockets : sendReady'[s] <=> sendReady[s] \/ s \in output
  <2>1. \A s \in Sockets : sendReady'[s] = (sendReady[s] \/ s \in output)
    BY <1>1
  <2>2. sendReady' \in [Sockets -> BOOLEAN]
    BY <1>1
  <2>. QED
    BY <2>1, <2>2, Zenon
<1>10. TypeOK'
  BY <1>1, <1>6, <1>8, <1>9 DEF IInv, TypeOK, DancerType, NetType
<1>11. Handles' = Handles /\ ToSend' = ToSend
  BY <1>1 DEF Handles, Mapped, ToSend
<1>12. PipeInv'
  <2>1. "in" \in dancer'.revents[Pipe] => pipe.event \in {"set", "closed"}
    BY <1>3, <1>4, <1>5, <1>6, FdFacts
  <2>. QED
    BY <1>1, <1>2, <1>6, <2>1 DEF IInv, PipeInv
<1>13. MessageInv'
  <2>1. \A s \in Sockets : sendBufs'[s] \in Nat /\ sendBufs'[s] <= sendBufs[s]
    BY <1>1, FdFacts DEF IInv, TypeOK
  <2>. QED
    BY <1>1, <1>6, <2>1, MessagesStay DEF IInv
<1>14. RoundInv'
  <2>1. \A f \in Fds \ {Pipe} : dancer'.revents[f] # {} => place'[f] = "mapped"
    BY <1>1, <1>3, <1>4, <1>5, <1>6 DEF IInv, RoundInv
  <2>2. \A f \in Fds : "out" \in dancer'.revents[f] => f \in ToSend' /\ sendReady'[f]
    <3>. SUFFICES ASSUME NEW f \in Fds, "out" \in dancer'.revents[f] PROVE f \in ToSend' /\ sendReady'[f]
      OBVIOUS
    <3>1. "out" \in dancer.revents[f] \/ f \in output \cap ToSend
      BY <1>3, <1>6
    <3>2. f \in ToSend /\ (sendReady[f] \/ f \in output)
      BY <3>1 DEF IInv, RoundInv
    <3>3. f \in Sockets
      BY <3>2 DEF ToSend
    <3>. QED
      BY <1>9, <1>11, <3>2, <3>3
  <2>3. \A s \in Sockets : s >= lastFD' => place'[s] = "none"
    BY <1>1 DEF IInv, RoundInv
  <2>. QED
    BY <1>6, <2>1, <2>2, <2>3 DEF RoundInv
<1>15. SocketInv'
  <2>. SUFFICES ASSUME NEW s \in Sockets, SocketOK(s) PROVE SocketOK(s)'
    BY <1>1 DEF IInv, SocketInv
  <2>1. s \in Fds \ {Pipe} /\ (Failing(s)' <=> Failing(s)) /\ net[s] \in NetType
        /\ waiting'[s] = waiting[s] /\ peer'[s] = peer[s] /\ room'[s] = room[s]
        /\ "in" \notin dancer.revents[s] /\ ("in" \in dancer'.revents[s] <=> input(s))
    BY <1>1, <1>2, <1>3, <1>6, <1>8, FdFacts DEF Failing
  <2>2. CASE s \notin found
    <3>1. ~ input(s) /\ net'[s] = net[s] /\ (sendReady'[s] <=> sendReady[s])
      BY <1>5, <1>8, <1>9, <2>1, <2>2
    <3>. QED
      BY <2>1, <3>1 DEF SocketOK
  <2>3. CASE s \in found
    <3>1. /\ net'[s].event = FALSE /\ net'[s].record = {} /\ net'[s].armed = net[s].armed
      <4>1. net'[s] = Enumerated(net[s])
        BY <1>8, <2>1, <2>3
      <4>2. Enumerated(net[s]).event = FALSE /\ Enumerated(net[s]).record = {}
            /\ Enumerated(net[s]).armed = net[s].armed
        BY <1>7, <2>1
      <4>. QED
        BY <4>1, <4>2
    <3>2. /\ input(s) <=> net[s].record \cap {"accept", "read", "close"} # {}
          /\ sendReady'[s] <=> sendReady[s] \/ "write" \in net[s].record
      BY <1>5, <1>9, <2>3
    <3>. QED
      BY <2>1, <3>1, <3>2 DEF SocketOK
  <2>. QED
    BY <2>2, <2>3
<1>. QED
  BY <1>10, <1>12, <1>13, <1>14, <1>15 DEF IInv

-----------------------------------------------------------------------------
(* The dancer: the pipe and the listener.                                  *)

LEMMA PipeIoctlKeeps == ASSUME IInv, PipeIoctl PROVE IInv'
<1>1. /\ dancer.phase = "round" /\ "in" \in dancer.revents[Pipe] /\ Pipe \in Fds
      /\ UNCHANGED <<pipe, lastFD, place, socketVars, errno>> /\ Pipe \in ToHandle
  BY FdFacts DEF PipeIoctl, Handling
<1>2. TypeOK /\ pipe.data \in Seq(Messages) /\ Len(pipe.data) \in Nat /\ (pipe.data # <<>> => Len(pipe.data) > 0)
  BY DEF IInv, TypeOK
<1>3. \A s \in Sockets : s >= lastFD' => place'[s] = "none"
  BY <1>1 DEF IInv, RoundInv
<1>4. /\ dancer' \in DancerType /\ dancer'.phase \in {"round", "pipe"}
      /\ dancer'.messages = dancer.messages /\ dancer'.revents[Pipe] \subseteq dancer.revents[Pipe]
      /\ \A g \in Fds : g # Pipe => dancer'.revents[g] = dancer.revents[g]
      /\ dancer'.phase = "pipe" => /\ pipe.data # <<>> /\ "in" \in dancer'.revents[Pipe]
                                   /\ dancer'.ready = Len(pipe.data)
                                   /\ dancer'.cleanup = dancer.cleanup
      /\ dancer'.phase = "round" => pipe.data = <<>>
  <2>1. CASE pipe.data = <<>>
    <3>1. dancer' = [Step("round", Pipe, {"in"}, <<>>) EXCEPT !.cleanup = TRUE]
      BY <2>1 DEF PipeIoctl
    <3>2. dancer.messages \o <<>> = dancer.messages
      BY <1>2 DEF TypeOK
    <3>. QED
      BY <1>1, <2>1, <3>1, <3>2, DancerTyped DEF Step, DancerType
  <2>2. CASE pipe.data # <<>>
    <3>1. dancer' = [dancer EXCEPT !.phase = "pipe", !.ready = Len(pipe.data)]
      BY <2>2 DEF PipeIoctl
    <3>. QED
      BY <1>1, <1>2, <2>2, <3>1, DancerTyped DEF DancerType
  <2>. QED
    BY <2>1, <2>2
<1>5. \A s \in Sockets : dancer'.revents[s] = dancer.revents[s] /\ sendBufs'[s] = sendBufs[s]
                         /\ sendReady'[s] = sendReady[s]
  BY <1>1, <1>4, FdFacts
<1>6. PipeInv'
  <2>1. CASE dancer'.phase = "pipe"
    BY <1>1, <1>2, <1>4, <2>1 DEF IInv, PipeInv
  <2>2. CASE dancer'.phase = "round"
    BY <1>1, <1>4, <2>2 DEF IInv, PipeInv
  <2>. QED
    BY <1>4, <2>1, <2>2
<1>7. RoundInv'
  <2>1. \A s \in Sockets : "out" \in dancer'.revents[s] => sendBufs'[s] > 0 /\ sendReady'[s]
    BY <1>5, FdFacts DEF IInv, RoundInv, ToSend
  <2>2. \A f \in Fds : dancer'.revents[f] \subseteq dancer.revents[f]
    BY <1>4
  <2>3. \A f \in Fds \ {Pipe} : dancer.revents[f] # {} => place'[f] = place[f]
    BY <1>1
  <2>. QED
    BY <1>3, <1>4, <2>1, <2>2, <2>3, RoundKeeps
<1>8. \A s \in Sockets : "in" \in dancer'.revents[s] <=> "in" \in dancer.revents[s]
  BY <1>5
<1>. QED
  BY <1>1, <1>4, <1>6, <1>7, <1>8, PollKeeps

\* The dancer takes what was in the pipe when it asked.
LEMMA PipeReadKeeps == ASSUME IInv, PipeRead PROVE IInv'
<1>. DEFINE k == dancer.ready
            q == pipe.data
            taken == SubSeq(q, 1, k)
            rest == SubSeq(q, k + 1, Len(q))
<1>1. /\ dancer.phase = "pipe" /\ UNCHANGED <<lastFD, place, socketVars, errno>>
      /\ pipe' = [pipe EXCEPT !.data = rest, !.event = EventLeft(rest)]
      /\ dancer' = [Step("round", Pipe, {"in"}, taken) EXCEPT !.ready = 0]
  BY DEF PipeRead
<1>2. /\ TypeOK /\ q \in Seq(Messages) /\ dancer.messages \in Seq(Messages) /\ Len(q) \in Nat /\ q # <<>>
      /\ k \in 1 .. Len(q) /\ k \in 0 .. Len(q) /\ "in" \in dancer.revents[Pipe]
  BY <1>1 DEF IInv, TypeOK, PipeInv
<1>3. /\ taken \in Seq(Messages) /\ Len(taken) = k /\ \A i \in 1 .. k : taken[i] = q[i]
      /\ rest \in Seq(Messages) /\ Len(rest) = Len(q) - k /\ \A i \in 1 .. Len(q) - k : rest[i] = q[k + i]
      /\ taken \o rest = q
  BY <1>2, SplitQueue
<1>. HIDE DEF k, taken, rest, q
<1>4. /\ DOMAIN q = 1 .. Len(q) /\ DOMAIN taken = 1 .. k /\ DOMAIN rest = 1 .. Len(q) - k
      /\ rest = <<>> <=> k = Len(q)
  <2>1. DOMAIN q = 1 .. Len(q) /\ DOMAIN taken = 1 .. Len(taken) /\ DOMAIN rest = 1 .. Len(rest)
    BY <1>2, <1>3
  <2>2. rest = <<>> <=> Len(rest) = 0
    BY <1>3, EmptySeq
  <2>3. Len(rest) = 0 <=> k = Len(q)
    BY <1>2, <1>3
  <2>. QED
    BY <1>3, <2>1, <2>2, <2>3
<1>18. k \in Nat /\ Len(q) \in Nat /\ Len(q) - k \in Nat /\ DOMAIN rest \subseteq Nat
  <2>1. Len(q) \in Nat /\ k \in 1 .. Len(q)
    BY <1>2
  <2>2. k \in Nat /\ Len(q) - k \in Nat
    BY <2>1
  <2>3. DOMAIN rest = 1 .. Len(q) - k
    BY <1>4
  <2>. QED
    BY <2>1, <2>2, <2>3
<1>5. /\ pipe'.data = rest /\ pipe'.writable = pipe.writable /\ pipe'.event = EventLeft(rest)
      /\ pipe' \in [data : Seq(Messages), event : {"reset", "set", "closed"}, writable : BOOLEAN]
  BY <1>1, <1>2, <1>3 DEF TypeOK, EventLeft
<1>. DEFINE ms == dancer.messages
            all == ms \o taken
<1>6. /\ all \in Seq(Messages) /\ Len(all) = Len(ms) + k /\ DOMAIN all = 1 .. Len(ms) + k
      /\ Len(ms) \in Nat /\ DOMAIN ms = 1 .. Len(ms)
      /\ \A i \in 1 .. Len(ms) + k : all[i] = IF i <= Len(ms) THEN ms[i] ELSE taken[i - Len(ms)]
  <2>1. Len(ms) \in Nat /\ DOMAIN ms = 1 .. Len(ms) /\ ms \in Seq(Messages) /\ taken \in Seq(Messages)
    BY <1>2, <1>3
  <2>. HIDE DEF ms
  <2>2. /\ all \in Seq(Messages) /\ Len(all) = Len(ms) + Len(taken)
        /\ \A i \in 1 .. Len(ms) + Len(taken) : all[i] = IF i <= Len(ms) THEN ms[i] ELSE taken[i - Len(ms)]
    BY <2>1, ConcatProperties, Zenon
  <2>3. DOMAIN all = 1 .. Len(all)
    BY <2>2
  <2>. HIDE DEF all
  <2>. QED
    BY <1>3, <2>1, <2>2, <2>3
<1>7. /\ dancer' \in DancerType /\ dancer'.phase = "round" /\ dancer'.messages = all
      /\ dancer'.cleanup = dancer.cleanup
      /\ dancer'.revents[Pipe] = dancer.revents[Pipe] \ {"in"}
      /\ \A g \in Fds : g # Pipe => dancer'.revents[g] = dancer.revents[g]
  <2>. HIDE DEF all
  <2>1. dancer' = [dancer EXCEPT !.phase = "round", !.revents[Pipe] = @ \ {"in"}, !.messages = all, !.ready = 0]
    BY <1>1 DEF Step, all
  <2>. QED
    BY <1>6, <2>1, DancerTyped, FdFacts DEF DancerType
<1>8. \A s \in Sockets : dancer'.revents[s] = dancer.revents[s] /\ sendBufs'[s] = sendBufs[s]
                         /\ sendReady'[s] = sendReady[s]
  BY <1>1, <1>7, FdFacts
\* Each message of the new queue of the dancer is an old one or one of the pipe.
<1>9. \A i \in DOMAIN all :
        \/ i <= Len(ms) /\ i \in DOMAIN ms /\ all[i] = ms[i]
        \/ i > Len(ms) /\ i - Len(ms) \in DOMAIN q /\ i - Len(ms) <= k /\ all[i] = q[i - Len(ms)]
  <2>. SUFFICES ASSUME NEW i \in 1 .. Len(ms) + k
       PROVE \/ i <= Len(ms) /\ i \in 1 .. Len(ms) /\ all[i] = ms[i]
             \/ i > Len(ms) /\ i - Len(ms) \in 1 .. Len(q) /\ i - Len(ms) <= k /\ all[i] = q[i - Len(ms)]
    BY <1>4, <1>6
  <2>1. i > Len(ms) => i - Len(ms) \in 1 .. k
    BY <1>2, <1>6
  <2>. HIDE DEF all, ms, q
  <2>. QED
    BY <1>2, <1>3, <1>6, <2>1
<1>10. \A i \in DOMAIN rest : k + i \in DOMAIN q /\ k + i > k /\ rest[i] = q[k + i]
  BY <1>2, <1>3, <1>4
<1>11. \A i \in DOMAIN ms : i \in DOMAIN all /\ all[i] = ms[i]
  BY <1>2, <1>6
<1>12. ASSUME NEW f PROVE Cardinality(OfData(f, rest)) + Cardinality(OfData(f, all))
                            = Cardinality(OfData(f, q)) + Cardinality(OfData(f, ms))
  <2>1. /\ Cardinality(OfData(f, taken \o rest)) = Cardinality(OfData(f, taken)) + Cardinality(OfData(f, rest))
        /\ Cardinality(OfData(f, ms \o taken)) = Cardinality(OfData(f, ms)) + Cardinality(OfData(f, taken))
    BY <1>2, <1>3, CountOfConcat
  <2>2. /\ Cardinality(OfData(f, taken)) \in Nat /\ Cardinality(OfData(f, rest)) \in Nat
        /\ Cardinality(OfData(f, ms)) \in Nat
    BY <1>2, <1>3, CountType
  <2>3. Cardinality(OfData(f, q)) = Cardinality(OfData(f, taken \o rest))
    BY <1>3, Zenon
  <2>. QED
    BY <2>1, <2>2, <2>3
<1>. HIDE DEF ms, all, q
<1>13. TypeOK'
  BY <1>1, <1>2, <1>5, <1>7 DEF TypeOK, DancerType
<1>14. MessageInv'
  <2>1. ASSUME NEW l \in Messages, Queued(l) PROVE Queued(l)'
    BY <1>1, <2>1 DEF Queued
  <2>2. /\ \A i \in DOMAIN q : q[i] \in Messages /\ Queued(q[i]) /\ q[i].msg # "fail"
        /\ \A i \in DOMAIN ms : ms[i] \in Messages /\ Queued(ms[i])
    BY <1>2 DEF IInv, MessageInv, q, ms
  <2>3. AddedOnce(q) /\ AddedOnce(ms) /\ \A i \in DOMAIN q, j \in DOMAIN ms :
          q[i].msg = "add" /\ ms[j].msg = "add" => q[i].fd # ms[j].fd
    BY DEF IInv, MessageInv, q, ms
  <2>4. ASSUME NEW i \in DOMAIN rest, NEW l, l = rest[i] PROVE Queued(l)' /\ l.msg # "fail"
    <3>1. l \in Messages /\ Queued(l) /\ l.msg # "fail"
      BY <1>10, <2>2, <2>4
    <3>. QED
      BY <2>1, <3>1
  <2>5. ASSUME NEW i \in DOMAIN all, NEW l, l = all[i] PROVE Queued(l)'
    <3>1. l \in Messages /\ Queued(l)
      BY <1>9, <2>2, <2>5
    <3>. QED
      BY <2>1, <3>1
  <2>6. AddedOnce(rest)
    <3>. SUFFICES ASSUME NEW i \in DOMAIN rest, NEW j \in DOMAIN rest, rest[i].msg = "add",
                         rest[j].msg = "add", rest[i].fd = rest[j].fd
         PROVE  i = j
      BY DEF AddedOnce
    <3>1. k + i = k + j
      BY <1>10, <2>3 DEF AddedOnce
    <3>. QED
      BY <1>18, <3>1
  <2>7. AddedOnce(all)
    <3>. SUFFICES ASSUME NEW i \in DOMAIN all, NEW j \in DOMAIN all, all[i].msg = "add",
                         all[j].msg = "add", all[i].fd = all[j].fd
         PROVE  i = j
      BY DEF AddedOnce
    <3>1. CASE i <= Len(ms) /\ j <= Len(ms)
      BY <1>6, <1>9, <2>3, <3>1 DEF AddedOnce
    <3>2. CASE i > Len(ms) /\ j > Len(ms)
      <4>1. i - Len(ms) = j - Len(ms)
        BY <1>6, <1>9, <2>3, <3>2 DEF AddedOnce
      <4>. QED
        BY <1>6, <4>1
    <3>3. CASE i <= Len(ms) /\ j > Len(ms)
      BY <1>6, <1>9, <2>3, <3>3
    <3>4. CASE i > Len(ms) /\ j <= Len(ms)
      BY <1>6, <1>9, <2>3, <3>4
    <3>. QED
      BY <1>6, <3>1, <3>2, <3>3, <3>4
  <2>8. ASSUME NEW i \in DOMAIN rest, NEW j \in DOMAIN all, rest[i].msg = "add", all[j].msg = "add",
               rest[i].fd = all[j].fd
        PROVE  FALSE
    <3>1. k + i \in DOMAIN q /\ k + i > k /\ rest[i] = q[k + i]
      BY <1>10
    <3>2. CASE j \in DOMAIN ms /\ all[j] = ms[j]
      BY <2>3, <2>8, <3>1, <3>2
    <3>3. CASE j - Len(ms) \in DOMAIN q /\ j - Len(ms) <= k /\ all[j] = q[j - Len(ms)]
      <4>1. k + i = j - Len(ms)
        BY <2>3, <2>8, <3>1, <3>3 DEF AddedOnce
      <4>2. i \in Nat /\ j \in Nat /\ Len(ms) \in Nat
        BY <1>6, <1>18
      <4>. QED
        BY <1>18, <3>1, <3>3, <4>1, <4>2
    <3>. QED
      BY <1>9, <3>2, <3>3
  <2>9. ASSUME NEW s \in Sockets
        PROVE  sendBufs[s] + Cardinality(OfData(s, rest)) + Cardinality(OfData(s, all)) <= MaxBufs
    <3>1. sendBufs[s] + Cardinality(OfData(s, q)) + Cardinality(OfData(s, ms)) <= MaxBufs
      BY DEF IInv, MessageInv, q, ms
    <3>2. /\ Cardinality(OfData(s, q)) \in Nat /\ Cardinality(OfData(s, ms)) \in Nat /\ sendBufs[s] \in Nat
          /\ Cardinality(OfData(s, rest)) \in Nat /\ Cardinality(OfData(s, all)) \in Nat
      BY <1>2, <1>3, <1>6, CountType, FdFacts DEF TypeOK, q, ms
    <3>. QED
      BY <1>12, <3>1, <3>2
  <2>10. sendBufs' = sendBufs
    BY <1>1
  <2>11. \A i \in DOMAIN pipe'.data : Queued(pipe.data[i])' /\ pipe'.data[i].msg # "fail"
    BY <1>5, <2>4
  <2>12. \A i \in DOMAIN dancer'.messages : Queued(dancer.messages[i])'
    BY <1>7, <2>5
  <2>13. AddedOnce(pipe.data)' /\ AddedOnce(dancer.messages)'
    BY <1>5, <1>7, <2>6, <2>7 DEF AddedOnce
  <2>14. \A i \in DOMAIN pipe'.data, j \in DOMAIN dancer'.messages :
           pipe'.data[i].msg = "add" /\ dancer'.messages[j].msg = "add" =>
             pipe'.data[i].fd # dancer'.messages[j].fd
    BY <1>5, <1>7, <2>8
  <2>15. \A s \in Sockets : sendBufs'[s] + Cardinality(OfData(s, pipe.data))'
                              + Cardinality(OfData(s, dancer.messages))' <= MaxBufs
    BY <1>5, <1>7, <2>9, <2>10 DEF OfData
  <2>. QED
    BY <2>11, <2>12, <2>13, <2>14, <2>15 DEF MessageInv
<1>15. PipeInv'
  <2>1. pipe'.event = (IF pipe.event = "set" /\ rest = <<>> THEN "reset" ELSE pipe.event)
    BY <1>5 DEF EventLeft
  <2>. QED
    BY <1>1, <1>2, <1>5, <1>7, <2>1, FdFacts DEF IInv, PipeInv, q
<1>16. RoundInv'
  <2>1. \A s \in Sockets : "out" \in dancer'.revents[s] => sendBufs'[s] > 0 /\ sendReady'[s]
    BY <1>8, FdFacts DEF IInv, RoundInv, ToSend
  <2>2. \A f \in Fds : dancer'.revents[f] \subseteq dancer.revents[f]
    BY <1>7
  <2>3. \A f \in Fds \ {Pipe} : dancer.revents[f] # {} => place'[f] = place[f]
    BY <1>1
  <2>4. \A s \in Sockets : s >= lastFD' => place'[s] = "none"
    BY <1>1 DEF IInv, RoundInv
  <2>. QED
    BY <1>7, <2>1, <2>2, <2>3, <2>4, RoundKeeps
<1>17. SocketInv'
  <2>1. \A s \in Sockets : Failing(s) => Failing(s)'
    BY <1>7, <1>11 DEF Failing, ms
  <2>. QED
    BY <1>1, <1>8, <2>1, SocketStays DEF IInv, SocketInv
<1>. QED
  BY <1>13, <1>14, <1>15, <1>16, <1>17 DEF IInv

LEMMA AcceptFailsKeeps == ASSUME IInv, AcceptFails PROVE IInv'
<1>1. TheListener \in Fds \ {Pipe} /\ TheListener \notin Sockets /\ dancer.phase = "round"
      /\ dancer.revents[TheListener] # {}
  BY FdFacts DEF AcceptFails, Handling
<1>. QED
  BY <1>1, FailedKeeps DEF AcceptFails

\* A descriptor is handled, and nothing is added to the messages.
LEMMA HandledKeeps ==
  ASSUME IInv, TypeOK', SocketInv', pipe' = pipe, dancer'.messages = dancer.messages,
         dancer.phase # "ended", dancer'.phase = "round", dancer'.cleanup = dancer.cleanup,
         ToHandle # {}, \A f \in Fds : dancer'.revents[f] \subseteq dancer.revents[f],
         \A f \in Fds \ {Pipe} : place'[f] = place[f] \/ place[f] = "none",
         \A s \in Sockets : s >= lastFD' => place'[s] = "none",
         \A s \in Sockets : place[s] # "none" /\ peer[s] # "open" => peer'[s] # "open",
         \A s \in Sockets : sendBufs'[s] \in Nat /\ sendBufs'[s] <= sendBufs[s],
         \A s \in Sockets : "out" \in dancer'.revents[s] => sendBufs'[s] > 0 /\ sendReady'[s]
  PROVE  IInv'
<1>1. MessageInv'
  BY MessagesStay DEF IInv
<1>2. PipeInv'
  BY PipeKeeps, FdFacts
<1>3. RoundInv'
  <2>1. \A f \in Fds \ {Pipe} : dancer.revents[f] # {} => place'[f] = place[f]
    BY DEF IInv, RoundInv
  <2>. QED
    BY <2>1, RoundKeeps
<1>. QED
  BY <1>1, <1>2, <1>3 DEF IInv

\* What the dancer may send is ready to be sent.
LEMMA OutFacts ==
  ASSUME IInv
  PROVE  \A s \in Sockets : /\ s \in Fds \ {Pipe}
                            /\ "out" \in dancer.revents[s] => sendBufs[s] > 0 /\ sendReady[s]
                            /\ dancer.revents[s] # {} => place[s] = "mapped" /\ SocketOK(s)
                            /\ sendBufs[s] \in Nat /\ sendBufs[s] <= MaxBufs /\ waiting[s] \in Nat
                            /\ waiting[s] <= MaxIn /\ net[s] \in NetType /\ peer[s] \in Ends
BY FdFacts DEF IInv, RoundInv, ToSend, SocketInv, TypeOK, NetType

LEMMA AcceptKeeps ==
  ASSUME IInv, NEW s \in Sockets, NEW amount \in 0 .. MaxIn, NEW other \in Ends, Accept(s, amount, other)
  PROVE  IInv'
<1>. DEFINE l == TheListener
            n == Rearmed(net[l], "accept")
            h == Holding(waiting[l] - 1, "open")
<1>1. /\ Opened(s, amount, other) /\ UNCHANGED <<pipe, sendBufs, room, errno>> /\ dancer.phase = "round"
      /\ l \in ToHandle /\ waiting[l] > 0 /\ dancer' = Step("round", l, {"in"}, <<>>)
  BY DEF Accept, Handling
<1>2. /\ s \in Fds \ {Pipe} /\ l \in Fds \ {Pipe} /\ s # l /\ l \in Fds /\ l \notin Sockets
      /\ amount \in Nat /\ amount <= MaxIn /\ MaxBacklog \in Nat
  BY FdFacts
<1>3. /\ TypeOK /\ net[l] \in NetType /\ waiting[l] \in Nat /\ waiting[l] <= MaxBacklog
  BY <1>2 DEF IInv, TypeOK, NetType
<1>4. /\ n \in NetType /\ h \in SUBSET NetworkEvents
  BY <1>3 DEF NetType, NetworkEvents, Holding, Rearmed
<1>. HIDE DEF n, h
<1>5. Recorded(n, h) \in NetType
  BY <1>4, RecordedFacts
<1>6. /\ waiting' = [waiting EXCEPT ![s] = amount, ![l] = @ - 1]
      /\ DOMAIN net' = Fds \ {Pipe} /\ net' = [f \in DOMAIN net' |-> net'[f]]
  BY <1>3 DEF Accept, TypeOK
<1>7. /\ net'[s] = Select(amount, other) /\ waiting'[s] = amount
      /\ net'[l] = Recorded(n, h) /\ waiting'[l] = waiting[l] - 1
      /\ \A f \in Fds \ {Pipe} : f # s /\ f # l => net'[f] = net[f] /\ waiting'[f] = waiting[f]
  <2>1. net' = [net EXCEPT ![s] = Select(amount, other),
                   ![l] = Recorded(Rearmed(@, "accept"), h)]
    BY DEF Accept, h
  <2>2. DOMAIN net = Fds \ {Pipe} /\ DOMAIN waiting = Fds \ {Pipe}
    BY <1>3 DEF TypeOK
  <2>3. net'[s] = Select(amount, other)
        /\ \A f \in Fds \ {Pipe} : f # s /\ f # l => net'[f] = net[f]
    BY <1>2, <2>1, <2>2
  <2>4. net'[l] = Recorded(n, h)
    BY <1>2, <2>1, <2>2 DEF n
  <2>. QED
    BY <1>2, <1>6, <2>2, <2>3, <2>4
<1>. HIDE DEF l
<1>8. /\ dancer' \in DancerType /\ dancer'.phase = "round" /\ dancer'.cleanup = dancer.cleanup
      /\ dancer'.messages = dancer.messages
      /\ \A g \in Fds : g # l => dancer'.revents[g] = dancer.revents[g]
      /\ \A g \in Fds : dancer'.revents[g] \subseteq dancer.revents[g]
  <2>. DEFINE seen == {"in"}
              q == <<>>
  <2>1. "round" \in Phases /\ q \in Seq(Messages) /\ dancer' = Step("round", l, seen, q)
    BY <1>1, <1>3 DEF Phases, TypeOK
  <2>3. dancer.messages \o q = dancer.messages
    BY <1>3 DEF TypeOK
  <2>. HIDE DEF seen, q
  <2>2. /\ dancer' \in DancerType /\ dancer'.phase = "round" /\ dancer'.cleanup = dancer.cleanup
        /\ dancer'.messages = dancer.messages \o q
        /\ \A g \in Fds : g # l => dancer'.revents[g] = dancer.revents[g]
        /\ \A g \in Fds : dancer'.revents[g] \subseteq dancer.revents[g]
    BY <1>2, <1>3, <2>1, StepFacts
  <2>. QED
    BY <2>2, <2>3
<1>9. place[s] = "none"
  BY <1>1, <1>2, FdFacts DEF Opened, IInv, RoundInv, TypeOK
<1>10. dancer'.revents[s] = {}
  BY <1>2, <1>8, <1>9 DEF IInv, RoundInv
<1>11. SocketOK(s)' /\ place'[s] = "held" /\ net'[s] \in NetType
  BY <1>1, <1>7, <1>10, NewSocket
<1>12. TypeOK'
  <2>1. net' \in [Fds \ {Pipe} -> NetType]
    <3>1. \A f \in Fds \ {Pipe} : net'[f] \in NetType
      BY <1>3, <1>5, <1>7, <1>11 DEF TypeOK, NetType
    <3>. QED
      BY <1>6, <3>1
  <2>2. waiting' \in [Fds \ {Pipe} -> Nat]
    <3>1. \A f \in Fds \ {Pipe} : waiting'[f] \in Nat
      <4>1. waiting[l] - 1 \in Nat
        BY <1>1, <1>3
      <4>2. \A f \in Fds \ {Pipe} : f # s /\ f # l => waiting'[f] \in Nat
        BY <1>3, <1>7 DEF TypeOK
      <4>. QED
        BY <1>2, <1>7, <4>1, <4>2
    <3>2. DOMAIN waiting' = Fds \ {Pipe} /\ waiting' = [f \in DOMAIN waiting' |-> waiting'[f]]
      BY <1>3, <1>6 DEF TypeOK
    <3>. QED
      BY <3>1, <3>2
  <2>3. waiting'[TheListener] <= MaxBacklog /\ \A r \in Sockets : waiting'[r] <= MaxIn
    <3>1. waiting'[l] <= MaxBacklog
      BY <1>2, <1>3, <1>7
    <3>2. \A r \in Sockets : waiting'[r] <= MaxIn
      BY <1>2, <1>3, <1>7, FdFacts DEF TypeOK
    <3>. QED
      BY <3>1, <3>2 DEF l
  <2>4. /\ place' \in [Fds \ {Pipe} -> {"none", "held", "piped", "mapped", "closed"}]
        /\ peer' \in [Sockets -> Ends] /\ sendReady' \in [Sockets -> BOOLEAN] /\ lastFD' \in 2 .. MaxFd + 1
    BY <1>1, OpenedFacts
  <2>. QED
    BY <1>1, <1>3, <1>8, <2>1, <2>2, <2>3, <2>4 DEF TypeOK, NetType, DancerType
<1>13. \A r \in Sockets : r # s => place'[r] = place[r] /\ peer'[r] = peer[r] /\ sendReady'[r] = sendReady[r]
                                   /\ dancer'.revents[r] = dancer.revents[r] /\ r # l
                                   /\ net'[r] = net[r] /\ waiting'[r] = waiting[r]
  BY <1>1, <1>2, <1>7, <1>8, OpenedFacts, FdFacts
<1>14. SocketInv'
  <2>. SUFFICES ASSUME NEW r \in Sockets, r # s, place'[r] \in {"held", "piped", "mapped"} PROVE SocketOK(r)'
    BY <1>11 DEF SocketInv
  <2>1. SocketOK(r) /\ (Failing(r) => Failing(r)')
    BY <1>8, <1>13 DEF IInv, SocketInv, Failing
  <2>. QED
    BY <1>1, <1>13, <2>1, SocketStays
<1>15. \A r \in Sockets : "out" \in dancer'.revents[r] => sendBufs'[r] > 0 /\ sendReady'[r]
  BY <1>1, <1>10, <1>13, OutFacts
<1>16. /\ \A f \in Fds \ {Pipe} : place'[f] = place[f] \/ place[f] = "none"
       /\ \A r \in Sockets : r >= lastFD' => place'[r] = "none"
       /\ \A r \in Sockets : place[r] # "none" /\ peer[r] # "open" => peer'[r] # "open"
       /\ \A r \in Sockets : sendBufs'[r] \in Nat /\ sendBufs'[r] <= sendBufs[r]
  BY <1>1, <1>9, <1>13, OpenedFacts, OutFacts
<1>. QED
  BY <1>1, <1>8, <1>12, <1>14, <1>15, <1>16, HandledKeeps

-----------------------------------------------------------------------------
(* The dancer: clients.                                                    *)

LEMMA ClientIoctlKeeps == ASSUME IInv, NEW s \in Sockets, ClientIoctl(s) PROVE IInv'
<1>1. /\ dancer.phase = "round" /\ "in" \in dancer.revents[s] /\ s = Min(ToHandle) /\ s \in ToHandle
      /\ UNCHANGED <<pipe, lastFD, place, socketVars, errno>>
  BY DEF ClientIoctl, Handling
<1>2. /\ s \in Fds \ {Pipe} /\ SocketOK(s) /\ waiting[s] \in Nat
  BY <1>1, OutFacts
<1>3. CASE waiting[s] = 0
  <2>1. peer[s] # "open" /\ dancer' = Failed(s)
    BY <1>1, <1>2, <1>3 DEF SocketOK, ClientIoctl
  <2>. QED
    BY <1>1, <1>2, <2>1, FailedKeeps
<1>4. CASE waiting[s] # 0
  <2>1. dancer' = [dancer EXCEPT !.phase = "recv", !.ready = waiting[s]]
    BY <1>4 DEF ClientIoctl
  <2>2. /\ dancer' \in DancerType /\ dancer'.phase = "recv" /\ dancer'.ready = waiting[s]
        /\ dancer'.revents = dancer.revents /\ dancer'.messages = dancer.messages
        /\ dancer'.cleanup = dancer.cleanup
    BY <1>2, <2>1, DancerTyped DEF DancerType
  <2>3. "read" \notin Pending(s) /\ "close" \in Pending(s)
    BY <1>1, <1>2, <1>4 DEF SocketOK, Pending, IInv, TypeOK, Ends
  <2>4. Handles' = Handles /\ ToHandle' = ToHandle /\ ToSend' = ToSend
    BY <1>1, <2>2 DEF Handles, Mapped, ToHandle, ToSend
  <2>5. PipeInv'
    BY <1>1, <2>2, <2>4 DEF IInv, PipeInv
  <2>6. RoundInv'
    BY <1>1, <1>2, <2>2, <2>3, <2>4 DEF IInv, RoundInv, Pending
  <2>7. \A r \in Sockets : "in" \in dancer'.revents[r] <=> "in" \in dancer.revents[r]
    BY <2>2
  <2>. QED
    BY <1>1, <2>2, <2>5, <2>6, <2>7, PollKeeps
<1>. QED
  BY <1>3, <1>4

\* What the socket of a step of a client becomes decides.
LEMMA ClientKeeps ==
  ASSUME IInv, NEW s \in Sockets, dancer.phase \in {"round", "recv"}, dancer.revents[s] # {},
         UNCHANGED <<pipe, lastFD, place, peer>>, NEW seen, dancer'.phase = "round",
         dancer' \in DancerType, dancer'.messages = dancer.messages, dancer'.cleanup = dancer.cleanup,
         dancer'.revents[s] = dancer.revents[s] \ seen,
         \A g \in Fds : g # s => dancer'.revents[g] = dancer.revents[g],
         net' \in [Fds \ {Pipe} -> NetType], \A f \in Fds \ {Pipe} : f # s => net'[f] = net[f],
         waiting' \in [Fds \ {Pipe} -> Nat], \A f \in Fds \ {Pipe} : f # s => waiting'[f] = waiting[f],
         waiting'[s] <= waiting[s], sendReady' \in [Sockets -> BOOLEAN],
         sendBufs' \in [Sockets -> Nat], room' \in [Sockets -> BOOLEAN], errno' \in BOOLEAN,
         \A r \in Sockets : r # s => sendReady'[r] = sendReady[r] /\ sendBufs'[r] = sendBufs[r]
                                     /\ room'[r] = room[r],
         sendBufs'[s] <= sendBufs[s], "out" \in dancer'.revents[s] => sendBufs'[s] > 0 /\ sendReady'[s],
         SocketOK(s)'
  PROVE  IInv'
<1>1. \A r \in Sockets : /\ r \in Fds \ {Pipe} /\ r # TheListener
                         /\ r # s => dancer'.revents[r] = dancer.revents[r]
                         /\ "out" \in dancer'.revents[r] => sendBufs'[r] > 0 /\ sendReady'[r]
                         /\ sendBufs'[r] \in Nat /\ sendBufs'[r] <= sendBufs[r] /\ sendBufs'[r] <= MaxBufs
                         /\ waiting'[r] <= MaxIn
  BY OutFacts, FdFacts
<1>2. TypeOK'
  <2>1. sendBufs' \in [Sockets -> 0 .. MaxBufs]
    <3>1. \A r \in Sockets : sendBufs'[r] \in 0 .. MaxBufs
      BY <1>1, FdFacts
    <3>. QED
      BY <3>1
  <2>2. waiting'[TheListener] <= MaxBacklog
    BY FdFacts DEF IInv, TypeOK
  <2>. QED
    BY <1>1, <2>1, <2>2 DEF IInv, TypeOK, NetType, DancerType
<1>3. SocketInv'
  <2>. SUFFICES ASSUME NEW r \in Sockets, r # s, SocketOK(r) PROVE SocketOK(r)'
    BY DEF IInv, SocketInv
  <2>1. Failing(r) => Failing(r)'
    BY DEF Failing
  <2>. QED
    BY <1>1, <2>1, SocketStays
<1>4. ToHandle # {}
  BY <1>1 DEF ToHandle
<1>5. \A f \in Fds : dancer'.revents[f] \subseteq dancer.revents[f]
  BY <1>1
<1>6. \A r \in Sockets : r >= lastFD' => place'[r] = "none"
  BY DEF IInv, RoundInv
<1>. QED
  BY <1>1, <1>2, <1>3, <1>4, <1>5, <1>6, HandledKeeps

LEMMA QuietStepFacts ==
  ASSUME TypeOK, NEW f \in Fds, NEW seen, NEW d, d = Step("round", f, seen, <<>>)
  PROVE  /\ d \in DancerType /\ d.phase = "round" /\ d.ready = dancer.ready /\ d.cleanup = dancer.cleanup
         /\ d.messages = dancer.messages /\ d.revents[f] = dancer.revents[f] \ seen
         /\ \A g \in Fds : g # f => d.revents[g] = dancer.revents[g]
<1>. DEFINE q == <<>>
<1>1. "round" \in Phases /\ q \in Seq(Messages) /\ d = Step("round", f, seen, q)
  BY DEF Phases
<1>2. dancer.messages \o q = dancer.messages
  BY DEF TypeOK
<1>. HIDE DEF q
<1>3. /\ d \in DancerType /\ d.phase = "round" /\ d.ready = dancer.ready /\ d.cleanup = dancer.cleanup
      /\ d.messages = dancer.messages \o q /\ d.revents[f] = dancer.revents[f] \ seen
      /\ \A g \in Fds : g # f => d.revents[g] = dancer.revents[g]
  BY <1>1, StepFacts
<1>. QED
  BY <1>2, <1>3

LEMMA ClientRecvKeeps == ASSUME IInv, NEW s \in Sockets, ClientRecv(s) PROVE IInv'
<1>. DEFINE left == IF peer[s] = "reset" THEN 0 ELSE waiting[s] - dancer.ready
            n == Rearmed(net[s], "read")
            h == Holding(left, peer[s])
<1>1. /\ dancer.phase = "recv" /\ s = Min(ToHandle)
      /\ UNCHANGED <<pipe, lastFD, place, sendReady, sendBufs, peer, room, errno>>
      /\ waiting' = [waiting EXCEPT ![s] = left]
      /\ net' = [net EXCEPT ![s] = Recorded(n, h)]
      /\ dancer' = [Step("round", s, {"in"}, <<>>) EXCEPT !.ready = 0]
  BY DEF ClientRecv
<1>2. /\ "in" \in dancer.revents[s] /\ (peer[s] = "reset" \/ dancer.ready <= waiting[s])
      /\ "read" \notin Pending(s) /\ "close" \in Pending(s)
  BY <1>1 DEF IInv, RoundInv, Pending
<1>3. /\ s \in Fds \ {Pipe} /\ s \in Fds /\ SocketOK(s) /\ waiting[s] \in Nat /\ waiting[s] <= MaxIn
      /\ net[s] \in NetType /\ peer[s] \in Ends /\ TypeOK /\ dancer.ready \in Nat
      /\ sendBufs[s] <= sendBufs[s]
  BY <1>2, OutFacts DEF IInv, TypeOK
<1>4. left \in Nat /\ left <= waiting[s]
  BY <1>2, <1>3
<1>5. /\ "read" \in h <=> left > 0
      /\ "close" \in h <=> peer[s] = "reset" \/ (peer[s] = "closed" /\ left = 0)
      /\ "write" \notin h /\ h \in SUBSET NetworkEvents
  BY DEF Holding, NetworkEvents
<1>6. n \in NetType /\ n.armed = net[s].armed \cup {"read"} /\ n.record = net[s].record
      /\ n.event = net[s].event
  BY <1>3 DEF Rearmed, NetType, NetworkEvents
<1>7. peer[s] = "reset" => left = 0
  OBVIOUS
<1>. HIDE DEF left, n, h
<1>8. /\ Recorded(n, h) \in NetType
      /\ Recorded(n, h).event <=> net[s].event \/ n.armed \cap h # {}
      /\ Recorded(n, h).record = net[s].record \cup (n.armed \cap h)
      /\ Recorded(n, h).armed = n.armed \ h
  <2>1. /\ Recorded(n, h) \in NetType
        /\ Recorded(n, h).event <=> n.event \/ n.armed \cap h # {}
        /\ Recorded(n, h).record = n.record \cup (n.armed \cap h)
        /\ Recorded(n, h).armed = n.armed \ h
    BY <1>5, <1>6, RecordedFacts
  <2>2. n.event <=> net[s].event
    BY <1>6, Zenon
  <2>. QED
    BY <1>6, <2>1, <2>2
<1>9. /\ net' \in [Fds \ {Pipe} -> NetType] /\ net'[s] = Recorded(n, h)
      /\ \A f \in Fds \ {Pipe} : f # s => net'[f] = net[f]
      /\ waiting' \in [Fds \ {Pipe} -> Nat] /\ waiting'[s] = left
      /\ \A f \in Fds \ {Pipe} : f # s => waiting'[f] = waiting[f]
  <2>1. net \in [Fds \ {Pipe} -> NetType] /\ waiting \in [Fds \ {Pipe} -> Nat]
    BY <1>3 DEF TypeOK, NetType
  <2>. QED
    BY <1>1, <1>3, <1>4, <1>8, <2>1
<1>10. /\ dancer' \in DancerType /\ dancer'.phase = "round" /\ dancer'.cleanup = dancer.cleanup
       /\ dancer'.messages = dancer.messages /\ dancer'.revents[s] = dancer.revents[s] \ {"in"}
       /\ \A g \in Fds : g # s => dancer'.revents[g] = dancer.revents[g]
  <2>. DEFINE d == Step("round", s, {"in"}, <<>>)
              seen == {"in"}
  <2>1. d = Step("round", s, seen, <<>>) /\ dancer' = [d EXCEPT !.ready = 0]
    BY <1>1
  <2>. HIDE DEF d, seen
  <2>2. /\ d \in DancerType /\ d.phase = "round" /\ d.cleanup = dancer.cleanup
        /\ d.messages = dancer.messages /\ d.revents[s] = dancer.revents[s] \ seen
        /\ \A g \in Fds : g # s => d.revents[g] = dancer.revents[g]
    BY <1>3, <2>1, QuietStepFacts
  <2>. QED
    BY <2>1, <2>2 DEF DancerType, seen
<1>11. SocketOK(s)'
  <2>1. /\ net[s].event <=> net[s].record # {}
        /\ net[s].armed \cap net[s].record \subseteq {"write"} /\ Pending(s) \subseteq {"read", "write", "close"}
        /\ "close" \in net[s].armed <=> peer[s] = "open" \/ (peer[s] = "closed" /\ waiting[s] > 0)
        /\ peer[s] = "reset" => waiting[s] = 0
        /\ ~ sendReady[s] => "write" \in net[s].record \/ ("write" \in net[s].armed /\ ~ room[s])
    BY <1>3 DEF SocketOK, Pending
  <2>2. /\ net'[s].event <=> net[s].event \/ n.armed \cap h # {}
        /\ net'[s].record = net[s].record \cup (n.armed \cap h)
        /\ net'[s].armed = n.armed \ h
    BY <1>8, <1>9
  <2>3. net'[s].event <=> net'[s].record # {}
    BY <2>1, <2>2
  <2>4. net'[s].armed \cap net'[s].record \subseteq {"write"}
    BY <1>2, <1>6, <2>1, <2>2 DEF Pending
  <2>5. /\ Pending(s)' \subseteq {"read", "write", "close"} /\ "read" \in Pending(s)' /\ "close" \in Pending(s)'
    BY <1>2, <1>6, <2>1, <2>2 DEF Pending
  <2>6. /\ "read" \in net'[s].armed => left = 0
        /\ "read" \in net'[s].record => left > 0
    BY <1>2, <1>4, <1>5, <1>6, <2>2 DEF Pending
  <2>7. "close" \in net'[s].armed <=> peer[s] = "open" \/ (peer[s] = "closed" /\ left > 0)
    <3>1. "close" \in net'[s].armed <=> "close" \in net[s].armed /\ "close" \notin h
      BY <1>6, <2>2
    <3>. QED
      BY <1>3, <1>4, <1>5, <2>1, <3>1 DEF Ends
  <2>8. ~ sendReady'[s] => "write" \in net'[s].record \/ ("write" \in net'[s].armed /\ ~ room'[s])
    BY <1>1, <1>5, <1>6, <2>1, <2>2
  <2>9. "in" \notin dancer'.revents[s] /\ waiting'[s] = left /\ peer'[s] = peer[s]
    BY <1>1, <1>9, <1>10
  <2>. QED
    BY <1>7, <2>3, <2>4, <2>5, <2>6, <2>7, <2>8, <2>9 DEF SocketOK, Pending
<1>12. "out" \in dancer'.revents[s] => sendBufs'[s] > 0 /\ sendReady'[s]
  BY <1>1, <1>10, OutFacts
<1>13. sendBufs \in [Sockets -> Nat] /\ sendReady \in [Sockets -> BOOLEAN] /\ room \in [Sockets -> BOOLEAN]
       /\ errno \in BOOLEAN
  BY <1>3, FdFacts DEF TypeOK
<1>14. waiting'[s] <= waiting[s] /\ dancer.revents[s] # {}
  BY <1>2, <1>4, <1>9
<1>. QED
  BY <1>1, <1>3, <1>9, <1>10, <1>11, <1>12, <1>13, <1>14, ClientKeeps

\* The start of each send.
LEMMA SendFacts ==
  ASSUME IInv, NEW s \in Sockets, Handling(s, "out")
  PROVE  /\ dancer.phase = "round" /\ "out" \in dancer.revents[s] /\ "in" \notin dancer.revents[s]
         /\ dancer.revents[s] # {} /\ sendBufs[s] > 0 /\ sendReady[s] /\ SocketOK(s) /\ place[s] = "mapped"
         /\ s \in Fds \ {Pipe} /\ s \in Fds /\ TypeOK /\ net[s] \in NetType /\ sendBufs[s] \in Nat
         /\ waiting[s] \in Nat
         /\ net \in [Fds \ {Pipe} -> NetType] /\ waiting \in [Fds \ {Pipe} -> Nat]
         /\ sendBufs \in [Sockets -> Nat] /\ sendReady \in [Sockets -> BOOLEAN]
         /\ room \in [Sockets -> BOOLEAN] /\ errno \in BOOLEAN
<1>1. dancer.phase = "round" /\ "out" \in dancer.revents[s] /\ "in" \notin dancer.revents[s]
  BY DEF Handling
<1>2. TypeOK /\ net \in [Fds \ {Pipe} -> NetType] /\ waiting \in [Fds \ {Pipe} -> Nat]
      /\ sendBufs \in [Sockets -> Nat] /\ sendReady \in [Sockets -> BOOLEAN]
      /\ room \in [Sockets -> BOOLEAN] /\ errno \in BOOLEAN
  <2>1. sendBufs \in [Sockets -> 0 .. MaxBufs] /\ MaxBufs \in Nat
    BY FdFacts DEF IInv, TypeOK
  <2>2. sendBufs \in [Sockets -> Nat]
    BY <2>1
  <2>. QED
    BY <2>2 DEF IInv, TypeOK, NetType
<1>. QED
  BY <1>1, <1>2, OutFacts

LEMMA ClientSendKeeps == ASSUME IInv, NEW s \in Sockets, NEW more \in BOOLEAN, ClientSend(s, more) PROVE IInv'
<1>. DEFINE seen == IF LastBuffer(s) THEN {"out"} ELSE {}
<1>1. /\ Handling(s, "out") /\ sendBufs' = [sendBufs EXCEPT ![s] = @ - 1] /\ room' = [room EXCEPT ![s] = more]
      /\ dancer' = Step("round", s, seen, <<>>)
      /\ UNCHANGED <<pipe, lastFD, place, net, sendReady, waiting, peer, errno>>
  BY DEF ClientSend
<1>2. \A x \in seen : x = "out" /\ sendBufs[s] = 1
  BY DEF LastBuffer
<1>3. sendBufs[s] # 1 \/ "out" \in seen
  BY DEF LastBuffer
<1>. HIDE DEF seen
<1>4. /\ dancer.phase = "round" /\ "in" \notin dancer.revents[s]
      /\ dancer.revents[s] # {} /\ sendBufs[s] > 0 /\ sendReady[s] /\ SocketOK(s)
      /\ s \in Fds \ {Pipe} /\ s \in Fds /\ TypeOK /\ sendBufs[s] \in Nat /\ waiting[s] \in Nat
      /\ net \in [Fds \ {Pipe} -> NetType] /\ waiting \in [Fds \ {Pipe} -> Nat]
      /\ sendBufs \in [Sockets -> Nat] /\ sendReady \in [Sockets -> BOOLEAN]
      /\ room \in [Sockets -> BOOLEAN] /\ errno \in BOOLEAN
  BY <1>1, SendFacts
<1>5. /\ dancer' \in DancerType /\ dancer'.phase = "round" /\ dancer'.cleanup = dancer.cleanup
      /\ dancer'.messages = dancer.messages /\ dancer'.revents[s] = dancer.revents[s] \ seen
      /\ \A g \in Fds : g # s => dancer'.revents[g] = dancer.revents[g]
  BY <1>1, <1>4, QuietStepFacts
<1>6. /\ sendBufs' \in [Sockets -> Nat] /\ room' \in [Sockets -> BOOLEAN] /\ sendBufs'[s] = sendBufs[s] - 1
      /\ \A r \in Sockets : r # s => sendBufs'[r] = sendBufs[r] /\ room'[r] = room[r]
  BY <1>1, <1>4
<1>7. SocketOK(s)'
  <2>1. "in" \notin dancer'.revents[s] /\ (Failing(s) => Failing(s)') /\ sendReady'[s]
    BY <1>1, <1>4, <1>5 DEF Failing
  <2>. QED
    BY <1>1, <1>4, <2>1 DEF SocketOK
<1>8. "out" \in dancer'.revents[s] => sendBufs'[s] > 0 /\ sendReady'[s]
  BY <1>1, <1>3, <1>4, <1>5, <1>6
<1>9. sendBufs'[s] <= sendBufs[s] /\ waiting'[s] <= waiting[s]
  BY <1>1, <1>4, <1>6
<1>. QED
  BY <1>1, <1>4, <1>5, <1>6, <1>7, <1>8, <1>9, ClientKeeps

LEMMA ClientSendBlocksKeeps == ASSUME IInv, NEW s \in Sockets, ClientSendBlocks(s) PROVE IInv'
<1>. DEFINE seen == {"out"}
<1>1. /\ Handling(s, "out") /\ ~ room[s] /\ sendReady' = [sendReady EXCEPT ![s] = FALSE] /\ errno' = TRUE
      /\ net' = [net EXCEPT ![s] = Rearmed(net[s], "write")] /\ dancer' = Step("round", s, seen, <<>>)
      /\ UNCHANGED <<pipe, lastFD, place, sendBufs, waiting, peer, room>>
  BY DEF ClientSendBlocks
<1>2. "out" \in seen
  OBVIOUS
<1>. HIDE DEF seen
<1>3. /\ dancer.phase = "round" /\ "in" \notin dancer.revents[s]
      /\ dancer.revents[s] # {} /\ SocketOK(s) /\ net[s] \in NetType
      /\ s \in Fds \ {Pipe} /\ s \in Fds /\ TypeOK /\ sendBufs[s] \in Nat /\ waiting[s] \in Nat
      /\ net \in [Fds \ {Pipe} -> NetType] /\ waiting \in [Fds \ {Pipe} -> Nat]
      /\ sendBufs \in [Sockets -> Nat] /\ sendReady \in [Sockets -> BOOLEAN]
      /\ room \in [Sockets -> BOOLEAN]
  BY <1>1, SendFacts
<1>4. /\ dancer' \in DancerType /\ dancer'.phase = "round" /\ dancer'.cleanup = dancer.cleanup
      /\ dancer'.messages = dancer.messages /\ dancer'.revents[s] = dancer.revents[s] \ seen
      /\ \A g \in Fds : g # s => dancer'.revents[g] = dancer.revents[g]
  BY <1>1, <1>3, QuietStepFacts
<1>5. /\ Rearmed(net[s], "write") \in NetType
      /\ Rearmed(net[s], "write").armed = net[s].armed \cup {"write"}
      /\ Rearmed(net[s], "write").record = net[s].record /\ Rearmed(net[s], "write").event = net[s].event
  BY <1>3 DEF Rearmed, NetType, NetworkEvents
<1>6. /\ net' \in [Fds \ {Pipe} -> NetType] /\ net'[s] = Rearmed(net[s], "write")
      /\ \A f \in Fds \ {Pipe} : f # s => net'[f] = net[f]
      /\ sendReady' \in [Sockets -> BOOLEAN] /\ sendReady'[s] = FALSE
      /\ \A r \in Sockets : r # s => sendReady'[r] = sendReady[r]
  BY <1>1, <1>3, <1>5
<1>7. net'[s].event <=> net[s].event
  <2>1. net'[s].event = net[s].event
    BY <1>5, <1>6
  <2>. QED
    BY <2>1, Zenon
<1>8. SocketOK(s)'
  <2>1. /\ "in" \notin dancer'.revents[s] /\ (Failing(s) => Failing(s)')
        /\ net'[s].armed = net[s].armed \cup {"write"} /\ net'[s].record = net[s].record
    BY <1>3, <1>4, <1>5, <1>6 DEF Failing
  <2>. QED
    BY <1>1, <1>3, <1>7, <2>1 DEF SocketOK
<1>9. "out" \notin dancer'.revents[s] /\ sendBufs'[s] <= sendBufs[s] /\ waiting'[s] <= waiting[s]
  BY <1>1, <1>2, <1>3, <1>4
<1>. QED
  BY <1>1, <1>3, <1>4, <1>6, <1>8, <1>9, ClientKeeps

LEMMA ClientSendFailsKeeps == ASSUME IInv, NEW s \in Sockets, ClientSendFails(s) PROVE IInv'
<1>1. /\ Handling(s, "out") /\ (~ sendReady[s] \/ peer[s] = "reset")
      /\ UNCHANGED <<pipe, lastFD, place, socketVars, errno>>
  BY DEF ClientSendFails
<1>2. /\ dancer.phase = "round" /\ "in" \notin dancer.revents[s] /\ sendReady[s]
      /\ dancer.revents[s] # {} /\ SocketOK(s) /\ net[s] \in NetType
      /\ s \in Fds \ {Pipe} /\ s \in Fds /\ TypeOK /\ sendBufs[s] \in Nat /\ waiting[s] \in Nat
      /\ net \in [Fds \ {Pipe} -> NetType] /\ waiting \in [Fds \ {Pipe} -> Nat]
      /\ sendBufs \in [Sockets -> Nat] /\ sendReady \in [Sockets -> BOOLEAN]
      /\ room \in [Sockets -> BOOLEAN] /\ errno \in BOOLEAN
  BY <1>1, SendFacts
<1>3. CASE errno
  <2>. DEFINE seen == {"out"}
  <2>1. dancer' = Step("round", s, seen, <<>>)
    BY <1>3 DEF ClientSendFails
  <2>2. "out" \in seen
    OBVIOUS
  <2>. HIDE DEF seen
  <2>3. /\ dancer' \in DancerType /\ dancer'.phase = "round" /\ dancer'.cleanup = dancer.cleanup
        /\ dancer'.messages = dancer.messages /\ dancer'.revents[s] = dancer.revents[s] \ seen
        /\ \A g \in Fds : g # s => dancer'.revents[g] = dancer.revents[g]
    BY <1>2, <2>1, QuietStepFacts
  <2>4. SocketOK(s)'
    <3>1. ("in" \in dancer'.revents[s] <=> "in" \in dancer.revents[s]) /\ (Failing(s) => Failing(s)')
      BY <1>2, <2>3 DEF Failing
    <3>. QED
      BY <1>1, <1>2, <3>1, SocketStays
  <2>5. "out" \notin dancer'.revents[s] /\ sendBufs'[s] <= sendBufs[s] /\ waiting'[s] <= waiting[s]
    BY <1>1, <1>2, <2>2, <2>3
  <2>. QED
    BY <1>1, <1>2, <2>3, <2>4, <2>5, ClientKeeps
<1>4. CASE ~ errno
  <2>1. dancer' = Failed(s) /\ peer[s] # "open"
    BY <1>1, <1>2, <1>4 DEF ClientSendFails
  <2>. QED
    BY <1>1, <1>2, <2>1, FailedKeeps
<1>. QED
  BY <1>3, <1>4

-----------------------------------------------------------------------------
(* The dancer: messages, and the end of a round.                           *)

LEMMA ClosedFacts ==
  ASSUME TypeOK, NEW gone \in SUBSET Mapped, Closed(gone)
  PROVE  /\ place' \in [Fds \ {Pipe} -> {"none", "held", "piped", "mapped", "closed"}]
         /\ net' \in [Fds \ {Pipe} -> NetType] /\ waiting' \in [Fds \ {Pipe} -> Nat]
         /\ waiting'[TheListener] <= MaxBacklog /\ \A s \in Sockets : waiting'[s] <= MaxIn
         /\ sendBufs' \in [Sockets -> 0 .. MaxBufs] /\ \A s \in Sockets : sendBufs'[s] <= sendBufs[s]
         /\ \A f \in Fds \ {Pipe} : IF f \in gone THEN place[f] = "mapped" /\ place'[f] = "closed"
                                                  ELSE place'[f] = place[f] /\ net'[f] = net[f]
                                                       /\ waiting'[f] = waiting[f]
<1>1. /\ place' = [f \in Fds \ {Pipe} |-> IF f \in gone THEN "closed" ELSE place[f]]
      /\ net' = [f \in Fds \ {Pipe} |-> IF f \in gone THEN Unselected ELSE net[f]]
      /\ waiting' = [f \in Fds \ {Pipe} |-> IF f \in gone THEN 0 ELSE waiting[f]]
      /\ sendBufs' = [s \in Sockets |-> IF s \in gone THEN 0 ELSE sendBufs[s]]
  BY DEF Closed, TypeOK
<1>2. \A f \in gone : place[f] = "mapped"
  BY DEF Mapped
<1>3. Unselected \in NetType
  BY DEF Unselected, NetType
<1>4. /\ place' \in [Fds \ {Pipe} -> {"none", "held", "piped", "mapped", "closed"}]
      /\ net' \in [Fds \ {Pipe} -> NetType] /\ waiting' \in [Fds \ {Pipe} -> Nat]
  BY <1>1, <1>3 DEF TypeOK, NetType
<1>5. sendBufs' \in [Sockets -> 0 .. MaxBufs] /\ \A s \in Sockets : sendBufs'[s] <= sendBufs[s]
  BY <1>1, FdFacts DEF TypeOK
<1>6. waiting'[TheListener] <= MaxBacklog /\ \A s \in Sockets : waiting'[s] <= MaxIn
  BY <1>1, FdFacts DEF TypeOK
<1>. QED
  BY <1>1, <1>2, <1>4, <1>5, <1>6

\* The first message is taken off the queue.
LEMMA TailKeeps ==
  ASSUME IInv, NEW ms \in Seq(Messages), ms = dancer.messages, ms # <<>>, pipe' = pipe,
         dancer'.messages = Tail(ms), NEW m, m = Head(ms),
         \A l \in Messages : Queued(l) /\ (l.msg = "add" /\ m.msg = "add" => l.fd # m.fd) => Queued(l)',
         \A s \in Sockets : sendBufs'[s] \in Nat /\ sendBufs'[s] <=
                              sendBufs[s] + IF m.msg = "data" /\ m.fd = s THEN 1 ELSE 0
  PROVE  MessageInv'
<1>. DEFINE q == pipe.data
            t == Tail(ms)
<1>1. /\ m = ms[1] /\ t \in Seq(Messages) /\ 1 \in DOMAIN ms
      /\ \A i \in DOMAIN t : i + 1 \in DOMAIN ms /\ t[i] = ms[i + 1]
      /\ \A f : Cardinality(OfData(f, ms)) = Cardinality(OfData(f, t))
                      + IF ms[1].msg = "data" /\ ms[1].fd = f THEN 1 ELSE 0
  BY TailOfQueue, Zenon
<1>2. q \in Seq(Messages)
  BY DEF IInv, TypeOK
<1>3. /\ \A i \in DOMAIN q : q[i] \in Messages /\ Queued(q[i]) /\ q[i].msg # "fail"
      /\ \A i \in DOMAIN ms : ms[i] \in Messages /\ Queued(ms[i])
  BY <1>2 DEF IInv, MessageInv
<1>4. AddedOnce(q) /\ AddedOnce(ms) /\ \A i \in DOMAIN q, j \in DOMAIN ms :
        q[i].msg = "add" /\ ms[j].msg = "add" => q[i].fd # ms[j].fd
  BY DEF IInv, MessageInv
<1>5. \A i \in DOMAIN t : i \in Nat /\ i + 1 # 1
  BY <1>1
<1>. HIDE DEF q, t
<1>6. ASSUME NEW i \in DOMAIN q, NEW l, l = q[i] PROVE Queued(l)' /\ l.msg # "fail"
  <2>1. l \in Messages /\ Queued(l) /\ l.msg # "fail" /\ (l.msg = "add" /\ m.msg = "add" => l.fd # m.fd)
    BY <1>1, <1>3, <1>4, <1>6
  <2>. QED
    BY <2>1
<1>7. ASSUME NEW i \in DOMAIN t, NEW l, l = t[i] PROVE Queued(l)'
  <2>1. l = ms[i + 1] /\ i + 1 \in DOMAIN ms /\ i + 1 # 1 /\ m = ms[1] /\ 1 \in DOMAIN ms
    BY <1>1, <1>5, <1>7
  <2>2. l \in Messages /\ Queued(l) /\ (l.msg = "add" /\ m.msg = "add" => l.fd # m.fd)
    BY <1>3, <1>4, <2>1 DEF AddedOnce
  <2>. QED
    BY <2>2
<1>8. AddedOnce(t)
  <2>. SUFFICES ASSUME NEW i \in DOMAIN t, NEW j \in DOMAIN t, t[i].msg = "add", t[j].msg = "add",
                       t[i].fd = t[j].fd
       PROVE  i = j
    BY DEF AddedOnce
  <2>1. i + 1 = j + 1
    BY <1>1, <1>4 DEF AddedOnce
  <2>. QED
    BY <1>5, <2>1
<1>9. \A i \in DOMAIN q, j \in DOMAIN t : q[i].msg = "add" /\ t[j].msg = "add" => q[i].fd # t[j].fd
  BY <1>1, <1>4
<1>10. ASSUME NEW s \in Sockets
       PROVE  sendBufs'[s] + Cardinality(OfData(s, q)) + Cardinality(OfData(s, t)) <= MaxBufs
  <2>1. sendBufs[s] + Cardinality(OfData(s, q)) + Cardinality(OfData(s, ms)) <= MaxBufs
    BY DEF IInv, MessageInv, q
  <2>2. /\ Cardinality(OfData(s, q)) \in Nat /\ Cardinality(OfData(s, t)) \in Nat /\ MaxBufs \in Nat
        /\ sendBufs[s] \in Nat
    BY <1>1, <1>2, CountType, FdFacts DEF IInv, TypeOK
  <2>3. Cardinality(OfData(s, ms)) = Cardinality(OfData(s, t)) + IF m.msg = "data" /\ m.fd = s THEN 1 ELSE 0
    BY <1>1
  <2>4. sendBufs'[s] \in Nat /\ sendBufs'[s] <= sendBufs[s] + IF m.msg = "data" /\ m.fd = s THEN 1 ELSE 0
    OBVIOUS
  <2>. QED
    BY <2>1, <2>2, <2>3, <2>4
<1>11. pipe'.data = q /\ dancer'.messages = t
  BY DEF q, t
<1>12. \A i \in DOMAIN pipe'.data : Queued(pipe.data[i])' /\ pipe'.data[i].msg # "fail"
  BY <1>6, <1>11
<1>13. \A i \in DOMAIN dancer'.messages : Queued(dancer.messages[i])'
  BY <1>7, <1>11
<1>14. AddedOnce(pipe.data)' /\ AddedOnce(dancer.messages)'
  BY <1>4, <1>8, <1>11 DEF AddedOnce
<1>15. \A i \in DOMAIN pipe'.data, j \in DOMAIN dancer'.messages :
         pipe'.data[i].msg = "add" /\ dancer'.messages[j].msg = "add" =>
           pipe'.data[i].fd # dancer'.messages[j].fd
  BY <1>9, <1>11
<1>16. \A s \in Sockets : sendBufs'[s] + Cardinality(OfData(s, pipe.data))'
                            + Cardinality(OfData(s, dancer.messages))' <= MaxBufs
  BY <1>10, <1>11 DEF OfData
<1>. QED
  BY <1>12, <1>13, <1>14, <1>15, <1>16 DEF MessageInv

\* Its queue is shorter by one: what fails still fails, but for the first message.
LEMMA TailFails ==
  ASSUME TypeOK, dancer.messages # <<>>, dancer'.messages = Tail(dancer.messages), NEW s \in Sockets,
         Failing(s), Head(dancer.messages) # [msg |-> "fail", fd |-> s]
  PROVE  Failing(s)'
<1>. DEFINE ms == dancer.messages
            t == Tail(ms)
<1>1. ms \in Seq(Messages) /\ ms # <<>>
  BY DEF TypeOK
<1>2. PICK i \in DOMAIN ms : ms[i] = [msg |-> "fail", fd |-> s]
  BY DEF Failing
<1>3. i # 1
  BY <1>1, <1>2
<1>4. i - 1 \in DOMAIN t /\ t[i - 1] = ms[i]
  <2>. HIDE DEF ms
  <2>. QED
    BY <1>1, <1>3
<1>. QED
  BY <1>2, <1>4 DEF Failing

LEMMA HandleMessageKeeps == ASSUME IInv, HandleMessage PROVE IInv'
<1>. DEFINE ms == dancer.messages
            m == Head(ms)
<1>1. /\ dancer.phase = "round" /\ ToHandle = {} /\ ms # <<>> /\ dancer' = [dancer EXCEPT !.messages = Tail(ms)]
      /\ UNCHANGED <<pipe, lastFD, errno>>
      /\ \/ m.msg = "add" /\ Added(m.fd)
         \/ m.msg \in {"remove", "fail"} /\ Closed({m.fd} \cap Mapped)
         \/ /\ m.msg = "data"
            /\ sendBufs' = IF m.fd \in Mapped THEN [sendBufs EXCEPT ![m.fd] = @ + 1] ELSE sendBufs
            /\ UNCHANGED <<place, net, sendReady, waiting, peer, room>>
  BY DEF HandleMessage
<1>2. /\ TypeOK /\ ms \in Seq(Messages)
  BY DEF IInv, TypeOK
<1>3. m \in Messages /\ Queued(m) /\ Tail(ms) \in Seq(Messages) /\ m.fd \in Fds \ {Pipe}
      /\ m.msg \in {"add", "remove", "data", "fail"} /\ m = [msg |-> m.msg, fd |-> m.fd]
  <2>1. m = ms[1] /\ 1 \in DOMAIN ms /\ ms[1] \in Messages /\ Tail(ms) \in Seq(Messages)
    BY <1>1, <1>2, TailOfQueue
  <2>2. Queued(ms[1])
    BY <2>1 DEF IInv, MessageInv
  <2>. HIDE DEF m
  <2>. QED
    BY <2>1, <2>2 DEF Messages
<1>. HIDE DEF m
<1>4. /\ dancer' \in DancerType /\ dancer'.phase = "round" /\ dancer'.revents = dancer.revents
      /\ dancer'.messages = Tail(ms) /\ dancer'.cleanup = dancer.cleanup
  BY <1>1, <1>3, DancerTyped DEF DancerType
<1>5. \A f \in Fds : dancer.revents[f] = {} /\ dancer'.revents[f] = {}
  BY <1>1, <1>4 DEF ToHandle
<1>6. PipeInv'
  BY <1>1, <1>4, PipeKeeps
<1>7. ASSUME NEW s \in Sockets, m # [msg |-> "fail", fd |-> s], Failing(s) PROVE Failing(s)'
  <2>1. Head(dancer.messages) # [msg |-> "fail", fd |-> s]
    BY <1>7 DEF m
  <2>. QED
    BY <1>1, <1>2, <1>4, <1>7, <2>1, TailFails
<1>8. \A s \in Sockets : s \in Fds \ {Pipe} /\ s # TheListener /\ sendBufs[s] \in Nat /\ sendBufs[s] <= MaxBufs
                         /\ "in" \notin dancer.revents[s] /\ "in" \notin dancer'.revents[s]
  BY <1>5, FdFacts, OutFacts
<1>9. ASSUME TypeOK', SocketInv', \A s \in Sockets : s >= lastFD' => place'[s] = "none",
             \A l \in Messages : Queued(l) /\ (l.msg = "add" /\ m.msg = "add" => l.fd # m.fd) => Queued(l)',
             \A s \in Sockets : sendBufs'[s] \in Nat /\ sendBufs'[s] <=
                                  sendBufs[s] + IF m.msg = "data" /\ m.fd = s THEN 1 ELSE 0
      PROVE  IInv'
  <2>1. MessageInv'
    <3>1. m = Head(ms) /\ pipe' = pipe
      BY <1>1 DEF m
    <3>. QED
      BY <1>1, <1>2, <1>4, <1>9, <3>1, TailKeeps
  <2>2. RoundInv'
    BY <1>4, <1>5, <1>8, <1>9, RoundKeeps
  <2>. QED
    BY <1>6, <1>9, <2>1, <2>2 DEF IInv
<1>10. CASE m.msg = "add" /\ Added(m.fd)
  <2>. DEFINE l == [Unselected EXCEPT !.armed = {"accept", "close"}]
  <2>1. /\ place' = [place EXCEPT ![m.fd] = "mapped"] /\ place[m.fd] = "piped"
        /\ net' = IF m.fd = TheListener THEN [net EXCEPT ![m.fd] = l] ELSE net
        /\ UNCHANGED <<sendReady, sendBufs, waiting, peer, room>>
    BY <1>3, <1>10 DEF Added, Queued
  <2>2. l \in NetType
    BY DEF Unselected, NetType, NetworkEvents
  <2>. HIDE DEF l
  <2>3. net' \in [Fds \ {Pipe} -> NetType] /\ \A s \in Sockets : net'[s] = net[s]
    BY <1>2, <1>3, <1>8, <2>1, <2>2 DEF TypeOK, NetType
  <2>4. /\ place' \in [Fds \ {Pipe} -> {"none", "held", "piped", "mapped", "closed"}]
        /\ place'[m.fd] = "mapped" /\ \A f \in Fds \ {Pipe} : f # m.fd => place'[f] = place[f]
    BY <1>2, <1>3, <2>1 DEF TypeOK
  <2>5. TypeOK'
    BY <1>1, <1>2, <1>4, <2>1, <2>3, <2>4 DEF TypeOK, NetType, DancerType
  <2>6. SocketInv'
    <3>. SUFFICES ASSUME NEW s \in Sockets, SocketOK(s) PROVE SocketOK(s)'
      BY <1>8, <2>1, <2>4 DEF IInv, SocketInv
    <3>1. Failing(s) => Failing(s)'
      BY <1>7, <1>10
    <3>. QED
      BY <1>8, <2>1, <2>3, <3>1, SocketStays
  <2>7. \A s \in Sockets : s >= lastFD' => place'[s] = "none"
    BY <1>1, <1>8, <2>1, <2>4 DEF IInv, RoundInv
  <2>8. ASSUME NEW k \in Messages, Queued(k), k.msg = "add" => k.fd # m.fd PROVE Queued(k)'
    BY <1>10, <2>1, <2>4, <2>8 DEF Queued, Messages
  <2>9. \A s \in Sockets : sendBufs'[s] \in Nat /\ sendBufs'[s] <=
                             sendBufs[s] + IF m.msg = "data" /\ m.fd = s THEN 1 ELSE 0
    BY <1>8, <2>1
  <2>. QED
    BY <1>9, <1>10, <2>5, <2>6, <2>7, <2>8, <2>9
<1>11. CASE m.msg \in {"remove", "fail"} /\ Closed({m.fd} \cap Mapped)
  <2>. DEFINE gone == {m.fd} \cap Mapped
  <2>1. /\ place' \in [Fds \ {Pipe} -> {"none", "held", "piped", "mapped", "closed"}]
        /\ net' \in [Fds \ {Pipe} -> NetType] /\ waiting' \in [Fds \ {Pipe} -> Nat]
        /\ waiting'[TheListener] <= MaxBacklog /\ \A s \in Sockets : waiting'[s] <= MaxIn
        /\ sendBufs' \in [Sockets -> 0 .. MaxBufs] /\ \A s \in Sockets : sendBufs'[s] <= sendBufs[s]
        /\ \A f \in Fds \ {Pipe} : IF f \in gone THEN place[f] = "mapped" /\ place'[f] = "closed"
                                                 ELSE place'[f] = place[f] /\ net'[f] = net[f]
                                                      /\ waiting'[f] = waiting[f]
    <3>1. gone \in SUBSET Mapped /\ Closed(gone)
      BY <1>11
    <3>. HIDE DEF gone
    <3>. QED
      BY <1>2, <3>1, ClosedFacts
  <2>2. UNCHANGED <<sendReady, peer, room>>
    BY <1>11 DEF Closed
  <2>3. TypeOK'
    BY <1>1, <1>2, <1>4, <2>1, <2>2 DEF TypeOK, NetType, DancerType
  <2>4. \A f \in Fds \ {Pipe} : f \in gone <=> f = m.fd /\ place[f] = "mapped"
    BY DEF Mapped
  <2>. HIDE DEF gone
  <2>5. SocketInv'
    <3>. SUFFICES ASSUME NEW s \in Sockets, place'[s] \in {"held", "piped", "mapped"} PROVE SocketOK(s)'
      BY DEF SocketInv
    <3>1. s \in Fds \ {Pipe} /\ s \notin gone
      BY <1>8, <2>1
    <3>2. /\ place'[s] = place[s] /\ net'[s] = net[s] /\ waiting'[s] = waiting[s] /\ SocketOK(s)
      BY <2>1, <3>1 DEF IInv, SocketInv
    <3>3. m # [msg |-> "fail", fd |-> s]
      BY <1>3, <2>4, <3>1, <3>2 DEF Queued
    <3>. QED
      BY <1>7, <1>8, <2>2, <3>2, <3>3, SocketStays
  <2>6. \A s \in Sockets : s >= lastFD' => place'[s] = "none"
    BY <1>1, <1>8, <2>1 DEF IInv, RoundInv
  <2>7. ASSUME NEW k \in Messages, Queued(k) PROVE Queued(k)'
    BY <2>1, <2>2, <2>7 DEF Queued, Messages
  <2>8. \A s \in Sockets : sendBufs'[s] \in Nat /\ sendBufs'[s] <=
                             sendBufs[s] + IF m.msg = "data" /\ m.fd = s THEN 1 ELSE 0
    BY <1>8, <1>11, <2>1, FdFacts
  <2>. QED
    BY <1>9, <2>3, <2>5, <2>6, <2>7, <2>8
<1>12. CASE /\ m.msg = "data"
            /\ sendBufs' = IF m.fd \in Mapped THEN [sendBufs EXCEPT ![m.fd] = @ + 1] ELSE sendBufs
            /\ UNCHANGED <<place, net, sendReady, waiting, peer, room>>
  <2>1. m.fd \in Sockets /\ sendBufs[m.fd] + 1 <= MaxBufs /\ sendBufs[m.fd] \in Nat
    <3>1. m.fd \in Sockets
      BY <1>3, <1>12 DEF Queued
    <3>. DEFINE f == m.fd
    <3>2. /\ Cardinality(OfData(f, ms)) = Cardinality(OfData(f, Tail(ms))) + 1
          /\ Cardinality(OfData(f, Tail(ms))) \in Nat
      <4>1. Cardinality(OfData(f, ms)) = Cardinality(OfData(f, Tail(ms)))
                                           + IF ms[1].msg = "data" /\ ms[1].fd = f THEN 1 ELSE 0
        BY <1>1, <1>2, TailOfQueue, Zenon
      <4>2. m = ms[1]
        BY <1>1, <1>2 DEF m
      <4>3. Cardinality(OfData(f, Tail(ms))) \in Nat
        BY <1>3, CountType
      <4>. QED
        BY <1>12, <4>1, <4>2, <4>3
    <3>3. Cardinality(OfData(f, pipe.data)) \in Nat
      BY <1>2, CountType DEF TypeOK
    <3>4. sendBufs[f] + Cardinality(OfData(f, pipe.data)) + Cardinality(OfData(f, ms)) <= MaxBufs
      BY <3>1 DEF IInv, MessageInv
    <3>5. sendBufs[f] \in Nat /\ MaxBufs \in Nat
      BY <1>8, <3>1, FdFacts
    <3>6. sendBufs[f] + 1 <= MaxBufs
      <4>. HIDE DEF f
      <4>. QED
        BY <3>2, <3>3, <3>4, <3>5
    <3>. QED
      BY <3>1, <3>5, <3>6
  <2>2. /\ sendBufs' \in [Sockets -> 0 .. MaxBufs]
        /\ \A s \in Sockets : sendBufs'[s] \in Nat /\ sendBufs'[s] <=
                                sendBufs[s] + IF m.fd = s THEN 1 ELSE 0
    <3>1. CASE m.fd \in Mapped
      BY <1>2, <1>8, <1>12, <2>1, <3>1, FdFacts DEF TypeOK
    <3>2. CASE m.fd \notin Mapped
      BY <1>2, <1>8, <1>12, <2>1, <3>2, FdFacts DEF TypeOK
    <3>. QED
      BY <3>1, <3>2
  <2>3. TypeOK'
    BY <1>1, <1>2, <1>4, <1>12, <2>2 DEF TypeOK, NetType, DancerType
  <2>4. SocketInv'
    <3>. SUFFICES ASSUME NEW s \in Sockets, SocketOK(s) PROVE SocketOK(s)'
      BY <1>12 DEF IInv, SocketInv
    <3>1. Failing(s) => Failing(s)'
      BY <1>7, <1>12
    <3>. QED
      BY <1>8, <1>12, <3>1, SocketStays
  <2>5. \A s \in Sockets : s >= lastFD' => place'[s] = "none"
    BY <1>1, <1>12 DEF IInv, RoundInv
  <2>6. ASSUME NEW k \in Messages, Queued(k) PROVE Queued(k)'
    BY <1>12, <2>6 DEF Queued
  <2>. QED
    BY <1>9, <1>12, <2>2, <2>3, <2>4, <2>5, <2>6
<1>. QED
  BY <1>1, <1>10, <1>11, <1>12

LEMMA NextRoundKeeps == ASSUME IInv, NextRound PROVE IInv'
<1>1. /\ dancer.phase = "round" /\ ToHandle = {} /\ dancer.messages = <<>> /\ ~ dancer.cleanup
      /\ dancer' = NewRound /\ UNCHANGED <<pipe, lastFD, place, socketVars, errno>>
  BY DEF NextRound, RoundOver
<1>2. /\ dancer' \in DancerType /\ dancer'.phase = "build" /\ dancer'.messages = <<>>
      /\ dancer'.cleanup = FALSE /\ \A f \in Fds : dancer'.revents[f] = {}
  BY <1>1, FdFacts DEF NewRound, DancerType
<1>3. \A f \in Fds : dancer.revents[f] = {}
  BY <1>1 DEF ToHandle
<1>4. PipeInv'
  BY <1>1, <1>2, FdFacts DEF IInv, PipeInv
<1>5. RoundInv'
  <2>1. ToHandle' = {}
    BY <1>2 DEF ToHandle
  <2>2. \A s \in Sockets : s >= lastFD' => place'[s] = "none"
    BY <1>1 DEF IInv, RoundInv
  <2>. QED
    BY <1>2, <2>1, <2>2 DEF RoundInv
<1>6. \A s \in Sockets : "in" \in dancer'.revents[s] <=> "in" \in dancer.revents[s]
  BY <1>2, <1>3, FdFacts
<1>. QED
  BY <1>1, <1>2, <1>4, <1>5, <1>6, PollKeeps

LEMMA DancerEndsKeeps == ASSUME IInv, DancerEnds PROVE IInv'
<1>1. /\ dancer.phase = "round" /\ ToHandle = {} /\ dancer.messages = <<>>
      /\ dancer' = [NewRound EXCEPT !.phase = "ended", !.cleanup = TRUE]
      /\ pipe' = [pipe EXCEPT !.event = "closed"] /\ Closed(Mapped) /\ UNCHANGED <<lastFD, errno>>
  BY DEF DancerEnds, RoundOver
<1>2. /\ dancer' \in DancerType /\ dancer'.phase = "ended" /\ dancer'.messages = <<>>
      /\ \A f \in Fds : dancer'.revents[f] = {}
  <2>1. NewRound \in DancerType /\ NewRound.messages = <<>> /\ \A f \in Fds : NewRound.revents[f] = {}
    BY FdFacts DEF NewRound, DancerType
  <2>. QED
    BY <1>1, <2>1 DEF DancerType
<1>3. TypeOK /\ UNCHANGED <<sendReady, peer, room>> /\ pipe'.data = pipe.data /\ pipe'.event = "closed"
      /\ pipe'.writable = pipe.writable
      /\ pipe' \in [data : Seq(Messages), event : {"reset", "set", "closed"}, writable : BOOLEAN]
  BY <1>1 DEF IInv, TypeOK, Closed
<1>4. /\ place' \in [Fds \ {Pipe} -> {"none", "held", "piped", "mapped", "closed"}]
      /\ net' \in [Fds \ {Pipe} -> NetType] /\ waiting' \in [Fds \ {Pipe} -> Nat]
      /\ waiting'[TheListener] <= MaxBacklog /\ \A s \in Sockets : waiting'[s] <= MaxIn
      /\ sendBufs' \in [Sockets -> 0 .. MaxBufs] /\ \A s \in Sockets : sendBufs'[s] <= sendBufs[s]
      /\ \A f \in Fds \ {Pipe} : IF f \in Mapped THEN place[f] = "mapped" /\ place'[f] = "closed"
                                               ELSE place'[f] = place[f] /\ net'[f] = net[f]
                                                    /\ waiting'[f] = waiting[f]
  <2>1. Mapped \in SUBSET Mapped /\ Closed(Mapped)
    BY <1>1
  <2>. QED
    BY <1>3, <2>1, ClosedFacts
<1>5. TypeOK'
  BY <1>1, <1>2, <1>3, <1>4 DEF TypeOK, NetType, DancerType
<1>6. PipeInv'
  BY <1>2, <1>3, FdFacts DEF PipeInv
<1>7. MessageInv'
  <2>1. ASSUME NEW l \in Messages, Queued(l) PROVE Queued(l)'
    BY <1>3, <1>4, <2>1 DEF Queued, Messages
  <2>2. ASSUME NEW i \in DOMAIN pipe.data, NEW l, l = pipe.data[i] PROVE Queued(l)' /\ l.msg # "fail"
    <3>1. l \in Messages /\ Queued(l) /\ l.msg # "fail"
      BY <1>3, <2>2 DEF IInv, MessageInv, TypeOK
    <3>. QED
      BY <2>1, <3>1
  <2>3. ASSUME NEW s \in Sockets
        PROVE  sendBufs'[s] + Cardinality(OfData(s, pipe.data)) + Cardinality(OfData(s, <<>>)) <= MaxBufs
    <3>1. /\ sendBufs[s] \in Nat /\ sendBufs'[s] \in Nat /\ sendBufs'[s] <= sendBufs[s] /\ MaxBufs \in Nat
          /\ Cardinality(OfData(s, pipe.data)) \in Nat
      BY <1>3, <1>4, CountType, FdFacts DEF TypeOK
    <3>2. sendBufs[s] + Cardinality(OfData(s, pipe.data)) + Cardinality(OfData(s, <<>>)) <= MaxBufs
      BY <1>1 DEF IInv, MessageInv
    <3>. QED
      BY <3>1, <3>2, CountOfNone
  <2>4. \A i \in DOMAIN pipe'.data : Queued(pipe.data[i])' /\ pipe'.data[i].msg # "fail"
    BY <1>3, <2>2
  <2>5. AddedOnce(pipe.data)' /\ AddedOnce(dancer.messages)'
    BY <1>2, <1>3 DEF IInv, MessageInv, AddedOnce
  <2>6. \A s \in Sockets : sendBufs'[s] + Cardinality(OfData(s, pipe.data))'
                             + Cardinality(OfData(s, dancer.messages))' <= MaxBufs
    BY <1>2, <1>3, <2>3 DEF OfData
  <2>7. DOMAIN dancer'.messages = {}
    BY <1>2
  <2>. QED
    BY <2>4, <2>5, <2>6, <2>7 DEF MessageInv
<1>8. RoundInv'
  <2>1. ToHandle' = {}
    BY <1>2 DEF ToHandle
  <2>2. \A s \in Sockets : s >= lastFD' => place'[s] = "none"
    BY <1>1, <1>4, FdFacts DEF IInv, RoundInv
  <2>. QED
    BY <1>2, <2>1, <2>2 DEF RoundInv
<1>9. SocketInv'
  <2>. SUFFICES ASSUME NEW s \in Sockets, place'[s] \in {"held", "piped", "mapped"} PROVE SocketOK(s)'
    BY DEF SocketInv
  <2>1. s \in Fds \ {Pipe} /\ "in" \notin dancer.revents[s] /\ "in" \notin dancer'.revents[s]
    BY <1>1, <1>2, FdFacts DEF ToHandle
  <2>2. /\ place'[s] = place[s] /\ net'[s] = net[s] /\ waiting'[s] = waiting[s] /\ SocketOK(s)
    BY <1>4, <2>1 DEF IInv, SocketInv
  <2>3. ~ Failing(s)
    BY <1>1 DEF Failing
  <2>. QED
    BY <1>3, <2>1, <2>2, <2>3, SocketStays
<1>. QED
  BY <1>5, <1>6, <1>7, <1>8, <1>9 DEF IInv

-----------------------------------------------------------------------------
(* The invariant.                                                          *)

LEMMA InitInv == Init => IInv
<1>. SUFFICES ASSUME Init PROVE IInv
  OBVIOUS
<1>1. dancer \in DancerType /\ dancer.phase = "build" /\ dancer.messages = <<>> /\ dancer.cleanup = FALSE
      /\ \A f \in Fds : dancer.revents[f] = {}
  BY FdFacts DEF Init, NewRound, DancerType
<1>2. pipe.data = <<>> /\ pipe.event = "reset" /\ pipe.writable = TRUE
  BY DEF Init
<1>3. TypeOK
  <2>1. net \in [Fds \ {Pipe} -> NetType]
    BY DEF Init, Unselected, NetType
  <2>2. waiting \in [Fds \ {Pipe} -> Nat] /\ waiting[TheListener] <= MaxBacklog
        /\ \A s \in Sockets : waiting[s] <= MaxIn
    BY FdFacts DEF Init
  <2>3. sendBufs \in [Sockets -> 0 .. MaxBufs] /\ lastFD \in 2 .. MaxFd + 1
    BY FdFacts DEF Init
  <2>4. pipe \in [data : Seq(Messages), event : {"reset", "set", "closed"}, writable : BOOLEAN]
    BY DEF Init
  <2>. QED
    BY <1>1, <2>1, <2>2, <2>3, <2>4 DEF Init, TypeOK, NetType, DancerType, Ends
<1>4. PipeInv
  BY <1>1, <1>2, FdFacts DEF PipeInv
<1>5. MessageInv
  <2>1. \A s \in Sockets : sendBufs[s] = 0
    BY DEF Init
  <2>2. \A s \in Sockets : sendBufs[s] + Cardinality(OfData(s, pipe.data))
                             + Cardinality(OfData(s, dancer.messages)) <= MaxBufs
    BY <1>1, <1>2, <2>1, CountOfNone, FdFacts
  <2>. QED
    BY <1>1, <1>2, <2>2 DEF MessageInv, AddedOnce
<1>6. RoundInv
  <2>1. ToHandle = {}
    BY <1>1 DEF ToHandle
  <2>2. \A s \in Sockets : place[s] = "none"
    BY FdFacts DEF Init
  <2>. QED
    BY <1>1, <2>1, <2>2 DEF RoundInv
<1>7. SocketInv
  BY FdFacts DEF Init, SocketInv
<1>. QED
  BY <1>3, <1>4, <1>5, <1>6, <1>7 DEF IInv

LEMMA StutterKeeps == ASSUME IInv, UNCHANGED vars PROVE IInv'
<1>1. UNCHANGED <<pipe, lastFD, place, socketVars, errno, dancer>> /\ dancer \in DancerType
  BY DancerTyped DEF vars
<1>2. Handles' = Handles /\ ToHandle' = ToHandle /\ ToSend' = ToSend
  BY <1>1 DEF Handles, Mapped, ToHandle, ToSend
<1>3. PipeInv'
  BY <1>1, <1>2 DEF IInv, PipeInv
<1>4. RoundInv'
  BY <1>1, <1>2 DEF IInv, RoundInv
<1>. QED
  BY <1>1, <1>3, <1>4, PollKeeps

LEMMA NextInv == IInv /\ [Next]_vars => IInv'
<1>. SUFFICES ASSUME IInv, [Next]_vars PROVE IInv'
  OBVIOUS
<1>1. CASE UNCHANGED vars
  BY <1>1, StutterKeeps
<1>2. CASE Dancer
  BY <1>2, PollCollectKeeps, PollWaitKeeps, PollWakeKeeps, PollCheckKeeps, PipeIoctlKeeps, PipeReadKeeps,
     AcceptKeeps, AcceptFailsKeeps, ClientIoctlKeeps, ClientRecvKeeps, ClientSendKeeps,
     ClientSendBlocksKeeps, ClientSendFailsKeeps, HandleMessageKeeps, NextRoundKeeps, DancerEndsKeeps
     DEF Dancer
<1>3. CASE Others
  BY <1>3, PeerConnectsKeeps, PeerGivesUpKeeps, PeerReadsKeeps, PeerActsKeeps, ConnectKeeps, BindKeeps,
     HandKeeps, AskKeeps, ClosePipeKeeps
     DEF Others
<1>4. CASE PollBroken
  BY <1>4, PollBrokenKeeps
<1>. QED
  BY <1>1, <1>2, <1>3, <1>4 DEF Next

LEMMA Invariance == Spec => []IInv
BY InitInv, NextInv, PTL DEF Spec

(* What the emulation keeps of a descriptor is what its operations expect  *)
(* of it: the entries of fdVec, the events of Winsock, the buffers and the *)
(* round of poll have their shape whatever the order of their steps        *)
(* (VCNetworking.cpp, networking.cpp: PollDancer).                         *)
THEOREM TypeCorrect == Spec => []TypeOK
<1>1. IInv => TypeOK
  BY DEF IInv
<1>. QED
  BY <1>1, Invariance, PTL

(* Input without data is an end, of the program or of a connection: poll   *)
(* (VCNetworking.cpp:98-123) never reports input that is gone, though the  *)
(* event of the pipe is set by hand and a Winsock event is recorded long   *)
(* before it is looked at.                                                 *)
THEOREM NoEndIsImagined == Spec => []EndsAreReal
<1>1. IInv => EndsAreReal
  <2>. SUFFICES ASSUME IInv PROVE EndsAreReal
    OBVIOUS
  <2>1. dancer.cleanup /\ ~ Ended => ~ pipe.writable \/ Cardinality(Handles) > MaxHandles
    BY DEF IInv, PipeInv, Ended
  <2>2. \A i \in DOMAIN dancer.messages : Queued(dancer.messages[i])
    BY DEF IInv, MessageInv
  <2>. QED
    BY <2>1, <2>2 DEF EndsAreReal, Queued
<1>. QED
  BY <1>1, Invariance, PTL

(* The dancer waits without a time limit in poll (VCNetworking.cpp:88), and*)
(* what it waits for is not there yet: no data, no end, no room.           *)
THEOREM NoEventIsLost == Spec => []SleepsOnlyWhenIdle
<1>1. IInv => SleepsOnlyWhenIdle
  <2>. SUFFICES ASSUME IInv, dancer.phase = "asleep", Signalled = {}, pipe.writable
       PROVE  /\ pipe.data = <<>>
              /\ \A s \in Sockets \cap Mapped : waiting[s] = 0 /\ peer[s] = "open"
              /\ \A s \in ToSend : ~ room[s]
    BY DEF SleepsOnlyWhenIdle
  <2>1. ToHandle = {} /\ dancer.messages = <<>>
    BY DEF IInv, RoundInv
  <2>2. \A f \in Fds : dancer.revents[f] = {}
    BY <2>1 DEF ToHandle
  <2>3. pipe.data = <<>>
    <3>1. pipe.event # "set"
      BY FdFacts DEF Signalled, Handles
    <3>2. pipe.event # "closed"
      BY DEF IInv, PipeInv
    <3>. QED
      BY <3>1, <3>2 DEF IInv, PipeInv
  <2>4. ASSUME NEW s \in Sockets \cap Mapped
        PROVE  waiting[s] = 0 /\ peer[s] = "open" /\ (s \in ToSend => ~ room[s])
    <3>1. s \in Fds \ {Pipe} /\ s \in Handles /\ SocketOK(s) /\ waiting[s] \in Nat /\ peer[s] \in Ends
      BY FdFacts DEF Mapped, Handles, IInv, SocketInv, TypeOK
    <3>2. ~ net[s].event
      BY <3>1 DEF Signalled
    <3>3. net[s].record = {} /\ ~ Failing(s) /\ "in" \notin dancer.revents[s]
      BY <2>1, <2>2, <3>1, <3>2 DEF SocketOK, Failing
    <3>4. waiting[s] = 0 /\ peer[s] = "open"
      BY <3>1, <3>3 DEF SocketOK, Ends
    <3>5. s \in ToSend => ~ sendReady[s]
      BY <2>2, <3>1 DEF IInv, RoundInv
    <3>. QED
      BY <3>1, <3>3, <3>4, <3>5 DEF SocketOK
  <2>5. ToSend \subseteq Sockets \cap Mapped
    BY DEF ToSend
  <2>. QED
    BY <2>3, <2>4, <2>5
<1>. QED
  BY <1>1, Invariance, PTL
=============================================================================
