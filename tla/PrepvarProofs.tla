---------------------------- MODULE PrepvarProofs ----------------------------
(***************************************************************************)
(* Every block has one owner (OneOwner) and holds the value that was put   *)
(* in it (HoldsWhatWasGiven), which the runs check on three holders, for   *)
(* every number of holders, blocks and bytes, whatever an uninitialised    *)
(* size is and whichever allocations throw.                                *)
(*                                                                         *)
(* A method deletes what a holder owns, allocates for one, or both, so the *)
(* argument is about the two halves: Release takes a holder out of the     *)
(* owners, Acquire and AcquireNothing put one in.  The values rest on it:  *)
(* what one holder deletes or allocates is no other's block.               *)
(***************************************************************************)
EXTENDS Prepvar, FiniteSetTheorems, SequenceTheorems, WellFoundedInduction, TLAPS

\* OneOwner of any holders l with types t and blocks d, in the heap m.
Owned(l, t, d, m) ==
  /\ \A h \in l : t[h] # "Null" => d[h] \in Blocks /\ m[d[h]].type = t[h]
  /\ \A h, g \in l : t[h] # "Null" /\ t[g] # "Null" /\ d[h] = d[g] => h = g
  /\ \A b \in Blocks : m[b] # Free => \E h \in l : t[h] # "Null" /\ d[h] = b

\* The invariant: OneOwner, and what the members are.
IInv ==
  /\ live \subseteq Holders
  /\ type \in [Holders -> Types \cup {"Null"}]
  /\ DOMAIN data = Holders
  /\ DOMAIN heap = Blocks
  /\ Owned(live, type, data, heap)

LEMMA IInvOneOwner == IInv => OneOwner
BY DEF IInv, Owned, OneOwner

-----------------------------------------------------------------------------

\* Cleanup deletes the block of the holder it leaves, and no other's.
LEMMA Release ==
  ASSUME NEW l, NEW t, NEW d, NEW m, Owned(l, t, d, m), DOMAIN m = Blocks,
         NEW h \in l, t[h] \in Types \cup {"Null"}
  PROVE  Owned(l \ {h}, t, d, IF t[h] = "Null" THEN m ELSE [m EXCEPT ![d[h]] = Free])
<1>1. CASE t[h] = "Null"
  BY <1>1 DEF Owned
<1>2. CASE t[h] # "Null"
  <2> DEFINE n == [m EXCEPT ![d[h]] = Free]
  <2>1. d[h] \in Blocks
    BY <1>2 DEF Owned
  <2>2. \A g \in l \ {h} : t[g] # "Null" => d[g] \in Blocks /\ n[d[g]].type = t[g]
    BY <1>2, <2>1 DEF Owned
  <2>3. \A b \in Blocks : n[b] # Free => \E g \in l \ {h} : t[g] # "Null" /\ d[g] = b
    BY <1>2, <2>1 DEF Owned
  <2>4. \A g, k \in l \ {h} : t[g] # "Null" /\ t[k] # "Null" /\ d[g] = d[k] => g = k
    BY DEF Owned
  <2> QED
    BY <1>2, <2>2, <2>3, <2>4 DEF Owned
<1> QED
  BY <1>1, <1>2

\* FromData makes a holder that owned nothing the owner of a free block.
LEMMA Acquire ==
  ASSUME NEW l \in SUBSET Holders, NEW t, NEW d, NEW m, Owned(l, t, d, m),
         t \in [Holders -> Types \cup {"Null"}], DOMAIN d = Holders, DOMAIN m = Blocks,
         NEW h \in Holders, h \notin l,
         NEW b \in Blocks, m[b] = Free,
         NEW v, v.type \in Types
  PROVE  Owned(l \cup {h}, [t EXCEPT ![h] = v.type], [d EXCEPT ![h] = b], [m EXCEPT ![b] = v])
<1> DEFINE u == [t EXCEPT ![h] = v.type]
           e == [d EXCEPT ![h] = b]
           n == [m EXCEPT ![b] = v]
<1>1. /\ u[h] = v.type /\ e[h] = b /\ n[b] = v
      /\ \A g \in l : u[g] = t[g] /\ e[g] = d[g]
      /\ \A c \in Blocks : c # b => n[c] = m[c]
  OBVIOUS
<1>2. "Free" \notin Types /\ "Null" \notin Types
  BY DEF Types
<1>3. \A g \in l : t[g] # "Null" => d[g] # b
  <2> SUFFICES ASSUME NEW g \in l, t[g] # "Null", d[g] = b
               PROVE  FALSE
    OBVIOUS
  <2>1. m[b].type = t[g]
    BY DEF Owned
  <2>2. m[b].type = "Free"
    BY DEF Free, Value
  <2> QED
    BY <1>2, <2>1, <2>2 DEF Types
<1>4. \A g \in l \cup {h} : u[g] # "Null" => e[g] \in Blocks /\ n[e[g]].type = u[g]
  BY <1>1, <1>3 DEF Owned
<1>5. \A g, k \in l \cup {h} : u[g] # "Null" /\ u[k] # "Null" /\ e[g] = e[k] => g = k
  BY <1>1, <1>3 DEF Owned
<1>6. \A c \in Blocks : n[c] # Free => \E g \in l \cup {h} : u[g] # "Null" /\ e[g] = c
  BY <1>1, <1>2 DEF Owned
<1> QED
  BY <1>4, <1>5, <1>6 DEF Owned

\* A holder made without a value owns nothing.
LEMMA AcquireNothing ==
  ASSUME NEW l \in SUBSET Holders, NEW t, NEW d, NEW m, Owned(l, t, d, m),
         t \in [Holders -> Types \cup {"Null"}],
         NEW h \in Holders, h \notin l,
         NEW e, \A g \in l : e[g] = d[g]
  PROVE  Owned(l \cup {h}, [t EXCEPT ![h] = "Null"], e, m)
BY DEF Owned

-----------------------------------------------------------------------------
(* The pieces of the methods, in terms of the members' next values.        *)

\* What FromData leaves, once Cleanup has taken h out of the owners in freed.
LEMMA FromDataKeeps ==
  ASSUME IInv, NEW h \in Holders, NEW v, v.type \in Types,
         NEW freed, DOMAIN freed = Blocks,
         Owned(live \ {h}, type, data, freed),
         FromData(h, v, freed)
  PROVE  /\ type' \in [Holders -> Types \cup {"Null"}]
         /\ DOMAIN data' = Holders
         /\ DOMAIN heap' = Blocks
         /\ Owned(live \cup {h}, type', data', heap')
<1>1. PICK b \in Blocks :
        /\ freed[b] = Free
        /\ heap' = [freed EXCEPT ![b] = Stored(v)]
        /\ data' = [data EXCEPT ![h] = b]
        /\ type' = [type EXCEPT ![h] = v.type]
  BY DEF FromData
<1>2. Stored(v).type = v.type
  BY DEF Stored, Value
<1>3. Owned((live \ {h}) \cup {h}, type', data', heap')
  BY <1>1, <1>2, Acquire DEF IInv
<1>4. (live \ {h}) \cup {h} = live \cup {h}
  OBVIOUS
<1> QED
  BY <1>1, <1>3, <1>4 DEF IInv

\* What Emptied leaves, in the same way.
LEMMA EmptiedKeeps ==
  ASSUME IInv, NEW h \in Holders,
         NEW freed, DOMAIN freed = Blocks,
         Owned(live \ {h}, type, data, freed),
         Emptied(h, freed)
  PROVE  /\ type' \in [Holders -> Types \cup {"Null"}]
         /\ DOMAIN data' = Holders
         /\ DOMAIN heap' = Blocks
         /\ Owned(live \cup {h}, type', data', heap')
         /\ Owned(live \ {h}, type', data', heap')
<1>1. /\ heap' = freed
      /\ type' = [type EXCEPT ![h] = "Null"]
      /\ data' = [data EXCEPT ![h] = IF type[h] = "Null" THEN @ ELSE NoBlock]
  BY DEF Emptied
<1>2. \A g \in live \ {h} : data'[g] = data[g] /\ type'[g] = type[g]
  BY <1>1 DEF IInv
<1>3. Owned((live \ {h}) \cup {h}, type', data', heap')
  BY <1>1, <1>2, AcquireNothing DEF IInv
<1>4. (live \ {h}) \cup {h} = live \cup {h}
  OBVIOUS
<1>5. Owned(live \ {h}, type', data', heap')
  BY <1>1, <1>2 DEF Owned
<1> QED
  BY <1>1, <1>3, <1>4, <1>5 DEF IInv

\* CleanupHeap is what Release is about; the heap as it is serves a holder not live.
LEMMA CleanupHeapReleases ==
  ASSUME IInv, NEW h \in live
  PROVE  /\ DOMAIN CleanupHeap(h) = Blocks
         /\ Owned(live \ {h}, type, data, CleanupHeap(h))
BY Release DEF IInv, CleanupHeap

LEMMA ValueOfTyped ==
  ASSUME IInv, NEW g \in Holders, type[g] # "Null"
  PROVE  ValueOf(g).type \in Types
BY DEF IInv, ValueOf, Stored, Value

-----------------------------------------------------------------------------

LEMMA InitIInv == Init => IInv
BY DEF Init, IInv, Owned

LEMMA NextIInv == IInv /\ [Next]_vars => IInv'
<1> SUFFICES ASSUME IInv, [Next]_vars
             PROVE  IInv'
  OBVIOUS
<1> USE DEF IInv
<1>1. CASE UNCHANGED vars
  BY <1>1 DEF vars, Owned
<1>2. ASSUME NEW h \in Holders, NEW v \in Values, Construct(h, v)
      PROVE  IInv'
  <2>1. v.type \in Types
    BY DEF Values, Types
  <2>2. h \notin live /\ live' = live \cup {h} /\ live \ {h} = live
    BY <1>2 DEF Construct
  <2> QED
    BY <1>2, <2>1, <2>2, FromDataKeeps DEF Construct
<1>3. ASSUME NEW h \in Holders, ConstructNull(h)
      PROVE  IInv'
  BY <1>3, AcquireNothing DEF ConstructNull
<1>4. ASSUME NEW h \in Holders, NEW bytes \in Strings, NEW n \in Garbage,
             ConstructVector(h, bytes, n)
      PROVE  IInv'
  <2>1. PICK behind \in [1 .. n -> Bytes] :
          FromData(h, Value("Blob", SubSeq(bytes \o behind, 1, n)), heap)
    BY <1>4 DEF ConstructVector
  <2>2. Value("Blob", SubSeq(bytes \o behind, 1, n)).type \in Types
    BY DEF Value, Types
  <2>3. h \notin live /\ live' = live \cup {h} /\ live \ {h} = live
    BY <1>4 DEF ConstructVector
  <2> QED
    BY <2>1, <2>2, <2>3, FromDataKeeps
<1>5. ASSUME NEW h \in Holders, NEW g \in Holders, Copy(h, g)
      PROVE  IInv'
  <2>1. h \notin live /\ live' = live \cup {h} /\ live \ {h} = live
    BY <1>5 DEF Copy
  <2>2. CASE type[g] = "Null"
    BY <1>5, <2>1, <2>2, EmptiedKeeps DEF Copy
  <2>3. CASE type[g] # "Null"
    BY <1>5, <2>1, <2>3, FromDataKeeps, ValueOfTyped DEF Copy
  <2> QED
    BY <2>2, <2>3
<1>6. ASSUME NEW h \in Holders, NEW g \in Holders, Assign(h, g)
      PROVE  IInv'
  <2>1. h \in live /\ live' = live /\ live \cup {h} = live
    BY <1>6 DEF Assign
  <2>2. DOMAIN CleanupHeap(h) = Blocks /\ Owned(live \ {h}, type, data, CleanupHeap(h))
    BY <2>1, CleanupHeapReleases
  <2>3. CASE type[g] = "Null"
    BY <1>6, <2>1, <2>2, <2>3, EmptiedKeeps DEF Assign
  <2>4. CASE type[g] # "Null"
    BY <1>6, <2>1, <2>2, <2>4, FromDataKeeps, ValueOfTyped DEF Assign
  <2> QED
    BY <2>3, <2>4
<1>7. ASSUME NEW h \in Holders, Empty(h)
      PROVE  IInv'
  <2>1. h \in live /\ live' = live /\ live \cup {h} = live
    BY <1>7 DEF Empty
  <2> QED
    BY <1>7, <2>1, CleanupHeapReleases, EmptiedKeeps DEF Empty
<1>8. ASSUME NEW h \in Holders, AssignSelf(h)
      PROVE  IInv'
  <2>1. h \in live /\ live' = live /\ live \cup {h} = live
    BY <1>8 DEF AssignSelf
  <2> QED
    BY <1>8, <2>1, CleanupHeapReleases, EmptiedKeeps DEF AssignSelf
<1>9. ASSUME NEW h \in Holders, Destroy(h)
      PROVE  IInv'
  BY <1>9, CleanupHeapReleases, EmptiedKeeps DEF Destroy
<1> QED
  BY <1>1, <1>2, <1>3, <1>4, <1>5, <1>6, <1>7, <1>8, <1>9 DEF Next

\* Whatever the program does with its holders, each block is owned by one of them and
\* deleted once, in the way it was allocated (prepvar.cpp:148).
THEOREM PrepvarOneOwner == Spec => []OneOwner
<1>1. Init => IInv
  BY InitIInv
<1>2. IInv /\ [Next]_vars => IInv'
  BY NextIInv
<1>3. IInv => OneOwner
  BY IInvOneOwner
<1> QED
  BY <1>1, <1>2, <1>3, PTL DEF Spec

-----------------------------------------------------------------------------
(* What a holder's block holds: the value given, a text up to its first    *)
(* NUL.  Its bytes have no NUL then, so that reading or copying it finds   *)
(* all of it, and the size of a blob is that of its block.                 *)

TypedValues == [type : Types, bytes : Seq(Bytes)]

\* What a block that holds v says of the value x the program gave.
StoresGiven(x, v) == x = Unknown \/ (x \in TypedValues /\ Stored(x) = v)

Kept(h) ==
  /\ type[h] = "Null" => given[h] = Null \/ h \in lost
  /\ type[h] # "Null" =>
       /\ h \notin lost
       /\ heap[data[h]] \in [type : {type[h]}, bytes : Seq(Bytes)]
       /\ type[h] = "Text" => \A i \in DOMAIN heap[data[h]].bytes : heap[data[h]].bytes[i] # Nul
       /\ type[h] = "Blob" => size[h] = Len(heap[data[h]].bytes)
       /\ StoresGiven(given[h], heap[data[h]])

ValueInv ==
  /\ DOMAIN size = Holders /\ DOMAIN given = Holders
  /\ \A h \in live : Kept(h)

\* strlen finds an end: the first NUL, or that of the bytes.
LEMMA FirstNul ==
  ASSUME NEW bytes \in Seq(Bytes)
  PROVE  \E n \in 0 .. Len(bytes) : /\ \A i \in 1 .. n : bytes[i] # Nul
                                    /\ n < Len(bytes) => bytes[n + 1] = Nul
<1>1. CASE \A i \in 1 .. Len(bytes) : bytes[i] # Nul
  <2>1. Len(bytes) \in 0 .. Len(bytes)
    OBVIOUS
  <2>. QED
    BY <1>1, <2>1
<1>2. CASE \E i \in 1 .. Len(bytes) : bytes[i] = Nul
  <2>. DEFINE T == {0 .. y : y \in {i \in 1 .. Len(bytes) : bytes[i] = Nul}}
  <2>1. T \subseteq FiniteSubsetsOf(Nat) /\ T # {}
    <3>1. \A y \in 1 .. Len(bytes) : y \in Int /\ 0 .. y \subseteq Nat
      OBVIOUS
    <3>2. \A y \in 1 .. Len(bytes) : IsFiniteSet(0 .. y)
      BY <3>1, FS_Interval
    <3>. QED
      BY <1>2, <3>1, <3>2 DEF FiniteSubsetsOf
  <2>2. PICK x \in T : \A z \in T : <<z, x>> \notin StrictSubsetOrdering(Nat)
    BY <2>1, FS_StrictSubsetOrderingWellFounded, WFMin
  <2>3. PICK m \in 1 .. Len(bytes) : bytes[m] = Nul /\ x = 0 .. m
    BY DEF T
  <2>4. ASSUME NEW y \in 1 .. m - 1 PROVE bytes[y] # Nul
    <3>. SUFFICES ASSUME bytes[y] = Nul PROVE FALSE
      OBVIOUS
    <3>1. 0 .. y \subseteq 0 .. m /\ m \in 0 .. m /\ m \notin 0 .. y /\ 0 .. m \subseteq Nat
          /\ y \in 1 .. Len(bytes)
      BY <2>3
    <3>2. <<0 .. y, 0 .. m>> \in StrictSubsetOrdering(Nat)
      BY <3>1 DEF StrictSubsetOrdering
    <3>3. 0 .. y \in T
      BY <3>1
    <3>. QED
      BY <2>2, <2>3, <3>2, <3>3
  <2>5. m - 1 \in 0 .. Len(bytes) /\ bytes[(m - 1) + 1] = Nul
    BY <2>3
  <2>. HIDE DEF T
  <2>. QED
    BY <2>4, <2>5
<1>. QED
  BY <1>1, <1>2

\* strcpy copies bytes without a NUL, and all of those that have none.
LEMMA CStringFacts ==
  ASSUME NEW bytes \in Seq(Bytes)
  PROVE  /\ CString(bytes) \in Seq(Bytes)
         /\ \A i \in DOMAIN CString(bytes) : CString(bytes)[i] # Nul
         /\ (\A i \in DOMAIN bytes : bytes[i] # Nul) => CString(bytes) = bytes
<1>1. PICK n \in 0 .. Len(bytes) :
        /\ CString(bytes) = SubSeq(bytes, 1, n)
        /\ \A i \in 1 .. n : bytes[i] # Nul
        /\ n < Len(bytes) => bytes[n + 1] = Nul
  <2>. DEFINE P(n) == /\ \A i \in 1 .. n : bytes[i] # Nul
                      /\ n < Len(bytes) => bytes[n + 1] = Nul
              k == CHOOSE n \in 0 .. Len(bytes) : P(n)
  <2>1. \E n \in 0 .. Len(bytes) : P(n)
    BY FirstNul
  <2>2. CString(bytes) = SubSeq(bytes, 1, k)
    BY DEF CString
  <2>. HIDE DEF P
  <2>3. k \in 0 .. Len(bytes) /\ P(k)
    BY <2>1
  <2>. HIDE DEF k
  <2>. QED
    BY <2>2, <2>3 DEF P
<1>2. /\ Len(bytes) \in Nat /\ n \in Nat /\ n <= Len(bytes) /\ DOMAIN bytes = 1 .. Len(bytes)
      /\ \A i \in 1 .. n : i \in 1 .. Len(bytes) /\ bytes[i] \in Bytes
  OBVIOUS
<1>3. /\ SubSeq(bytes, 1, n) \in Seq(Bytes) /\ DOMAIN SubSeq(bytes, 1, n) = 1 .. n
      /\ \A i \in 1 .. n : SubSeq(bytes, 1, n)[i] = bytes[i]
  BY <1>2
<1>4. ASSUME \A i \in DOMAIN bytes : bytes[i] # Nul PROVE SubSeq(bytes, 1, n) = bytes
  <2>1. CASE n < Len(bytes)
    <3>1. n + 1 \in DOMAIN bytes /\ bytes[n + 1] = Nul
      BY <1>1, <1>2, <2>1
    <3>. QED
      BY <1>4, <3>1
  <2>2. CASE n = Len(bytes)
    BY <1>2, <2>2
  <2>3. n < Len(bytes) \/ n = Len(bytes)
    <3>1. \A a, b \in Nat : a <= b => a < b \/ a = b
      OBVIOUS
    <3>. QED
      BY <1>2, <3>1
  <2>. QED
    BY <2>1, <2>2, <2>3
<1>. QED
  BY <1>1, <1>3, <1>4

\* A value as FromData stores it, and again when it is copied.
LEMMA StoredFacts ==
  ASSUME NEW v \in TypedValues
  PROVE  /\ Stored(v) \in [type : {v.type}, bytes : Seq(Bytes)]
         /\ v.type = "Text" => \A i \in DOMAIN Stored(v).bytes : Stored(v).bytes[i] # Nul
         /\ v.type = "Blob" => Len(Stored(v).bytes) = Len(v.bytes)
         /\ (v.type = "Text" => \A i \in DOMAIN v.bytes : v.bytes[i] # Nul) => Stored(v) = v
<1>1. CASE v.type = "Text"
  <2>1. Stored(v) = [type |-> "Text", bytes |-> CString(v.bytes)]
    BY <1>1 DEF Stored, Value
  <2>. QED
    BY <1>1, <2>1, CStringFacts DEF TypedValues
<1>2. CASE v.type # "Text"
  BY <1>2 DEF Stored, TypedValues
<1>. QED
  BY <1>1, <1>2

\* The value in a holder is its block.
LEMMA ValueIsBlock ==
  ASSUME IInv, ValueInv, NEW h \in live, type[h] # "Null"
  PROVE  /\ ValueOf(h) = heap[data[h]] /\ Stored(heap[data[h]]) = heap[data[h]]
         /\ heap[data[h]] \in TypedValues
         /\ heap[data[h]].type = type[h]
         /\ h \notin lost /\ StoresGiven(given[h], heap[data[h]])
<1>. DEFINE v == heap[data[h]]
<1>1. /\ v \in [type : {type[h]}, bytes : Seq(Bytes)] /\ type[h] \in Types
      /\ type[h] = "Text" => \A i \in DOMAIN v.bytes : v.bytes[i] # Nul
      /\ type[h] = "Blob" => size[h] = Len(v.bytes)
      /\ v \in TypedValues
      /\ h \notin lost /\ StoresGiven(given[h], v)
  BY DEF IInv, ValueInv, Kept, TypedValues
<1>2. ValueOf(h) = Stored(Value(type[h], IF type[h] = "Blob" THEN SubSeq(v.bytes, 1, size[h]) ELSE v.bytes))
  BY DEF ValueOf
<1>. HIDE DEF v
<1>3. (IF type[h] = "Blob" THEN SubSeq(v.bytes, 1, size[h]) ELSE v.bytes) = v.bytes
  BY <1>1
<1>4. Value(type[h], v.bytes) = v
  BY <1>1 DEF Value
<1>5. Stored(v) = v
  BY <1>1, StoredFacts
<1>. QED
  BY <1>1, <1>2, <1>3, <1>4, <1>5 DEF v

\* What a method leaves of the holders it has nothing to do with.
LEMMA OthersKeep ==
  ASSUME IInv, ValueInv, NEW h \in Holders, NEW freed,
         \A g \in live \ {h} : type[g] # "Null" => freed[data[g]] = heap[data[g]],
         \A g \in live \ {h} : /\ type'[g] = type[g] /\ data'[g] = data[g]
                               /\ size'[g] = size[g] /\ given'[g] = given[g]
                               /\ (g \in lost' <=> g \in lost),
         \A g \in live \ {h} : type[g] # "Null" => heap'[data[g]] = freed[data[g]]
  PROVE  \A g \in live \ {h} : Kept(g)'
<1>. SUFFICES ASSUME NEW g \in live \ {h} PROVE Kept(g)'
  OBVIOUS
<1>1. Kept(g)
  BY DEF ValueInv
<1>2. /\ type'[g] = type[g] /\ data'[g] = data[g] /\ size'[g] = size[g] /\ given'[g] = given[g]
      /\ (g \in lost' <=> g \in lost)
      /\ type[g] # "Null" => heap'[data[g]] = heap[data[g]]
  OBVIOUS
<1>3. CASE type[g] = "Null"
  BY <1>1, <1>2, <1>3 DEF Kept
<1>4. CASE type[g] # "Null"
  <2>1. heap'[data'[g]] = heap[data[g]]
    BY <1>2, <1>4
  <2>. QED
    BY <1>1, <1>2, <1>4, <2>1 DEF Kept
<1>. QED
  BY <1>3, <1>4

\* FromData, when the value given is stored as v is, or is nobody's.
LEMMA FromDataHolds ==
  ASSUME IInv, ValueInv, NEW h \in Holders, NEW freed, DOMAIN freed = Blocks,
         Owned(live \ {h}, type, data, freed),
         \A g \in live \ {h} : type[g] # "Null" => freed[data[g]] = heap[data[g]],
         NEW v, v \in TypedValues,
         FromData(h, v, freed),
         NEW x, StoresGiven(x, Stored(v)), given' = [given EXCEPT ![h] = x],
         lost' = lost \ {h}, live' = live \cup {h}
  PROVE  ValueInv'
<1>1. PICK b \in Blocks :
        /\ freed[b] = Free
        /\ heap' = [freed EXCEPT ![b] = Stored(v)]
        /\ data' = [data EXCEPT ![h] = b]
        /\ type' = [type EXCEPT ![h] = v.type]
        /\ size' = [size EXCEPT ![h] = IF v.type = "Blob" THEN Len(v.bytes) ELSE @]
  BY DEF FromData
<1>2. DOMAIN size' = Holders /\ DOMAIN given' = Holders
  BY <1>1 DEF ValueInv
<1>3. \A g \in live \ {h} : type[g] # "Null" => data[g] # b
  <2>. SUFFICES ASSUME NEW g \in live \ {h}, type[g] # "Null", data[g] = b PROVE FALSE
    OBVIOUS
  <2>1. heap[b].type = type[g] /\ freed[b] = heap[b]
    BY DEF IInv, Owned
  <2>2. freed[b].type = "Free"
    BY <1>1 DEF Free, Value
  <2>. QED
    BY <2>1, <2>2 DEF IInv, Types
<1>4. \A g \in live \ {h} : Kept(g)'
  <2>1. \A g \in live \ {h} : /\ type'[g] = type[g] /\ data'[g] = data[g]
                              /\ size'[g] = size[g] /\ given'[g] = given[g]
                              /\ (g \in lost' <=> g \in lost)
    BY <1>1
  <2>2. \A g \in live \ {h} : type[g] # "Null" => heap'[data[g]] = freed[data[g]]
    BY <1>1, <1>3
  <2>. QED
    BY <2>1, <2>2, OthersKeep
<1>5. Kept(h)'
  <2>1. /\ type'[h] = v.type /\ heap'[data'[h]] = Stored(v) /\ given'[h] = x
        /\ v.type = "Blob" => size'[h] = Len(v.bytes)
        /\ h \notin lost'
    BY <1>1 DEF IInv, ValueInv
  <2>2. v.type # "Null"
    BY DEF Types, TypedValues
  <2>3. /\ Stored(v) \in [type : {v.type}, bytes : Seq(Bytes)]
        /\ v.type = "Text" => \A i \in DOMAIN Stored(v).bytes : Stored(v).bytes[i] # Nul
        /\ v.type = "Blob" => Len(Stored(v).bytes) = Len(v.bytes)
    BY StoredFacts
  <2>. QED
    BY <2>1, <2>2, <2>3 DEF Kept
<1>. QED
  BY <1>2, <1>4, <1>5 DEF ValueInv

\* Emptied, of a holder that is given no value, loses the one it had, or is deleted.
LEMMA EmptiedHolds ==
  ASSUME IInv, ValueInv, NEW h \in Holders, NEW freed, DOMAIN freed = Blocks,
         \A g \in live \ {h} : type[g] # "Null" => freed[data[g]] = heap[data[g]],
         Emptied(h, freed),
         DOMAIN given' = Holders, \A g \in Holders \ {h} : given'[g] = given[g],
         \A g \in Holders \ {h} : g \in lost' <=> g \in lost,
         \/ live' = live \ {h}
         \/ live' = live \cup {h} /\ (given'[h] = Null \/ h \in lost')
  PROVE  ValueInv'
<1>1. /\ heap' = freed
      /\ type' = [type EXCEPT ![h] = "Null"]
      /\ data' = [data EXCEPT ![h] = IF type[h] = "Null" THEN @ ELSE NoBlock]
      /\ size' = [size EXCEPT ![h] = IF type[h] = "Null" THEN @ ELSE 0]
  BY DEF Emptied
<1>2. DOMAIN size' = Holders
  BY <1>1 DEF ValueInv
<1>3. \A g \in live \ {h} : Kept(g)'
  <2>1. \A g \in live \ {h} : /\ type'[g] = type[g] /\ data'[g] = data[g]
                              /\ size'[g] = size[g] /\ given'[g] = given[g]
                              /\ (g \in lost' <=> g \in lost)
    <3>1. \A g \in live \ {h} : g \in Holders /\ g # h
      BY DEF IInv
    <3>2. DOMAIN type = Holders /\ DOMAIN data = Holders /\ DOMAIN size = Holders
      BY DEF IInv, ValueInv
    <3>. QED
      BY <1>1, <3>1, <3>2
  <2>2. \A g \in live \ {h} : type[g] # "Null" => heap'[data[g]] = freed[data[g]]
    BY <1>1
  <2>. QED
    BY <2>1, <2>2, OthersKeep
<1>4. given'[h] = Null \/ h \in lost' => Kept(h)'
  BY <1>1 DEF IInv, Kept
<1>. QED
  BY <1>2, <1>3, <1>4 DEF ValueInv

\* Deleting what one holder owns leaves the blocks of the others as they are.
LEMMA CleanupKeepsOthers ==
  ASSUME IInv, NEW h \in live
  PROVE  \A g \in live \ {h} : type[g] # "Null" => CleanupHeap(h)[data[g]] = heap[data[g]]
BY DEF IInv, Owned, CleanupHeap

LEMMA NextValue ==
  ASSUME IInv, ValueInv, [Next]_vars PROVE ValueInv'
<1>1. CASE UNCHANGED vars
  BY <1>1 DEF vars, ValueInv, Kept
<1>2. ASSUME NEW h \in Holders, h \notin live
      PROVE  live \ {h} = live /\ DOMAIN heap = Blocks /\ Owned(live \ {h}, type, data, heap)
  BY <1>2 DEF IInv
<1>3. ASSUME NEW h \in Holders, NEW v \in Values, Construct(h, v) PROVE ValueInv'
  <2>1. v \in TypedValues
    <3>1. Strings \subseteq Seq(Bytes) /\ \A b \in Bytes : <<b>> \in Seq(Bytes)
      BY PrepvarAssumption, SeqDef DEF Strings, BoundedSeq, SeqOf
    <3>. QED
      BY <3>1 DEF Values, Types, TypedValues
  <2>2. h \notin live /\ FromData(h, v, heap) /\ given' = [given EXCEPT ![h] = v]
        /\ lost' = lost \ {h} /\ live' = live \cup {h}
    BY <1>3 DEF Construct, Gives
  <2>3. StoresGiven(v, Stored(v))
    BY <2>1 DEF StoresGiven
  <2>. QED
    BY <1>2, <2>1, <2>2, <2>3, FromDataHolds
<1>4. ASSUME NEW h \in Holders, ConstructNull(h) PROVE ValueInv'
  <2>1. h \notin live /\ live' = live \cup {h} /\ given' = [given EXCEPT ![h] = Null]
        /\ type' = [type EXCEPT ![h] = "Null"] /\ UNCHANGED <<data, size, heap>>
        /\ lost' = lost \ {h}
    BY <1>4 DEF ConstructNull, Gives
  <2>2. \A g \in live \ {h} : Kept(g)'
    BY <2>1, OthersKeep
  <2>3. Kept(h)'
    BY <2>1 DEF IInv, ValueInv, Kept
  <2>. QED
    BY <2>1, <2>2, <2>3 DEF ValueInv
<1>5. ASSUME NEW h \in Holders, NEW bytes \in Strings, NEW n \in Garbage, ConstructVector(h, bytes, n)
      PROVE  ValueInv'
  <2>1. PICK behind \in [1 .. n -> Bytes] :
          FromData(h, Value("Blob", SubSeq(bytes \o behind, 1, n)), heap)
    BY <1>5 DEF ConstructVector
  <2>2. h \notin live /\ live' = live \cup {h} /\ given' = [given EXCEPT ![h] = Unknown] /\ n \in Nat
        /\ lost' = lost \ {h} /\ StoresGiven(Unknown, Stored(Value("Blob", SubSeq(bytes \o behind, 1, n))))
    BY <1>5 DEF ConstructVector, Gives, StoresGiven
  <2>3. SubSeq(bytes \o behind, 1, n) \in Seq(Bytes)
    <3>1. bytes \in Seq(Bytes) /\ behind \in Seq(Bytes) /\ Len(behind) = n
      BY <2>2, PrepvarAssumption, SeqDef DEF Strings, BoundedSeq, SeqOf
    <3>2. bytes \o behind \in Seq(Bytes) /\ n <= Len(bytes \o behind) /\ Len(bytes \o behind) \in Nat
      BY <2>2, <3>1
    <3>3. \A i \in 1 .. n : i \in 1 .. Len(bytes \o behind)
      BY <2>2, <3>2
    <3>. QED
      BY <2>2, <3>2, <3>3
  <2>4. Value("Blob", SubSeq(bytes \o behind, 1, n)) \in TypedValues
    BY <2>3 DEF Value, Types, TypedValues
  <2>. QED
    BY <1>2, <2>1, <2>2, <2>4, FromDataHolds
<1>6. ASSUME NEW h \in Holders, NEW g \in live, g # h, NEW freed, DOMAIN freed = Blocks,
             Owned(live \ {h}, type, data, freed),
             \A k \in live \ {h} : type[k] # "Null" => freed[data[k]] = heap[data[k]],
             IF type[g] = "Null" THEN Emptied(h, freed) ELSE FromData(h, ValueOf(g), freed),
             GivesLike(h, g), live' = live \cup {h}
      PROVE  ValueInv'
  <2>. h \in Holders /\ g \in Holders /\ DOMAIN given = Holders
    BY <1>6 DEF IInv, ValueInv
  <2>1. CASE type[g] = "Null"
    <3>1. given[g] = Null \/ g \in lost
      BY <2>1 DEF ValueInv, Kept
    <3>2. DOMAIN given' = Holders /\ given'[h] = given[g] /\ \A k \in Holders \ {h} : given'[k] = given[k]
      BY <1>6 DEF GivesLike
    <3>3. (g \in lost => h \in lost') /\ \A k \in Holders \ {h} : k \in lost' <=> k \in lost
      BY <1>6 DEF GivesLike
    <3>4. given'[h] = Null \/ h \in lost'
      BY <3>1, <3>2, <3>3
    <3>5. Emptied(h, freed)
      BY <1>6, <2>1
    <3>. QED
      BY <1>6, <3>2, <3>3, <3>4, <3>5, EmptiedHolds
  <2>2. CASE type[g] # "Null"
    <3>1. PICK v \in TypedValues :
            ValueOf(g) = v /\ Stored(v) = v /\ g \notin lost /\ StoresGiven(given[g], v)
      BY <2>2, ValueIsBlock
    <3>2. FromData(h, v, freed) /\ StoresGiven(given[g], Stored(v))
      BY <1>6, <2>2, <3>1
    <3>3. given' = [given EXCEPT ![h] = given[g]] /\ lost' = lost \ {h}
      BY <1>6, <3>1 DEF GivesLike
    <3>. QED
      BY <1>6, <3>1, <3>2, <3>3, FromDataHolds
  <2>. QED
    BY <2>1, <2>2
<1>7. ASSUME NEW h \in Holders, NEW g \in Holders, Copy(h, g) PROVE ValueInv'
  <2>1. h \notin live /\ g \in live /\ g # h /\ live' = live \cup {h}
        /\ GivesLike(h, g)
        /\ IF type[g] = "Null" THEN Emptied(h, heap) ELSE FromData(h, ValueOf(g), heap)
    BY <1>7 DEF Copy
  <2>. QED
    BY <1>2, <1>6, <2>1
<1>8. ASSUME NEW h \in live
      PROVE  /\ h \in Holders /\ live \cup {h} = live
             /\ DOMAIN CleanupHeap(h) = Blocks /\ Owned(live \ {h}, type, data, CleanupHeap(h))
             /\ \A k \in live \ {h} : type[k] # "Null" => CleanupHeap(h)[data[k]] = heap[data[k]]
  BY CleanupHeapReleases, CleanupKeepsOthers DEF IInv
<1>9. ASSUME NEW h \in Holders, NEW g \in Holders, Assign(h, g) PROVE ValueInv'
  <2>1. h \in live /\ g \in live /\ g # h /\ live' = live /\ GivesLike(h, g)
        /\ IF type[g] = "Null" THEN Emptied(h, CleanupHeap(h)) ELSE FromData(h, ValueOf(g), CleanupHeap(h))
    BY <1>9 DEF Assign
  <2>2. live' = live \cup {h}
    BY <1>8, <2>1
  <2>. QED
    BY <1>6, <1>8, <2>1, <2>2
<1>10. ASSUME NEW h \in Holders, Empty(h) PROVE ValueInv'
  <2>1. h \in live /\ live' = live /\ Emptied(h, CleanupHeap(h))
        /\ given' = [given EXCEPT ![h] = Null] /\ lost' = lost \ {h}
    BY <1>10 DEF Empty, Gives
  <2>2. DOMAIN given' = Holders /\ given'[h] = Null /\ \A g \in Holders \ {h} : given'[g] = given[g]
    BY <2>1 DEF ValueInv
  <2>. QED
    BY <1>8, <2>1, <2>2, EmptiedHolds
<1>11. ASSUME NEW h \in Holders, AssignSelf(h) PROVE ValueInv'
  <2>1. h \in live /\ live' = live /\ given' = given /\ Emptied(h, CleanupHeap(h))
        /\ lost' = IF type[h] = "Null" THEN lost ELSE lost \cup {h}
    BY <1>11 DEF AssignSelf
  <2>2. DOMAIN given' = Holders /\ (given'[h] = Null \/ h \in lost')
    BY <2>1 DEF ValueInv, Kept
  <2>. QED
    BY <1>8, <2>1, <2>2, EmptiedHolds
<1>12. ASSUME NEW h \in Holders, Destroy(h) PROVE ValueInv'
  <2>1. h \in live /\ live' = live \ {h} /\ given' = given /\ Emptied(h, CleanupHeap(h))
        /\ lost' = lost \ {h} /\ DOMAIN given = Holders
    BY <1>12 DEF Destroy, ValueInv
  <2>. QED
    BY <1>8, <2>1, EmptiedHolds
<1>. QED
  BY <1>1, <1>3, <1>4, <1>5, <1>7, <1>9, <1>10, <1>11, <1>12 DEF Next

\* A holder gives back, whenever it is read, the value that was put in it or in the
\* holder it was copied from (sqlite.hpp:49), through copies of copies, assignments that
\* throw and the deletion of the holder it came from: every number and blob, and every
\* text without a NUL, unless it was assigned to itself (prepvar.cpp:135) or made from a
\* vector (prepvar.cpp:9).
THEOREM PrepvarKeepsItsValue == Spec => []HoldsWhatWasGiven
<1>1. Init => ValueInv
  BY DEF Init, ValueInv
<1>2. IInv /\ ValueInv /\ [Next]_vars => ValueInv'
  BY NextValue
<1>3. IInv /\ ValueInv => HoldsWhatWasGiven
  <2>. SUFFICES ASSUME IInv, ValueInv, NEW h \in live \ lost, given[h] # Unknown, Whole(given[h])
                PROVE  ValueOf(h) = given[h]
    BY DEF HoldsWhatWasGiven
  <2>1. CASE type[h] = "Null"
    BY <2>1 DEF ValueInv, Kept, ValueOf
  <2>2. CASE type[h] # "Null"
    BY <2>2, ValueIsBlock DEF StoresGiven, Whole
  <2>. QED
    BY <2>1, <2>2
<1>. QED
  BY <1>1, <1>2, <1>3, InitIInv, NextIInv, PTL DEF Spec

=============================================================================
