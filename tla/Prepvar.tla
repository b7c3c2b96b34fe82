------------------------------- MODULE Prepvar -------------------------------
(***************************************************************************)
(* SQLite::Prepvar of sqlite/prepvar.cpp: holders that each own a copy of  *)
(* one value in a block of the heap, which they allocate by the value's    *)
(* type and have to delete by the type they remember, through copies,      *)
(* assignments and allocations that throw.                                 *)
(*                                                                         *)
(* A block remembers how it was allocated and its bytes.  A number is a    *)
(* block of one byte; a text is the bytes before the NUL that ends it.     *)
(***************************************************************************)
EXTENDS Integers, SequencesExt

CONSTANTS
  Holders,  \* the places in memory where a Prepvar may live
  Blocks,   \* the blocks operator new may return
  Bytes,    \* what a byte may be, Nul among them
  Nul,
  MaxSize,  \* how many bytes a value has: a bound of the model
  Garbage,  \* what an int that nobody has set may be
  NoBlock   \* nullptr

Types == {"Blob", "Double", "Int", "Text"}
Strings == BoundedSeq(Bytes, MaxSize)

ASSUME PrepvarAssumption ==
  /\ NoBlock \notin Blocks
  /\ Nul \in Bytes
  /\ MaxSize \in Nat
  /\ Garbage \subseteq Int

VARIABLES
  live,   \* the holders constructed and not yet destroyed
  type, data, size, \* their members
  heap,   \* the block's allocation and bytes, or Free
  given,  \* the value the program put in each holder (history)
  lost    \* the holders whose value a self-assignment deleted (history)

vars == <<live, type, data, size, heap, given, lost>>

Value(t, bytes) == [type |-> t, bytes |-> bytes]
Null == Value("Null", <<>>)
Free == Value("Free", <<>>)

\* The values a program may pass to a constructor, a vector aside.
Values == [type : {"Blob", "Text"}, bytes : Strings]
            \cup [type : {"Double", "Int"}, bytes : {<<b>> : b \in Bytes}]

\* What became of a value that was built from a vector is anybody's guess.
Unknown == Value("Unknown", <<>>)

TypeOK ==
  /\ live \subseteq Holders
  /\ type \in [Holders -> Types \cup {"Null"}]
  /\ data \in [Holders -> Blocks \cup {NoBlock}]
  /\ size \in [Holders -> Int]
  /\ heap \in [Blocks -> [type : Types, bytes : Seq(Bytes)] \cup {Free}]
  /\ given \in [Holders -> [type : Types, bytes : Seq(Bytes)] \cup {Null, Unknown}]
  /\ lost \subseteq live

Init ==
  /\ live = {}
  /\ type = [h \in Holders |-> "Null"]
  /\ data = [h \in Holders |-> NoBlock]
  /\ size = [h \in Holders |-> 0]
  /\ heap = [b \in Blocks |-> Free]
  /\ given = [h \in Holders |-> Null]
  /\ lost = {}

-----------------------------------------------------------------------------
(* The pieces the methods are made of.                                     *)

\* strlen and strcpy: the bytes before the first NUL.
CString(bytes) ==
  SubSeq(bytes, 1, CHOOSE n \in 0 .. Len(bytes) :
                     /\ \A i \in 1 .. n : bytes[i] # Nul
                     /\ n < Len(bytes) => bytes[n + 1] = Nul)

\* A value as FromData keeps it; a text arrives as a char *.
Stored(v) == IF v.type = "Text" THEN Value("Text", CString(v.bytes)) ELSE v

\* The value in a holder, as GetValue and CopyFromOther read it: size bytes of a
\* blob, and of a text the bytes before the NUL.
ValueOf(h) ==
  IF type[h] = "Null" THEN Null
  ELSE LET bytes == heap[data[h]].bytes
       IN  Stored(Value(type[h], IF type[h] = "Blob" THEN SubSeq(bytes, 1, size[h]) ELSE bytes))

\* The heap once Cleanup has deleted what the holder owns, which it tells by its type.
CleanupLeaks(h) == heap

CleanupHeap(h) == IF type[h] = "Null" THEN heap ELSE [heap EXCEPT ![data[h]] = Free]

\* The holder as Cleanup leaves it.
Emptied(h, freed) ==
  /\ heap' = freed
  /\ type' = [type EXCEPT ![h] = "Null"]
  /\ data' = [data EXCEPT ![h] = IF type[h] = "Null" THEN @ ELSE NoBlock]
  /\ size' = [size EXCEPT ![h] = IF type[h] = "Null" THEN @ ELSE 0]

\* FromData: a new block in what is free by then.  It only sets the size of a blob.
FromDataNoSize(h, v, freed) ==
  \E b \in Blocks :
    /\ freed[b] = Free
    /\ heap' = [freed EXCEPT ![b] = Stored(v)]
    /\ data' = [data EXCEPT ![h] = b]
    /\ type' = [type EXCEPT ![h] = v.type]
    /\ UNCHANGED size

FromData(h, v, freed) ==
  \E b \in Blocks :
    /\ freed[b] = Free
    /\ heap' = [freed EXCEPT ![b] = Stored(v)]
    /\ data' = [data EXCEPT ![h] = b]
    /\ type' = [type EXCEPT ![h] = v.type]
    /\ size' = [size EXCEPT ![h] = IF v.type = "Blob" THEN Len(v.bytes) ELSE @]

\* The history: the program puts v in h, or what g was given, with g's fate.
Gives(h, v) ==
  /\ given' = [given EXCEPT ![h] = v]
  /\ lost' = lost \ {h}

GivesLike(h, g) ==
  /\ given' = [given EXCEPT ![h] = given[g]]
  /\ lost' = IF g \in lost THEN lost \cup {h} ELSE lost \ {h}

-----------------------------------------------------------------------------
(* The methods.  An allocation that throws in a constructor leaves nothing *)
(* behind, which is no step.                                               *)

Construct(h, v) ==
  /\ h \notin live
  /\ live' = live \cup {h}
  /\ FromData(h, v, heap)
  /\ Gives(h, v)

ConstructNull(h) ==
  /\ h \notin live
  /\ live' = live \cup {h}
  /\ type' = [type EXCEPT ![h] = "Null"]
  /\ Gives(h, Null)
  /\ UNCHANGED <<data, size, heap>>

\* The constructor from a vector passes its own size on, which nobody has set, and
\* not the vector's: n bytes are copied, those of the vector and what lies behind
\* it.  With a negative n, new throws.
ConstructVector(h, bytes, n) ==
  /\ h \notin live
  /\ n \in Garbage \cap Nat
  /\ live' = live \cup {h}
  /\ \E behind \in [1 .. n -> Bytes] :
       FromData(h, Value("Blob", SubSeq(bytes \o behind, 1, n)), heap)
  /\ Gives(h, Unknown)

\* The copy constructor.
Copy(h, g) ==
  /\ h \notin live /\ g \in live
  /\ live' = live \cup {h}
  /\ IF type[g] = "Null" THEN Emptied(h, heap) ELSE FromData(h, ValueOf(g), heap)
  /\ GivesLike(h, g)

\* operator= from another holder: Cleanup, then the copy.
Assign(h, g) ==
  /\ {h, g} \subseteq live /\ h # g
  /\ IF type[g] = "Null" THEN Emptied(h, CleanupHeap(h))
     ELSE FromData(h, ValueOf(g), CleanupHeap(h))
  /\ GivesLike(h, g)
  /\ UNCHANGED live

\* operator= from the holder itself: Cleanup deletes the value before the copy looks at
\* the type, which is Null by then.
AssignSelf(h) ==
  /\ h \in live
  /\ Emptied(h, CleanupHeap(h))
  /\ lost' = IF type[h] = "Null" THEN lost ELSE lost \cup {h}
  /\ UNCHANGED <<live, given>>

\* Cleanup called by the program; and operator= in which new throws after Cleanup.
Empty(h) ==
  /\ h \in live
  /\ Emptied(h, CleanupHeap(h))
  /\ Gives(h, Null)
  /\ UNCHANGED live

Destroy(h) ==
  /\ h \in live
  /\ Emptied(h, CleanupHeap(h))
  /\ live' = live \ {h}
  /\ lost' = lost \ {h}
  /\ UNCHANGED given

Next ==
  \E h \in Holders :
    \/ \E v \in Values : Construct(h, v)
    \/ ConstructNull(h) \/ AssignSelf(h) \/ Empty(h) \/ Destroy(h)
    \/ \E bytes \in Strings, n \in Garbage : ConstructVector(h, bytes, n)
    \/ \E g \in Holders : Copy(h, g) \/ Assign(h, g)

Spec == Init /\ [][Next]_vars

-----------------------------------------------------------------------------
(* What it promises.                                                       *)

\* A block is owned by exactly one holder, which remembers how it was allocated, and
\* is free otherwise: nothing leaks, nothing is deleted twice or in the wrong way,
\* and no holder reads what another has deleted.
OneOwner ==
  /\ \A h \in live : type[h] # "Null" => heap[data[h]].type = type[h]
  /\ \A h, g \in live :
       type[h] # "Null" /\ type[g] # "Null" /\ data[h] = data[g] => h = g
  /\ \A b \in Blocks :
       heap[b] # Free => \E h \in live : type[h] # "Null" /\ data[h] = b

\* A text that a char * carries whole.
Whole(v) == Stored(v) = v

\* "Variables are copied when the holder is constructed" (sqlite.hpp:49), as far as the
\* code keeps to it: through any sequence of copies, assignments, failures and deletions
\* of others, a holder gives back the value that was put in it or in the one it is a
\* copy of.  In three cases it does not, against that line: for a value from a vector
\* (prepvar.cpp:9), for a text with a NUL in it, which is cut (prepvar.cpp:90), and
\* after an assignment of a holder to itself, which empties it (prepvar.cpp:135).
HoldsWhatWasGiven ==
  \A h \in live \ lost : given[h] # Unknown /\ Whole(given[h]) => ValueOf(h) = given[h]

=============================================================================
