---------------------------- MODULE SqliteProofs ----------------------------
(***************************************************************************)
(* What TLAPS proves about Sqlite, for any threads, statements, parameters,*)
(* rows and depth of calls inside callbacks: the type invariant, and that  *)
(* statements are accounted for, no freed pointer is used, rows are        *)
(* complete, no two threads wait for each other, and a statement is ready  *)
(* again after its last execution.                                         *)
(***************************************************************************)
EXTENDS Sqlite, SequenceTheorems, TLAPS

USE DEF library

-----------------------------------------------------------------------------
(* The stacks of calls.                                                    *)

Slots(t) == 1 .. Len(stack[t])

LEMMA TopSlot ==
  ASSUME TypeOK, NEW t \in Threads, stack[t] # <<>>
  PROVE  /\ Len(stack[t]) \in Nat \ {0} /\ Len(stack[t]) \in Slots(t)
         /\ Top(t) = stack[t][Len(stack[t])] /\ Top(t) \in Frames
  BY DEF TypeOK, Slots, Top, Last

LEMMA CallSlots ==
  ASSUME TypeOK, NEW t \in Threads
  PROVE  /\ \A f : f \in Calls(t) <=> \E i \in Slots(t) : stack[t][i] = f
         /\ \A i \in Slots(t) : stack[t][i] \in Frames /\ stack[t][i] \in Calls(t)
         /\ Slots(t) \subseteq Nat \ {0}
  BY DEF TypeOK, Slots, Calls, Range

(* A step changes one stack: by a call, a return, or a new frame on top.   *)

LEMMA PushEffect ==
  ASSUME TypeOK, NEW t \in Threads, NEW f \in Frames, Len(stack[t]) < MaxDepth,
         stack' = [stack EXCEPT ![t] = Append(@, f)]
  PROVE  /\ stack' \in [Threads -> Seq(Frames)] /\ \A u \in Threads : Len(stack'[u]) <= MaxDepth
         /\ \A u \in Threads \ {t} : stack'[u] = stack[u]
         /\ Len(stack'[t]) = Len(stack[t]) + 1
         /\ \A i \in 1 .. Len(stack[t]) : stack'[t][i] = stack[t][i]
         /\ stack'[t][Len(stack[t]) + 1] = f
<1>1. stack[t] \in Seq(Frames) /\ MaxDepth \in Nat
  BY SqliteAssumption DEF TypeOK
<1>. QED
  BY <1>1 DEF TypeOK

LEMMA PopEffect ==
  ASSUME TypeOK, NEW t \in Threads, stack[t] # <<>>, Return(t)
  PROVE  /\ stack' \in [Threads -> Seq(Frames)] /\ \A u \in Threads : Len(stack'[u]) <= MaxDepth
         /\ \A u \in Threads : Len(stack'[u]) = IF u = t THEN Len(stack[t]) - 1 ELSE Len(stack[u])
         /\ \A u \in Threads \ {t} : stack'[u] = stack[u]
         /\ \A u \in Threads : stack'[u] = <<>> <=> Len(stack'[u]) = 0
         /\ \A u \in Threads : \A i \in Slots(u)' :
              i \in Slots(u) /\ stack'[u][i] = stack[u][i] /\ (u = t => i < Len(stack[t]))
         /\ \A u \in Threads : \A i \in Slots(u) :
              i \in Slots(u)' \/ (u = t /\ i = Len(stack[t]))
<1>1. stack[t] \in Seq(Frames) /\ Len(stack[t]) \in Nat \ {0} /\ MaxDepth \in Nat
  BY SqliteAssumption DEF TypeOK
<1>2. /\ Front(stack[t]) \in Seq(Frames) /\ Len(Front(stack[t])) = Len(stack[t]) - 1
      /\ \A i \in 1 .. Len(stack[t]) - 1 : Front(stack[t])[i] = stack[t][i]
  BY <1>1 DEF Front
<1>3. /\ stack' \in [Threads -> Seq(Frames)] /\ \A u \in Threads : Len(stack'[u]) <= MaxDepth
      /\ \A u \in Threads \ {t} : stack'[u] = stack[u]
      /\ Len(stack'[t]) = Len(stack[t]) - 1
      /\ \A i \in 1 .. Len(stack[t]) - 1 : stack'[t][i] = stack[t][i]
  BY <1>1, <1>2 DEF TypeOK, Return
<1>4. \A u \in Threads : Len(stack[u]) \in Nat /\ (stack'[u] = <<>> <=> Len(stack'[u]) = 0)
  BY <1>3 DEF TypeOK
<1>. QED
  BY <1>1, <1>3, <1>4 DEF Slots

LEMMA ReplaceEffect ==
  ASSUME TypeOK, NEW t \in Threads, NEW f \in Frames, stack[t] # <<>>, Replace(t, f)
  PROVE  /\ stack' \in [Threads -> Seq(Frames)] /\ \A u \in Threads : Len(stack'[u]) <= MaxDepth
         /\ \A u \in Threads : Slots(u)' = Slots(u) /\ Len(stack'[u]) = Len(stack[u])
         /\ \A u \in Threads : \A i \in Slots(u) :
              stack'[u][i] = IF u = t /\ i = Len(stack[t]) THEN f ELSE stack[u][i]
         /\ \A u \in Threads : stack'[u] = <<>> <=> stack[u] = <<>>
<1>. DEFINE n == Len(stack[t])
<1>1. stack[t] \in Seq(Frames) /\ n \in Nat \ {0} /\ MaxDepth \in Nat
  BY SqliteAssumption DEF TypeOK
<1>2. /\ Front(stack[t]) \in Seq(Frames) /\ Len(Front(stack[t])) = n - 1
      /\ \A i \in 1 .. n - 1 : Front(stack[t])[i] = stack[t][i]
  BY <1>1 DEF Front
<1>3. /\ Append(Front(stack[t]), f) \in Seq(Frames)
      /\ Len(Append(Front(stack[t]), f)) = n
      /\ \A i \in 1 .. n - 1 : Append(Front(stack[t]), f)[i] = stack[t][i]
      /\ Append(Front(stack[t]), f)[n] = f
  BY <1>1, <1>2
<1>4. /\ stack' \in [Threads -> Seq(Frames)] /\ \A u \in Threads : Len(stack'[u]) <= MaxDepth
      /\ \A u \in Threads \ {t} : stack'[u] = stack[u]
      /\ Len(stack'[t]) = n
      /\ \A i \in 1 .. n - 1 : stack'[t][i] = stack[t][i]
      /\ stack'[t][n] = f
  BY <1>1, <1>3 DEF TypeOK, Replace
<1>. HIDE DEF n
<1>5. \A u \in Threads : Len(stack'[u]) = Len(stack[u])
  BY <1>4 DEF n
<1>6. \A u \in Threads : Slots(u)' = Slots(u)
  BY <1>5 DEF Slots
<1>7. ASSUME NEW u \in Threads, NEW i \in Slots(u)
      PROVE  stack'[u][i] = IF u = t /\ i = n THEN f ELSE stack[u][i]
  <2>1. CASE u # t
    BY <1>4, <2>1
  <2>2. CASE u = t /\ i = n
    BY <1>4, <2>2
  <2>3. CASE u = t /\ i # n
    <3>1. i \in 1 .. n - 1
      BY <1>1, <2>3 DEF Slots, n
    <3>. QED
      BY <1>4, <2>3, <3>1
  <2>. QED
    BY <2>1, <2>2, <2>3
<1>8. \A u \in Threads : stack'[u] = <<>> <=> stack[u] = <<>>
  <2>1. \A u \in Threads : stack'[u] \in Seq(Frames) /\ stack[u] \in Seq(Frames)
    BY <1>4 DEF TypeOK
  <2>. QED
    BY <1>5, <2>1
<1>. QED
  BY <1>4, <1>5, <1>6, <1>7, <1>8 DEF n

LEMMA RestOfSeq ==
  ASSUME NEW S, NEW s \in Seq(S), NEW i \in 1 .. Len(s)
  PROVE  /\ SubSeq(s, i + 1, Len(s)) \in Seq(S)
         /\ Len(SubSeq(s, i + 1, Len(s))) = Len(s) - i
         /\ \A k \in 1 .. Len(s) - i : SubSeq(s, i + 1, Len(s))[k] = s[i + k]
<1>1. Len(s) \in Nat /\ i \in Nat /\ i <= Len(s)
  OBVIOUS
<1>2. CASE i = Len(s)
  BY <1>1, <1>2, SubSeqEmpty
<1>3. CASE i < Len(s)
  <2>1. i + 1 \in Int /\ Len(s) \in Int /\ i + 1 <= Len(s) /\ \A k \in i + 1 .. Len(s) : s[k] \in S
    BY <1>1, <1>3
  <2>2. /\ SubSeq(s, i + 1, Len(s)) \in Seq(S)
        /\ Len(SubSeq(s, i + 1, Len(s))) = Len(s) - (i + 1) + 1
        /\ \A k \in 1 .. Len(s) - (i + 1) + 1 : SubSeq(s, i + 1, Len(s))[k] = s[(i + 1) + k - 1]
    BY <2>1, SubSeqProperties
  <2>3. ASSUME NEW k \in 1 .. Len(s) - i PROVE (i + 1) + k - 1 = i + k /\ k \in 1 .. Len(s) - (i + 1) + 1
    BY <1>1
  <2>. QED
    BY <1>1, <2>2, <2>3
<1>. QED
  BY <1>1, <1>2, <1>3

(* erase(find(s)) takes s, which is there once, off the list.              *)
LEMMA RemoveFirstEffect ==
  ASSUME NEW S, NEW s \in Seq(S), IsInjective(s), NEW e \in Range(s)
  PROVE  /\ RemoveFirst(s, e) \in Seq(S) /\ IsInjective(RemoveFirst(s, e))
         /\ Range(RemoveFirst(s, e)) = Range(s) \ {e}
<1>1. DOMAIN s = 1 .. Len(s) /\ Len(s) \in Nat
  OBVIOUS
<1>2. PICK i \in 1 .. Len(s) : s[i] = e
  BY <1>1 DEF Range
<1>3. \A k \in 1 .. Len(s) : s[k] = e <=> k = i
  BY <1>1, <1>2 DEF IsInjective
<1>4. SelectInSeq(s, LAMBDA v : v = e) = i
  <2>1. {k \in 1 .. Len(s) : s[k] = e} = {i}
    BY <1>3
  <2>2. Min({i}) = i
    BY DEF Min
  <2>. QED
    BY <2>1, <2>2 DEF SelectInSeq
<1>5. RemoveFirst(s, e) = SubSeq(s, 1, i - 1) \o SubSeq(s, i + 1, Len(s))
  BY <1>2, <1>4 DEF RemoveFirst, RemoveAt
<1>. DEFINE r == SubSeq(s, 1, i - 1) \o SubSeq(s, i + 1, Len(s))
<1>6. /\ r \in Seq(S) /\ Len(r) = Len(s) - 1 /\ DOMAIN r = 1 .. Len(s) - 1
      /\ \A k \in 1 .. Len(s) - 1 : r[k] = IF k < i THEN s[k] ELSE s[k + 1]
  <2>. DEFINE a == SubSeq(s, 1, i - 1)
              b == SubSeq(s, i + 1, Len(s))
  <2>1. a \in Seq(S) /\ Len(a) = i - 1 /\ \A k \in 1 .. i - 1 : a[k] = s[k]
    BY <1>1, <1>2, SubSeqProperties
  <2>2. b \in Seq(S) /\ Len(b) = Len(s) - i /\ \A k \in 1 .. Len(s) - i : b[k] = s[i + k]
    BY RestOfSeq
  <2>. HIDE DEF a, b
  <2>3. /\ a \o b \in Seq(S) /\ Len(a \o b) = Len(s) - 1 /\ DOMAIN (a \o b) = 1 .. Len(s) - 1
        /\ \A k \in 1 .. Len(s) - 1 : (a \o b)[k] = IF k < i THEN s[k] ELSE s[k + 1]
    <3>1. /\ a \o b \in Seq(S) /\ Len(a \o b) = Len(a) + Len(b)
          /\ \A k \in 1 .. Len(a) + Len(b) : (a \o b)[k] = IF k <= Len(a) THEN a[k] ELSE b[k - Len(a)]
      BY <2>1, <2>2, ConcatProperties
    <3>. QED
      <4>1. Len(a) = i - 1 /\ Len(b) = Len(s) - i /\ Len(a) + Len(b) = Len(s) - 1
        BY <1>1, <1>2, <2>1, <2>2
      <4>2. ASSUME NEW k \in 1 .. Len(s) - 1 PROVE (a \o b)[k] = IF k < i THEN s[k] ELSE s[k + 1]
        <5>1. (a \o b)[k] = IF k < i THEN a[k] ELSE b[k - (i - 1)]
          BY <1>1, <3>1, <4>1
        <5>2. k < i => a[k] = s[k]
          BY <1>1, <2>1
        <5>3. ~(k < i) => b[k - (i - 1)] = s[i + (k - (i - 1))] /\ i + (k - (i - 1)) = k + 1
          BY <1>1, <2>2
        <5>. QED
          BY <5>1, <5>2, <5>3
      <4>3. Len(a \o b) = Len(s) - 1 /\ DOMAIN (a \o b) = 1 .. Len(a \o b)
        BY <3>1, <4>1
      <4>. QED
        BY <3>1, <4>2, <4>3
  <2>. QED
    BY <2>3 DEF a, b
<1>. HIDE DEF r
<1>7. IsInjective(r)
  BY <1>1, <1>6 DEF IsInjective
<1>8. ASSUME NEW x \in Range(s), x # e PROVE x \in Range(r)
  <2>1. PICK k \in 1 .. Len(s) : s[k] = x
    BY <1>1 DEF Range
  <2>2. CASE k < i
    BY <1>2, <1>6, <2>1, <2>2 DEF Range
  <2>3. CASE k > i
    <3>1. k - 1 \in 1 .. Len(s) - 1 /\ r[k - 1] = x
      BY <1>1, <1>2, <1>6, <2>1, <2>3
    <3>. QED
      BY <1>6, <3>1 DEF Range
  <2>. QED
    BY <1>8, <1>2, <2>1, <2>2, <2>3
<1>9. ASSUME NEW x \in Range(r) PROVE x \in Range(s) /\ x # e
  BY <1>1, <1>2, <1>3, <1>6 DEF Range
<1>. QED
  BY <1>5, <1>6, <1>7, <1>8, <1>9 DEF r

-----------------------------------------------------------------------------
(* The inductive invariant.                                                *)

\* The places of each method.
PlacesOf(op) ==
  CASE op = "prepare" -> {"library", "register"}
    [] op = "unprepare" -> {"lock", "library"}
    [] op = "execute" -> {"bind", "step", "callback", "reset"}
    [] op = "exec" -> {"library", "callback"}
    [] op = "cleanup" -> {"lock", "library", "close"}

FrameOK(f) ==
  /\ f.at \in PlacesOf(f.op)
  /\ f.stmt \in Stmts <=> f.op \in {"unprepare", "execute"} \/ f.at = "register"
  /\ f.param \in Params <=> f.op = "execute"

(* Every call but the one on top is in a callback of the program, and one  *)
(* thread at a time has the token of statementMap, or the connection.      *)
StackInv ==
  /\ \A t \in Threads : \A i \in Slots(t) :
       /\ FrameOK(stack[t][i])
       /\ i < Len(stack[t]) => InCallback(stack[t][i])
  /\ \A t, u \in Threads : \A i \in Slots(t), k \in Slots(u) :
       /\ HoldsMap(stack[t][i]) /\ HoldsMap(stack[u][k]) => t = u
       /\ HoldsDb(stack[t][i]) /\ HoldsDb(stack[u][k]) => t = u

(* A statement is on the list, or in the hands of one Prepare; what an     *)
(* Unprepare has found stays on the list until it takes it off.            *)
StmtInv ==
  /\ IsInjective(registered)
  /\ \A s \in Range(registered) : state[s] # "free"
  /\ \A s \in Stmts : state[s] # "free" /\ s \notin Range(registered) =>
       \E t \in Threads : \E i \in Slots(t) : stack[t][i].at = "register" /\ stack[t][i].stmt = s
  /\ \A t \in Threads : \A i \in Slots(t) :
       LET f == stack[t][i]
       IN  /\ f.at = "register" =>
                /\ state[f.stmt] # "free" /\ f.stmt \notin Range(registered)
                /\ \A u \in Threads : \A k \in Slots(u) :
                     stack[u][k].at = "register" /\ stack[u][k].stmt = f.stmt => u = t /\ k = i
           /\ f.op = "unprepare" /\ f.at = "library" => f.stmt \in Range(registered)

(* What a program that is not reckless rests on: Cleanup is the last call, *)
(* and a statement that is executed is on the list and in no Unprepare.    *)
CarefulInv ==
  ~reckless =>
    /\ life = "undefined" => db = "sick"
    /\ db = "dangling" => life # "alive" /\ \A t \in Threads : stack[t] = <<>>
    /\ \A t \in Threads : \A i \in Slots(t) :
         LET f == stack[t][i]
         IN  /\ f.op = "cleanup" => /\ life # "alive" /\ i = 1 /\ Len(stack[t]) = 1
                                    /\ \A u \in Threads \ {t} : stack[u] = <<>>
             /\ f.op = "execute" =>
                  /\ state[f.stmt] # "free" /\ f.stmt \in Range(registered)
                  /\ \A u \in Threads : \A k \in Slots(u) :
                       stack[u][k].op = "unprepare" => stack[u][k].stmt # f.stmt

(* An execution whose history still counts is the only one of its          *)
(* statement, and has seen as many rows as the statement has returned.     *)
RowInv ==
  /\ \A s \in Stmts : state[s] = "ready" => cursor[s] = 0
  /\ ~reckless =>
       \A t \in Threads : \A i \in Slots(t) :
         LET f == stack[t][i]
         IN  f.op = "execute" /\ f.seen # Void =>
               /\ \A u \in Threads : \A k \in Slots(u) :
                    stack[u][k].op = "execute" /\ stack[u][k].stmt = f.stmt => u = t /\ k = i
               /\ f.at = "bind" => f.seen = 0 /\ state[f.stmt] = "ready"
               /\ f.at \in {"step", "callback"} =>
                    /\ bound[f.stmt] = f.param /\ state[f.stmt] \in {"ready", "row"}
                    /\ f.seen = cursor[f.stmt]
               /\ f.at = "reset" => f.seen = Rows

IInv == TypeOK /\ StackInv /\ StmtInv /\ CarefulInv /\ RowInv

\* A method is called that has no lock yet.
LEMMA PushKeeps ==
  ASSUME IInv, NEW t \in Threads, NEW f \in Frames, MayCall(t),
         stack' = [stack EXCEPT ![t] = Append(@, f)],
         FrameOK(f), f.op # "execute", f.at # "register", ~HoldsMap(f), ~HoldsDb(f),
         UNCHANGED <<db, registered, library, life>>,
         reckless' \in BOOLEAN, reckless => reckless',
         f.op = "cleanup" => reckless',
         f.op = "unprepare" => reckless' \/ Executing(f.stmt) = {}
  PROVE  IInv'
<1>1. /\ stack' \in [Threads -> Seq(Frames)] /\ \A u \in Threads : Len(stack'[u]) <= MaxDepth
      /\ \A u \in Threads \ {t} : stack'[u] = stack[u]
      /\ Len(stack'[t]) = Len(stack[t]) + 1
      /\ \A i \in 1 .. Len(stack[t]) : stack'[t][i] = stack[t][i]
      /\ stack'[t][Len(stack[t]) + 1] = f
      /\ life = "alive" /\ (stack[t] # <<>> => InCallback(stack[t][Len(stack[t])]))
  BY PushEffect DEF MayCall, IInv, Top, Last
<1>2. /\ \A u \in Threads : Len(stack[u]) \in Nat /\ (Len(stack[u]) = 0 => stack[u] = <<>>)
      /\ \A u \in Threads : \A i \in Slots(u) : stack[u][i] \in Frames
  BY DEF IInv, TypeOK, Slots
<1>3. TypeOK'
  BY <1>1 DEF IInv, TypeOK
<1>4. StackInv'
  BY <1>1, <1>2 DEF IInv, StackInv, Slots
<1>5. StmtInv'
  BY <1>1, <1>2 DEF IInv, StmtInv, Slots, HoldsMap
<1>6. CarefulInv'
  <2>. SUFFICES ASSUME ~reckless' PROVE CarefulInv'
    BY DEF CarefulInv
  <2>1. f.op = "unprepare" => \A u \in Threads : \A k \in Slots(u) :
           stack[u][k].op = "execute" => stack[u][k].stmt # f.stmt
    BY CallSlots DEF IInv, Executing
  <2>. QED
    BY <1>1, <1>2, <2>1 DEF IInv, CarefulInv, Slots
<1>7. RowInv'
  BY <1>1, <1>2 DEF IInv, RowInv, Slots
<1>. QED
  BY <1>3, <1>4, <1>5, <1>6, <1>7 DEF IInv

\* A call returns.
LEMMA PopKeeps ==
  ASSUME IInv, NEW t \in Threads, stack[t] # <<>>, Return(t), Top(t).at # "register",
         UNCHANGED <<db, registered, library, life, reckless>>
  PROVE  IInv'
<1>. DEFINE n == Len(stack[t])
<1>1. /\ stack' \in [Threads -> Seq(Frames)] /\ \A u \in Threads : Len(stack'[u]) <= MaxDepth
      /\ \A u \in Threads : Len(stack'[u]) = IF u = t THEN n - 1 ELSE Len(stack[u])
      /\ \A u \in Threads : stack'[u] = <<>> <=> Len(stack'[u]) = 0
      /\ stack[t][n].at # "register"
  BY PopEffect DEF IInv, Top, Last
<1>2. /\ n \in Nat \ {0} /\ n \in Slots(t)
      /\ \A u \in Threads : Len(stack[u]) \in Nat /\ (Len(stack[u]) = 0 <=> stack[u] = <<>>)
  BY <1>1, TopSlot DEF IInv, TypeOK
<1>3. \A u \in Threads : \A i \in Slots(u)' :
        i \in Slots(u) /\ stack'[u][i] = stack[u][i] /\ (u = t => i < n)
  BY PopEffect DEF IInv
<1>4. \A u \in Threads : \A i \in Slots(u) : i \in Slots(u)' \/ (u = t /\ i = n)
  BY PopEffect DEF IInv
<1>5. \A u \in Threads : Len(stack'[u]) = IF u = t THEN n - 1 ELSE Len(stack[u])
  BY <1>1
<1>. HIDE DEF n
<1>6. TypeOK'
  BY <1>1 DEF IInv, TypeOK
<1>7. StackInv'
  BY <1>3, <1>5 DEF IInv, StackInv, n
<1>8. StmtInv'
  <2>1. \A s \in Stmts : state'[s] # "free" /\ s \notin Range(registered') =>
          \E u \in Threads : \E i \in Slots(u)' : stack'[u][i].at = "register" /\ stack'[u][i].stmt = s
    BY <1>1, <1>3, <1>4 DEF IInv, StmtInv
  <2>. QED
    BY <1>3, <2>1 DEF IInv, StmtInv
<1>9. CarefulInv'
  <2>. SUFFICES ASSUME ~reckless PROVE CarefulInv'
    BY DEF CarefulInv
  <2>1. db' = "dangling" => life' # "alive" /\ \A u \in Threads : stack'[u] = <<>>
    BY <1>2 DEF IInv, CarefulInv
  <2>2. \A u \in Threads : \A i \in Slots(u)' : stack'[u][i].op # "cleanup"
                                           \/ (u # t /\ n = 0)
    BY <1>2, <1>3 DEF IInv, CarefulInv, n
  <2>3. \A u \in Threads : \A i \in Slots(u)' : stack'[u][i].op = "execute" =>
            /\ state[stack[u][i].stmt] # "free" /\ stack[u][i].stmt \in Range(registered)
            /\ \A v \in Threads : \A k \in Slots(v)' :
                 stack'[v][k].op = "unprepare" => stack'[v][k].stmt # stack[u][i].stmt
    BY <1>3 DEF IInv, CarefulInv
  <2>. QED
    BY <1>2, <1>3, <2>1, <2>2, <2>3 DEF IInv, CarefulInv
<1>10. RowInv'
  BY <1>3 DEF IInv, RowInv
<1>. QED
  BY <1>6, <1>7, <1>8, <1>9, <1>10 DEF IInv

\* A call goes on, with no statement changing hands.
LEMMA GotoKeeps ==
  ASSUME IInv, NEW t \in Threads, stack[t] # <<>>, NEW at \in Places,
         Goto(t, at), Top(t).at # "register", at # "register",
         at \in PlacesOf(Top(t).op),
         Top(t).op = "unprepare" /\ at = "library" => Top(t).stmt \in Range(registered),
         Top(t).op = "execute" => Top(t).at = "callback" /\ at = "step",
         at = "library" /\ Top(t).op \in {"unprepare", "cleanup"} =>
           \A u \in Threads \ {t} : \A k \in Slots(u) : ~HoldsMap(stack[u][k]),
         at = "callback" => \A u \in Threads \ {t} : \A k \in Slots(u) : ~HoldsDb(stack[u][k]),
         UNCHANGED <<db, registered, library, life, reckless>>
  PROVE  IInv'
<1>. DEFINE n == Len(stack[t])
            f == [stack[t][n] EXCEPT !.at = at]
<1>1. /\ n \in Nat \ {0} /\ Top(t) = stack[t][n] /\ Top(t) \in Frames
      /\ \A u \in Threads : Len(stack[u]) \in Nat
  BY TopSlot DEF IInv, TypeOK
<1>2. f \in Frames /\ f.at = at /\ f.op = stack[t][n].op /\ f.stmt = stack[t][n].stmt
      /\ f.param = stack[t][n].param /\ f.seen = stack[t][n].seen
  BY <1>1 DEF Frames
<1>3. Replace(t, f)
  BY <1>1 DEF Goto
<1>6. TypeOK'
  BY <1>2, <1>3, ReplaceEffect DEF IInv, TypeOK
<1>4. /\ n \in Slots(t) /\ \A u \in Threads : Slots(u)' = Slots(u) /\ Len(stack'[u]) = Len(stack[u])
      /\ \A u \in Threads : \A i \in Slots(u) :
           stack'[u][i] = IF u = t /\ i = n THEN f ELSE stack[u][i]
      /\ \A u \in Threads : stack'[u] = <<>> <=> stack[u] = <<>>
  BY <1>2, <1>3, ReplaceEffect, TopSlot DEF IInv
<1>. HIDE DEF n, f
<1>5. \A u \in Threads : \A i \in Slots(u) :
        /\ stack'[u][i].op = stack[u][i].op /\ stack'[u][i].stmt = stack[u][i].stmt
        /\ stack'[u][i].param = stack[u][i].param /\ stack'[u][i].seen = stack[u][i].seen
        /\ stack'[u][i].at = IF u = t /\ i = n THEN at ELSE stack[u][i].at
  BY <1>2, <1>4
<1>7. StackInv'
  <2>1. ASSUME NEW u \in Threads, NEW i \in Slots(u)
        PROVE  FrameOK(stack'[u][i]) /\ (i < Len(stack[u]) => InCallback(stack'[u][i]))
    BY <1>1, <1>4, <1>5 DEF IInv, StackInv, FrameOK, InCallback, n
  <2>2. ASSUME NEW u \in Threads, NEW i \in Slots(u)
        PROVE  /\ HoldsMap(stack'[u][i]) => HoldsMap(stack[u][i]) \/ u = t
               /\ HoldsDb(stack'[u][i]) => HoldsDb(stack[u][i]) \/ u = t
    BY <1>4, <1>5 DEF HoldsMap, HoldsDb
  <2>3. ASSUME NEW u \in Threads \ {t}, NEW i \in Slots(u), NEW k \in Slots(t)
        PROVE  /\ ~(HoldsMap(stack'[t][k]) /\ HoldsMap(stack[u][i]))
               /\ ~(HoldsDb(stack'[t][k]) /\ HoldsDb(stack[u][i]))
    <3>1. CASE k = n
      BY <1>1, <1>5, <3>1 DEF HoldsMap, HoldsDb, n
    <3>2. CASE k # n
      <4>1. stack'[t][k] = stack[t][k]
        BY <1>4, <3>2
      <4>2. HoldsMap(stack[t][k]) /\ HoldsMap(stack[u][i]) => t = u
        BY DEF IInv, StackInv
      <4>3. HoldsDb(stack[t][k]) /\ HoldsDb(stack[u][i]) => t = u
        BY DEF IInv, StackInv
      <4>. QED
        BY <4>1, <4>2, <4>3
    <3>. QED
      BY <3>1, <3>2
  <2>4. \A u, v \in Threads : \A i \in Slots(u), k \in Slots(v) :
          /\ HoldsMap(stack'[u][i]) /\ HoldsMap(stack'[v][k]) => u = v
          /\ HoldsDb(stack'[u][i]) /\ HoldsDb(stack'[v][k]) => u = v
    BY <2>2, <2>3 DEF StackInv, IInv
  <2>. QED
    BY <1>4, <2>1, <2>4 DEF StackInv
<1>8. StmtInv'
  <2>1. \A u \in Threads : \A i \in Slots(u) :
          stack'[u][i].at = "register" <=> stack[u][i].at = "register"
    BY <1>1, <1>5 DEF n
  <2>. QED
    BY <1>1, <1>4, <1>5, <2>1 DEF IInv, StmtInv, n
<1>9. CarefulInv'
  BY <1>4, <1>5 DEF IInv, CarefulInv
<1>10. RowInv'
  BY <1>1, <1>4, <1>5 DEF IInv, RowInv, n
<1>. QED
  BY <1>6, <1>7, <1>8, <1>9, <1>10 DEF IInv


\* An execution goes on: Bind, or a step of the library.
LEMMA ExecuteKeeps ==
  ASSUME IInv, NEW t \in Threads, stack[t] # <<>>, NEW f \in Frames, Replace(t, f),
         Top(t).op = "execute", f.op = "execute", f.at \in {"step", "callback", "reset"},
         f.stmt = Top(t).stmt, f.param = Top(t).param, NEW s \in Stmts, s = f.stmt,
         UNCHANGED <<db, registered, life, reckless>>,
         state' \in [Stmts -> {"free", "ready", "row", "halted"}],
         cursor' \in [Stmts -> 0 .. Rows], bound' \in [Stmts -> Params \cup {NoParam}],
         \A r \in Stmts \ {s} : state'[r] = state[r] /\ cursor'[r] = cursor[r] /\ bound'[r] = bound[r],
         state[s] # "free", state'[s] # "free", state'[s] = "ready" => cursor'[s] = 0,
         ~reckless /\ f.seen # Void =>
           /\ Top(t).seen # Void
           /\ f.at # "reset" => /\ bound'[s] = f.param /\ state'[s] \in {"ready", "row"}
                                /\ f.seen = cursor'[s]
           /\ f.at = "reset" => f.seen = Rows
  PROVE  IInv'
<1>. DEFINE n == Len(stack[t])
<1>1. /\ n \in Nat \ {0} /\ Top(t) = stack[t][n] /\ Top(t) \in Frames /\ n \in Slots(t)
      /\ \A u \in Threads : Len(stack[u]) \in Nat
  BY TopSlot DEF IInv, TypeOK
<1>2. TypeOK'
  BY ReplaceEffect DEF IInv, TypeOK
<1>3. /\ \A u \in Threads : Slots(u)' = Slots(u) /\ Len(stack'[u]) = Len(stack[u])
      /\ \A u \in Threads : \A i \in Slots(u) :
           stack'[u][i] = IF u = t /\ i = n THEN f ELSE stack[u][i]
      /\ \A u \in Threads : stack'[u] = <<>> <=> stack[u] = <<>>
  BY ReplaceEffect DEF IInv
<1>. HIDE DEF n
<1>4. \A u \in Threads : \A i \in Slots(u) :
        /\ stack'[u][i].op = stack[u][i].op /\ stack'[u][i].stmt = stack[u][i].stmt
        /\ stack'[u][i].param = stack[u][i].param
        /\ u # t \/ i # n => stack'[u][i] = stack[u][i]
  BY <1>1, <1>3
<1>5. stack[t][n].op = "execute" /\ stack[t][n].stmt = s /\ stack'[t][n] = f
  BY <1>1, <1>3
<1>6. FrameOK(stack[t][n]) /\ FrameOK(f) /\ stack[t][n].at # "register"
  <2>1. FrameOK(stack[t][n])
    BY <1>1 DEF IInv, StackInv
  <2>. QED
    BY <2>1, <1>1, <1>5 DEF FrameOK, PlacesOf
<1>7. StackInv'
  <2>1. ASSUME NEW u \in Threads, NEW i \in Slots(u)
        PROVE  FrameOK(stack'[u][i]) /\ (i < Len(stack[u]) => InCallback(stack'[u][i]))
    BY <1>1, <1>3, <1>6 DEF IInv, StackInv, n
  <2>2. ASSUME NEW u \in Threads, NEW i \in Slots(u)
        PROVE  /\ HoldsMap(stack'[u][i]) => HoldsMap(stack[u][i])
               /\ HoldsDb(stack'[u][i]) => HoldsDb(stack[u][i])
    BY <1>3, <1>4, <1>5 DEF HoldsMap, HoldsDb
  <2>3. \A u, v \in Threads : \A i \in Slots(u), k \in Slots(v) :
          /\ HoldsMap(stack'[u][i]) /\ HoldsMap(stack'[v][k]) => u = v
          /\ HoldsDb(stack'[u][i]) /\ HoldsDb(stack'[v][k]) => u = v
    BY <2>2 DEF StackInv, IInv
  <2>. QED
    BY <1>3, <2>1, <2>3 DEF StackInv
<1>8. StmtInv'
  <2>1. \A u \in Threads : \A i \in Slots(u) :
          /\ stack'[u][i].at = "register" <=> stack[u][i].at = "register"
          /\ stack'[u][i].op = "unprepare" /\ stack'[u][i].at = "library"
               => stack[u][i].op = "unprepare" /\ stack[u][i].at = "library"
    BY <1>4, <1>5, <1>6
  <2>2. \A r \in Stmts : state'[r] = "free" <=> state[r] = "free"
    OBVIOUS
  <2>3. \A u \in Threads : \A i \in Slots(u) : stack[u][i].at = "register" => stack[u][i].stmt \in Stmts
    BY DEF IInv, StackInv, FrameOK
  <2>4. Range(registered) \subseteq Stmts
    BY DEF IInv, TypeOK, Range
  <2>5. \A r \in Stmts : state'[r] # "free" /\ r \notin Range(registered) =>
          \E u \in Threads : \E i \in Slots(u) : stack'[u][i].at = "register" /\ stack'[u][i].stmt = r
    BY <1>4, <2>1, <2>2 DEF IInv, StmtInv
  <2>6. ASSUME NEW u \in Threads, NEW i \in Slots(u), stack'[u][i].at = "register"
        PROVE  /\ state'[stack'[u][i].stmt] # "free" /\ stack'[u][i].stmt \notin Range(registered)
               /\ \A v \in Threads : \A k \in Slots(v) :
                    stack'[v][k].at = "register" /\ stack'[v][k].stmt = stack'[u][i].stmt => v = u /\ k = i
    BY <1>4, <2>1, <2>2, <2>3, <2>6 DEF IInv, StmtInv
  <2>7. ASSUME NEW u \in Threads, NEW i \in Slots(u), stack'[u][i].op = "unprepare", stack'[u][i].at = "library"
        PROVE  stack'[u][i].stmt \in Range(registered)
    BY <1>4, <2>1, <2>7 DEF IInv, StmtInv
  <2>8. IsInjective(registered) /\ \A r \in Range(registered) : state'[r] # "free"
    BY <2>2, <2>4 DEF IInv, StmtInv
  <2>. QED
    BY <1>3, <2>5, <2>6, <2>7, <2>8 DEF StmtInv
<1>9. CarefulInv'
  <2>1. \A r \in Stmts : state'[r] = "free" <=> state[r] = "free"
    OBVIOUS
  <2>2. \A u \in Threads : \A i \in Slots(u) : stack[u][i].op = "execute" => stack[u][i].stmt \in Stmts
    BY DEF IInv, StackInv, FrameOK
  <2>. SUFFICES ASSUME ~reckless PROVE CarefulInv'
    BY DEF CarefulInv
  <2>3. ASSUME NEW u \in Threads, NEW i \in Slots(u), stack'[u][i].op = "execute"
        PROVE  /\ state'[stack'[u][i].stmt] # "free" /\ stack'[u][i].stmt \in Range(registered)
               /\ \A v \in Threads : \A k \in Slots(v) :
                    stack'[v][k].op = "unprepare" => stack'[v][k].stmt # stack'[u][i].stmt
    <3>1. /\ state[stack[u][i].stmt] # "free" /\ stack[u][i].stmt \in Range(registered)
          /\ \A v \in Threads : \A k \in Slots(v) :
               stack[v][k].op = "unprepare" => stack[v][k].stmt # stack[u][i].stmt
      BY <1>4, <2>3 DEF IInv, CarefulInv
    <3>2. stack[u][i].stmt \in Stmts /\ stack'[u][i].stmt = stack[u][i].stmt
      BY <1>4, <2>2, <2>3
    <3>. QED
      BY <1>4, <2>1, <3>1, <3>2
  <2>4. ASSUME NEW u \in Threads, NEW i \in Slots(u), stack'[u][i].op = "cleanup"
        PROVE  life # "alive" /\ i = 1 /\ Len(stack[u]) = 1 /\ \A v \in Threads \ {u} : stack[v] = <<>>
    BY <1>4, <2>4 DEF IInv, CarefulInv
  <2>5. /\ life = "undefined" => db = "sick"
        /\ db = "dangling" => life # "alive" /\ \A u \in Threads : stack[u] = <<>>
    BY DEF IInv, CarefulInv
  <2>. QED
    BY <1>3, <2>3, <2>4, <2>5 DEF CarefulInv
<1>10. RowInv'
  <2>1. \A r \in Stmts : state'[r] = "ready" => cursor'[r] = 0
    BY DEF IInv, RowInv
  <2>. SUFFICES ASSUME ~reckless, NEW u \in Threads, NEW i \in Slots(u),
                       stack'[u][i].op = "execute", stack'[u][i].seen # Void
       PROVE  /\ \A v \in Threads : \A k \in Slots(v) :
                   stack'[v][k].op = "execute" /\ stack'[v][k].stmt = stack'[u][i].stmt => v = u /\ k = i
              /\ stack'[u][i].at = "bind" => stack'[u][i].seen = 0 /\ state'[stack'[u][i].stmt] = "ready"
              /\ stack'[u][i].at \in {"step", "callback"} =>
                   /\ bound'[stack'[u][i].stmt] = stack'[u][i].param
                   /\ state'[stack'[u][i].stmt] \in {"ready", "row"}
                   /\ stack'[u][i].seen = cursor'[stack'[u][i].stmt]
              /\ stack'[u][i].at = "reset" => stack'[u][i].seen = Rows
    BY <1>3, <2>1 DEF RowInv
  <2>2. stack[u][i].op = "execute" /\ stack[u][i].seen # Void
    BY <1>1, <1>4, <1>5
  <2>3. \A v \in Threads : \A k \in Slots(v) :
          stack[v][k].op = "execute" /\ stack[v][k].stmt = stack[u][i].stmt => v = u /\ k = i
    BY <2>2 DEF IInv, RowInv
  <2>4. CASE u = t /\ i = n
    BY <1>4, <1>5, <2>3, <2>4
  <2>5. CASE u # t \/ i # n
    <3>1. stack'[u][i] = stack[u][i] /\ stack[u][i].stmt # s
      BY <1>1, <1>4, <1>5, <2>3, <2>5
    <3>2. stack[u][i].stmt \in Stmts
      BY <2>2 DEF IInv, StackInv, FrameOK
    <3>. QED
      BY <1>4, <2>2, <2>3, <3>1, <3>2 DEF IInv, RowInv
  <2>. QED
    BY <2>4, <2>5
<1>. QED
  BY <1>2, <1>7, <1>8, <1>9, <1>10 DEF IInv

\* What it takes to have the token of statementMap, or the connection.
LEMMA NotBlocked ==
  ASSUME TypeOK, NEW t \in Threads, stack[t] # <<>>, \A u \in Threads : ~Blocks(u, t)
  PROVE  /\ WantsMap(Top(t)) =>
              \A u \in Threads \ {t} : \A k \in Slots(u) : ~HoldsMap(stack[u][k])
         /\ WantsDb(Top(t)) =>
              \A u \in Threads \ {t} : \A k \in Slots(u) : ~HoldsDb(stack[u][k])
  BY CallSlots DEF Blocks

\* The facts of a thread that is at a place of a method.
LEMMA AtFacts ==
  ASSUME IInv, NEW t \in Threads, NEW op, NEW at, At(t, op, at)
  PROVE  /\ stack[t] # <<>> /\ life # "undefined" /\ Top(t) = stack[t][Len(stack[t])]
         /\ Top(t).op = op /\ Top(t).at = at /\ Len(stack[t]) \in Slots(t)
         /\ Len(stack[t]) \in Nat \ {0} /\ Top(t) \in Frames /\ FrameOK(Top(t))
  BY TopSlot DEF At, IInv, StackInv

LEMMA FrameTyped ==
  ASSUME NEW op \in Ops, NEW at \in Places, NEW s \in Stmts \cup {NoStmt},
         NEW p \in Params \cup {NoParam}
  PROVE  /\ Frame(op, at, s, p) \in Frames /\ Frame(op, at, s, p).op = op
         /\ Frame(op, at, s, p).at = at /\ Frame(op, at, s, p).stmt = s
         /\ Frame(op, at, s, p).param = p /\ Frame(op, at, s, p).seen = 0
<1>1. 0 \in 0 .. Void
  BY SqliteAssumption DEF Void
<1>. QED
  BY <1>1 DEF Frame, Frames

\* Prepare gets a statement of the library.
LEMMA PrepareGets ==
  ASSUME IInv, NEW t \in Threads, Runs(t, "prepare", "library"), NEW s \in Stmts, state[s] = "free",
         state' = [state EXCEPT ![s] = "ready"], cursor' = [cursor EXCEPT ![s] = 0],
         bound' = [bound EXCEPT ![s] = NoParam],
         Replace(t, Frame("prepare", "register", s, NoParam)),
         UNCHANGED <<db, registered, life, reckless>>
  PROVE  IInv'
<1>. DEFINE n == Len(stack[t])
            f == Frame("prepare", "register", s, NoParam)
<1>1. /\ stack[t] # <<>> /\ n \in Nat \ {0} /\ n \in Slots(t) /\ stack[t][n].op = "prepare"
      /\ stack[t][n].at = "library"
  BY AtFacts DEF Runs
<1>2. /\ f \in Frames /\ f.op = "prepare" /\ f.at = "register" /\ f.stmt = s /\ f.param = NoParam
      /\ FrameOK(f) /\ ~HoldsMap(f) /\ ~HoldsDb(f)
  BY FrameTyped, SqliteAssumption DEF Ops, Places, FrameOK, PlacesOf, HoldsMap, HoldsDb
<1>. HIDE DEF f
<1>3. TypeOK'
  <2>1. stack' \in [Threads -> Seq(Frames)] /\ \A u \in Threads : Len(stack'[u]) <= MaxDepth
    BY <1>1, <1>2, ReplaceEffect DEF IInv, f
  <2>2. cursor' \in [Stmts -> 0 .. Rows]
    BY SqliteAssumption DEF IInv, TypeOK
  <2>. QED
    BY <2>1, <2>2 DEF IInv, TypeOK
<1>4. /\ \A u \in Threads : Slots(u)' = Slots(u) /\ Len(stack'[u]) = Len(stack[u])
      /\ \A u \in Threads : \A i \in Slots(u) :
           stack'[u][i] = IF u = t /\ i = n THEN f ELSE stack[u][i]
      /\ \A u \in Threads : stack'[u] = <<>> <=> stack[u] = <<>>
  BY <1>1, <1>2, ReplaceEffect DEF IInv, f
<1>. HIDE DEF n
<1>5. state'[s] = "ready" /\ cursor'[s] = 0 /\ \A r \in Stmts \ {s} :
        state'[r] = state[r] /\ cursor'[r] = cursor[r] /\ bound'[r] = bound[r]
  BY DEF IInv, TypeOK
<1>6. Range(registered) \subseteq Stmts /\ s \notin Range(registered)
  BY DEF IInv, TypeOK, StmtInv, Range
<1>7. StackInv'
  <2>1. ASSUME NEW u \in Threads, NEW i \in Slots(u)
        PROVE  FrameOK(stack'[u][i]) /\ (i < Len(stack[u]) => InCallback(stack'[u][i]))
    BY <1>1, <1>2, <1>4 DEF IInv, StackInv, n
  <2>2. ASSUME NEW u \in Threads, NEW i \in Slots(u)
        PROVE  /\ HoldsMap(stack'[u][i]) => HoldsMap(stack[u][i])
               /\ HoldsDb(stack'[u][i]) => HoldsDb(stack[u][i])
    BY <1>2, <1>4
  <2>3. \A u, v \in Threads : \A i \in Slots(u), k \in Slots(v) :
          /\ HoldsMap(stack'[u][i]) /\ HoldsMap(stack'[v][k]) => u = v
          /\ HoldsDb(stack'[u][i]) /\ HoldsDb(stack'[v][k]) => u = v
    BY <2>2 DEF StackInv, IInv
  <2>. QED
    BY <1>4, <2>1, <2>3 DEF StackInv
<1>8. StmtInv'
  <2>1. \A u \in Threads : \A i \in Slots(u) : stack[u][i].at = "register" =>
           stack[u][i].stmt \in Stmts /\ stack[u][i].stmt # s
    BY DEF IInv, StackInv, FrameOK, StmtInv
  <2>2. \A r \in Stmts : state'[r] # "free" /\ r \notin Range(registered) =>
          \E u \in Threads : \E i \in Slots(u) : stack'[u][i].at = "register" /\ stack'[u][i].stmt = r
    <3>. SUFFICES ASSUME NEW r \in Stmts, state'[r] # "free", r \notin Range(registered)
         PROVE  \E u \in Threads : \E i \in Slots(u) : stack'[u][i].at = "register" /\ stack'[u][i].stmt = r
      OBVIOUS
    <3>1. CASE r = s
      BY <1>1, <1>2, <1>4, <3>1
    <3>2. CASE r # s
      <4>1. PICK u \in Threads : \E i \in Slots(u) : stack[u][i].at = "register" /\ stack[u][i].stmt = r
        BY <1>5, <3>2 DEF IInv, StmtInv
      <4>2. PICK i \in Slots(u) : stack[u][i].at = "register" /\ stack[u][i].stmt = r
        BY <4>1
      <4>3. stack'[u][i] = stack[u][i]
        BY <1>1, <1>4, <4>2 DEF n
      <4>. QED
        BY <4>2, <4>3
    <3>. QED
      BY <3>1, <3>2
  <2>3. ASSUME NEW u \in Threads, NEW i \in Slots(u), stack'[u][i].at = "register"
        PROVE  /\ state'[stack'[u][i].stmt] # "free" /\ stack'[u][i].stmt \notin Range(registered)
               /\ \A v \in Threads : \A k \in Slots(v) :
                    stack'[v][k].at = "register" /\ stack'[v][k].stmt = stack'[u][i].stmt => v = u /\ k = i
    <3>1. CASE u = t /\ i = n
      BY <1>2, <1>4, <1>5, <1>6, <2>1, <3>1
    <3>2. CASE ~(u = t /\ i = n)
      <4>1. stack'[u][i] = stack[u][i] /\ stack[u][i].stmt \in Stmts \ {s}
        BY <1>4, <2>1, <2>3, <3>2
      <4>2. /\ state[stack[u][i].stmt] # "free" /\ stack[u][i].stmt \notin Range(registered)
            /\ \A v \in Threads : \A k \in Slots(v) :
                 stack[v][k].at = "register" /\ stack[v][k].stmt = stack[u][i].stmt => v = u /\ k = i
        BY <2>3, <4>1 DEF IInv, StmtInv
      <4>. QED
        BY <1>2, <1>4, <1>5, <4>1, <4>2
    <3>. QED
      BY <3>1, <3>2
  <2>4. ASSUME NEW u \in Threads, NEW i \in Slots(u), stack'[u][i].op = "unprepare", stack'[u][i].at = "library"
        PROVE  stack'[u][i].stmt \in Range(registered)
    BY <1>2, <1>4, <2>4 DEF IInv, StmtInv
  <2>5. IsInjective(registered) /\ \A r \in Range(registered) : state'[r] # "free"
    BY <1>5, <1>6 DEF IInv, StmtInv
  <2>. QED
    BY <1>4, <2>2, <2>3, <2>4, <2>5 DEF StmtInv
<1>9. ASSUME NEW u \in Threads, NEW i \in Slots(u), stack'[u][i].op \in {"execute", "cleanup", "unprepare"}
      PROVE  stack'[u][i] = stack[u][i]
  BY <1>2, <1>4, <1>9
<1>10. CarefulInv'
  <2>. SUFFICES ASSUME ~reckless PROVE CarefulInv'
    BY DEF CarefulInv
  <2>1. ASSUME NEW u \in Threads, NEW i \in Slots(u), stack'[u][i].op = "execute"
        PROVE  /\ state'[stack'[u][i].stmt] # "free" /\ stack'[u][i].stmt \in Range(registered)
               /\ \A v \in Threads : \A k \in Slots(v) :
                    stack'[v][k].op = "unprepare" => stack'[v][k].stmt # stack'[u][i].stmt
    <3>1. stack'[u][i] = stack[u][i]
      BY <1>9, <2>1
    <3>2. /\ state[stack[u][i].stmt] # "free" /\ stack[u][i].stmt \in Range(registered)
          /\ \A v \in Threads : \A k \in Slots(v) :
               stack[v][k].op = "unprepare" => stack[v][k].stmt # stack[u][i].stmt
      BY <2>1, <3>1 DEF IInv, CarefulInv
    <3>3. \A v \in Threads : \A k \in Slots(v) :
            stack'[v][k].op = "unprepare" => stack'[v][k] = stack[v][k]
      BY <1>9
    <3>. QED
      BY <1>5, <1>6, <3>1, <3>2, <3>3
  <2>2. ASSUME NEW u \in Threads, NEW i \in Slots(u), stack'[u][i].op = "cleanup"
        PROVE  life # "alive" /\ i = 1 /\ Len(stack[u]) = 1 /\ \A v \in Threads \ {u} : stack[v] = <<>>
    BY <1>9, <2>2 DEF IInv, CarefulInv
  <2>3. /\ life = "undefined" => db = "sick"
        /\ db = "dangling" => life # "alive" /\ \A u \in Threads : stack[u] = <<>>
    BY DEF IInv, CarefulInv
  <2>. QED
    BY <1>4, <2>1, <2>2, <2>3 DEF CarefulInv
<1>11. RowInv'
  <2>1. \A r \in Stmts : state'[r] = "ready" => cursor'[r] = 0
    BY <1>5 DEF IInv, RowInv
  <2>. SUFFICES ASSUME ~reckless, NEW u \in Threads, NEW i \in Slots(u),
                       stack'[u][i].op = "execute", stack'[u][i].seen # Void
       PROVE  /\ \A v \in Threads : \A k \in Slots(v) :
                   stack'[v][k].op = "execute" /\ stack'[v][k].stmt = stack'[u][i].stmt => v = u /\ k = i
              /\ stack'[u][i].at = "bind" => stack'[u][i].seen = 0 /\ state'[stack'[u][i].stmt] = "ready"
              /\ stack'[u][i].at \in {"step", "callback"} =>
                   /\ bound'[stack'[u][i].stmt] = stack'[u][i].param
                   /\ state'[stack'[u][i].stmt] \in {"ready", "row"}
                   /\ stack'[u][i].seen = cursor'[stack'[u][i].stmt]
              /\ stack'[u][i].at = "reset" => stack'[u][i].seen = Rows
    BY <1>4, <2>1 DEF RowInv
  <2>2. stack'[u][i] = stack[u][i] /\ stack[u][i].stmt \in Stmts \ {s}
    BY <1>6, <1>9 DEF IInv, CarefulInv
  <2>3. \A v \in Threads : \A k \in Slots(v) :
            stack'[v][k].op = "execute" => stack'[v][k] = stack[v][k]
    BY <1>9
  <2>. QED
    BY <1>5, <2>2, <2>3 DEF IInv, RowInv
<1>. QED
  BY <1>3, <1>7, <1>8, <1>10, <1>11 DEF IInv

\* Prepare puts it on the list.
LEMMA RegisterKeeps ==
  ASSUME IInv, NEW t \in Threads, PrepareRegister(t)
  PROVE  IInv'
<1>. DEFINE n == Len(stack[t])
            s == stack[t][n].stmt
<1>1. /\ stack[t] # <<>> /\ n \in Nat \ {0} /\ n \in Slots(t) /\ stack[t][n].op = "prepare"
      /\ stack[t][n].at = "register" /\ s \in Stmts /\ Top(t).stmt = s
  BY AtFacts DEF Runs, PrepareRegister, FrameOK
<1>2. /\ \A u \in Threads : Len(stack'[u]) = IF u = t THEN n - 1 ELSE Len(stack[u])
      /\ \A u \in Threads : stack'[u] = <<>> <=> Len(stack'[u]) = 0
      /\ \A u \in Threads : Len(stack[u]) \in Nat /\ (Len(stack[u]) = 0 <=> stack[u] = <<>>)
  BY <1>1, PopEffect DEF IInv, TypeOK, PrepareRegister
<1>3. \A u \in Threads : \A i \in Slots(u)' :
        i \in Slots(u) /\ stack'[u][i] = stack[u][i] /\ (u = t => i < n)
  BY <1>1, PopEffect DEF IInv, PrepareRegister
<1>4. \A u \in Threads : \A i \in Slots(u) : i \in Slots(u)' \/ (u = t /\ i = n)
  BY <1>1, PopEffect DEF IInv, PrepareRegister
<1>5. TypeOK'
  <2>1. registered' \in Seq(Stmts)
    BY <1>1 DEF IInv, TypeOK, PrepareRegister
  <2>2. stack' \in [Threads -> Seq(Frames)] /\ \A u \in Threads : Len(stack'[u]) <= MaxDepth
    BY <1>1, PopEffect DEF IInv, PrepareRegister
  <2>. QED
    BY <2>1, <2>2 DEF IInv, TypeOK, PrepareRegister
<1>6. /\ Range(registered') = Range(registered) \cup {s} /\ IsInjective(registered')
      /\ state[s] # "free" /\ s \notin Range(registered)
  <2>1. state[s] # "free" /\ s \notin Range(registered) /\ IsInjective(registered)
    BY <1>1 DEF IInv, StmtInv
  <2>2. /\ registered' = Append(registered, s) /\ registered \in Seq(Stmts) /\ s \in Stmts
    BY <1>1 DEF IInv, TypeOK, PrepareRegister
  <2>3. /\ DOMAIN registered' = 1 .. Len(registered) + 1 /\ Len(registered) \in Nat
        /\ \A i \in 1 .. Len(registered) : registered'[i] = registered[i]
        /\ registered'[Len(registered) + 1] = s /\ DOMAIN registered = 1 .. Len(registered)
    BY <2>2
  <2>. HIDE DEF s
  <2>4. Range(registered') = Range(registered) \cup {s}
    BY <2>3 DEF Range
  <2>5. IsInjective(registered')
    BY <2>1, <2>3 DEF IsInjective, Range
  <2>. QED
    BY <2>1, <2>4, <2>5
<1>. HIDE DEF s, n
<1>7. UNCHANGED <<db, library, life, reckless>>
  BY DEF PrepareRegister
<1>8. StackInv'
  BY <1>2, <1>3 DEF IInv, StackInv, n
<1>9. StmtInv'
  <2>1. ASSUME NEW r \in Stmts, state'[r] # "free", r \notin Range(registered')
        PROVE  \E u \in Threads : \E i \in Slots(u)' : stack'[u][i].at = "register" /\ stack'[u][i].stmt = r
    <3>1. PICK u \in Threads : \E i \in Slots(u) : stack[u][i].at = "register" /\ stack[u][i].stmt = r
      BY <1>6, <1>7, <2>1 DEF IInv, StmtInv
    <3>2. PICK i \in Slots(u) : stack[u][i].at = "register" /\ stack[u][i].stmt = r
      BY <3>1
    <3>3. i \in Slots(u)'
      BY <1>4, <1>6, <2>1, <3>2 DEF s
    <3>. QED
      BY <1>3, <3>2, <3>3
  <2>2. ASSUME NEW u \in Threads, NEW i \in Slots(u)', stack'[u][i].at = "register"
        PROVE  /\ state'[stack'[u][i].stmt] # "free" /\ stack'[u][i].stmt \notin Range(registered')
               /\ \A v \in Threads : \A k \in Slots(v)' :
                    stack'[v][k].at = "register" /\ stack'[v][k].stmt = stack'[u][i].stmt => v = u /\ k = i
    <3>1. /\ stack'[u][i] = stack[u][i] /\ i \in Slots(u) /\ (u = t => i # n)
      BY <1>1, <1>3 DEF Slots
    <3>2. /\ state[stack[u][i].stmt] # "free" /\ stack[u][i].stmt \notin Range(registered)
          /\ \A v \in Threads : \A k \in Slots(v) :
               stack[v][k].at = "register" /\ stack[v][k].stmt = stack[u][i].stmt => v = u /\ k = i
      BY <2>2, <3>1 DEF IInv, StmtInv
    <3>3. stack[u][i].stmt # s
      BY <1>1, <3>1, <3>2 DEF s
    <3>. QED
      BY <1>3, <1>6, <1>7, <3>1, <3>2, <3>3
  <2>3. ASSUME NEW u \in Threads, NEW i \in Slots(u)', stack'[u][i].op = "unprepare", stack'[u][i].at = "library"
        PROVE  stack'[u][i].stmt \in Range(registered')
    BY <1>3, <1>6, <2>3 DEF IInv, StmtInv
  <2>4. IsInjective(registered') /\ \A r \in Range(registered') : state'[r] # "free"
    BY <1>6, <1>7 DEF IInv, StmtInv
  <2>. QED
    BY <2>1, <2>2, <2>3, <2>4 DEF StmtInv
<1>10. CarefulInv'
  <2>. SUFFICES ASSUME ~reckless PROVE CarefulInv'
    BY <1>7 DEF CarefulInv
  <2>1. ASSUME NEW u \in Threads, NEW i \in Slots(u)', stack'[u][i].op = "execute"
        PROVE  /\ state'[stack'[u][i].stmt] # "free" /\ stack'[u][i].stmt \in Range(registered')
               /\ \A v \in Threads : \A k \in Slots(v)' :
                    stack'[v][k].op = "unprepare" => stack'[v][k].stmt # stack'[u][i].stmt
    BY <1>3, <1>6, <1>7, <2>1 DEF IInv, CarefulInv
  <2>2. \A u \in Threads : \A i \in Slots(u) : stack[u][i].op # "cleanup"
    BY <1>1 DEF IInv, CarefulInv, n
  <2>3. /\ life = "undefined" => db = "sick"
        /\ db # "dangling"
    BY <1>1 DEF IInv, CarefulInv
  <2>. QED
    BY <1>3, <1>7, <2>1, <2>2, <2>3 DEF CarefulInv
<1>11. RowInv'
  BY <1>3, <1>7 DEF IInv, RowInv
<1>. QED
  BY <1>5, <1>8, <1>9, <1>10, <1>11 DEF IInv

\* sqlite3_finalize of a statement that is on the list, and that no call works on
\* after the step.
LEMMA FinalizeKeeps ==
  ASSUME IInv, NEW e \in Range(registered), Finalize(e), UNCHANGED <<db, life, reckless>>,
         stack' \in [Threads -> Seq(Frames)], \A u \in Threads : Len(stack'[u]) <= MaxDepth,
         \A u \in Threads : \A i \in Slots(u)' :
           /\ i \in Slots(u) /\ stack'[u][i] = stack[u][i]
           /\ i < Len(stack'[u]) => i < Len(stack[u])
           /\ ~(stack[u][i].op = "unprepare" /\ stack[u][i].at = "library" /\ stack[u][i].stmt = e)
           /\ stack[u][i].op = "cleanup" => Len(stack'[u]) = Len(stack[u]),
         \A u \in Threads : \A i \in Slots(u) : stack[u][i].at = "register" => i \in Slots(u)',
         \A u \in Threads : stack[u] = <<>> => stack'[u] = <<>>,
         ~reckless => \A u \in Threads : \A i \in Slots(u)' :
           ~(stack[u][i].op = "execute" /\ stack[u][i].stmt = e)
  PROVE  IInv'
<1>1. /\ registered \in Seq(Stmts) /\ Range(registered) \subseteq Stmts /\ e \in Stmts
      /\ IsInjective(registered)
  BY DEF IInv, TypeOK, StmtInv, Range
<1>2. /\ registered' \in Seq(Stmts) /\ IsInjective(registered')
      /\ Range(registered') = Range(registered) \ {e}
  BY <1>1, RemoveFirstEffect DEF Finalize
<1>3. /\ state'[e] = "free" /\ \A r \in Stmts \ {e} : state'[r] = state[r]
      /\ state' \in [Stmts -> {"free", "ready", "row", "halted"}]
      /\ cursor' = cursor /\ bound' = bound
  BY <1>1 DEF IInv, TypeOK, Finalize
<1>4. TypeOK'
  BY <1>2, <1>3 DEF IInv, TypeOK
<1>5. StackInv'
  BY DEF IInv, StackInv
<1>6. \A u \in Threads : \A i \in Slots(u) :
        stack[u][i].op \in {"unprepare", "execute"} \/ stack[u][i].at = "register"
          => stack[u][i].stmt \in Stmts
  BY DEF IInv, StackInv, FrameOK
<1>7. StmtInv'
  <2>1. ASSUME NEW r \in Stmts, state'[r] # "free", r \notin Range(registered')
        PROVE  \E u \in Threads : \E i \in Slots(u)' : stack'[u][i].at = "register" /\ stack'[u][i].stmt = r
    <3>1. PICK u \in Threads : \E i \in Slots(u) : stack[u][i].at = "register" /\ stack[u][i].stmt = r
      BY <1>2, <1>3, <2>1 DEF IInv, StmtInv
    <3>2. PICK i \in Slots(u) : stack[u][i].at = "register" /\ stack[u][i].stmt = r
      BY <3>1
    <3>. QED
      BY <3>2
  <2>2. ASSUME NEW u \in Threads, NEW i \in Slots(u)', stack'[u][i].at = "register"
        PROVE  /\ state'[stack'[u][i].stmt] # "free" /\ stack'[u][i].stmt \notin Range(registered')
               /\ \A v \in Threads : \A k \in Slots(v)' :
                    stack'[v][k].at = "register" /\ stack'[v][k].stmt = stack'[u][i].stmt => v = u /\ k = i
    <3>1. stack'[u][i] = stack[u][i] /\ i \in Slots(u) /\ stack[u][i].stmt \in Stmts
      BY <1>6, <2>2
    <3>2. /\ state[stack[u][i].stmt] # "free" /\ stack[u][i].stmt \notin Range(registered)
          /\ \A v \in Threads : \A k \in Slots(v) :
               stack[v][k].at = "register" /\ stack[v][k].stmt = stack[u][i].stmt => v = u /\ k = i
      BY <2>2, <3>1 DEF IInv, StmtInv
    <3>3. stack[u][i].stmt # e
      BY <3>2
    <3>4. \A v \in Threads : \A k \in Slots(v)' : k \in Slots(v) /\ stack'[v][k] = stack[v][k]
      OBVIOUS
    <3>5. \A v \in Threads : \A k \in Slots(v)' :
             stack'[v][k].at = "register" /\ stack'[v][k].stmt = stack'[u][i].stmt => v = u /\ k = i
      BY <3>1, <3>2, <3>4
    <3>. QED
      BY <1>2, <1>3, <3>1, <3>2, <3>3, <3>5
  <2>3. ASSUME NEW u \in Threads, NEW i \in Slots(u)', stack'[u][i].op = "unprepare", stack'[u][i].at = "library"
        PROVE  stack'[u][i].stmt \in Range(registered')
    BY <1>2, <2>3 DEF IInv, StmtInv
  <2>4. IsInjective(registered') /\ \A r \in Range(registered') : state'[r] # "free"
    BY <1>1, <1>2, <1>3 DEF IInv, StmtInv
  <2>. QED
    BY <2>1, <2>2, <2>3, <2>4 DEF StmtInv
<1>8. CarefulInv'
  <2>. SUFFICES ASSUME ~reckless PROVE CarefulInv'
    BY DEF CarefulInv
  <2>1. ASSUME NEW u \in Threads, NEW i \in Slots(u)', stack'[u][i].op = "execute"
        PROVE  /\ state'[stack'[u][i].stmt] # "free" /\ stack'[u][i].stmt \in Range(registered')
               /\ \A v \in Threads : \A k \in Slots(v)' :
                    stack'[v][k].op = "unprepare" => stack'[v][k].stmt # stack'[u][i].stmt
    <3>1. stack'[u][i] = stack[u][i] /\ i \in Slots(u) /\ stack[u][i].stmt \in Stmts \ {e}
      BY <1>6, <2>1
    <3>2. /\ state[stack[u][i].stmt] # "free" /\ stack[u][i].stmt \in Range(registered)
          /\ \A v \in Threads : \A k \in Slots(v) :
               stack[v][k].op = "unprepare" => stack[v][k].stmt # stack[u][i].stmt
      BY <2>1, <3>1 DEF IInv, CarefulInv
    <3>. QED
      BY <1>2, <1>3, <3>1, <3>2
  <2>2. ASSUME NEW u \in Threads, NEW i \in Slots(u)', stack'[u][i].op = "cleanup"
        PROVE  life # "alive" /\ i = 1 /\ Len(stack'[u]) = 1 /\ \A v \in Threads \ {u} : stack'[v] = <<>>
    BY <2>2 DEF IInv, CarefulInv
  <2>3. /\ life = "undefined" => db = "sick"
        /\ db = "dangling" => life # "alive" /\ \A u \in Threads : stack'[u] = <<>>
    BY DEF IInv, CarefulInv
  <2>. QED
    BY <2>1, <2>2, <2>3 DEF CarefulInv
<1>9. RowInv'
  <2>1. \A r \in Stmts : state'[r] = "ready" => cursor'[r] = 0
    BY <1>3 DEF IInv, RowInv
  <2>. SUFFICES ASSUME ~reckless, NEW u \in Threads, NEW i \in Slots(u)',
                       stack'[u][i].op = "execute", stack'[u][i].seen # Void
       PROVE  /\ \A v \in Threads : \A k \in Slots(v)' :
                   stack'[v][k].op = "execute" /\ stack'[v][k].stmt = stack'[u][i].stmt => v = u /\ k = i
              /\ stack'[u][i].at = "bind" => stack'[u][i].seen = 0 /\ state'[stack'[u][i].stmt] = "ready"
              /\ stack'[u][i].at \in {"step", "callback"} =>
                   /\ bound'[stack'[u][i].stmt] = stack'[u][i].param
                   /\ state'[stack'[u][i].stmt] \in {"ready", "row"}
                   /\ stack'[u][i].seen = cursor'[stack'[u][i].stmt]
              /\ stack'[u][i].at = "reset" => stack'[u][i].seen = Rows
    BY <2>1 DEF RowInv
  <2>2. stack'[u][i] = stack[u][i] /\ i \in Slots(u) /\ stack[u][i].stmt \in Stmts \ {e}
    BY <1>6
  <2>. QED
    BY <1>3, <2>2 DEF IInv, RowInv
<1>. QED
  BY <1>4, <1>5, <1>7, <1>8, <1>9 DEF IInv

\* Unprepare finalizes what it has found: it has the token, so nobody else has
\* found it too.
LEMMA UnprepareKeeps ==
  ASSUME IInv, NEW t \in Threads, UnprepareFinalize(t)
  PROVE  IInv'
<1>. DEFINE n == Len(stack[t])
            e == stack[t][n].stmt
<1>1. /\ stack[t] # <<>> /\ n \in Nat \ {0} /\ n \in Slots(t) /\ stack[t][n].op = "unprepare"
      /\ stack[t][n].at = "library" /\ Top(t).stmt = e
  BY AtFacts DEF Runs, UnprepareFinalize
<1>2. e \in Range(registered)
  BY <1>1 DEF IInv, StmtInv
<1>3. /\ stack' \in [Threads -> Seq(Frames)] /\ \A u \in Threads : Len(stack'[u]) <= MaxDepth
      /\ \A u \in Threads : Len(stack'[u]) = IF u = t THEN n - 1 ELSE Len(stack[u])
      /\ \A u \in Threads : stack'[u] = <<>> <=> Len(stack'[u]) = 0
      /\ \A u \in Threads : Len(stack[u]) \in Nat /\ (Len(stack[u]) = 0 <=> stack[u] = <<>>)
  BY <1>1, PopEffect DEF IInv, TypeOK, UnprepareFinalize
<1>4. \A u \in Threads : \A i \in Slots(u)' :
        i \in Slots(u) /\ stack'[u][i] = stack[u][i] /\ (u = t => i < n)
  BY <1>1, PopEffect DEF IInv, UnprepareFinalize
<1>5. \A u \in Threads : \A i \in Slots(u) : i \in Slots(u)' \/ (u = t /\ i = n)
  BY <1>1, PopEffect DEF IInv, UnprepareFinalize
<1>6. ASSUME NEW u \in Threads, NEW i \in Slots(u)'
      PROVE  ~(stack[u][i].op = "unprepare" /\ stack[u][i].at = "library")
  <2>1. CASE u = t
    BY <1>1, <1>4, <2>1 DEF IInv, StackInv, InCallback
  <2>2. CASE u # t
    BY <1>1, <1>4, <2>2 DEF IInv, StackInv, HoldsMap
  <2>. QED
    BY <2>1, <2>2
<1>7. ASSUME NEW u \in Threads, NEW i \in Slots(u)', stack[u][i].op = "cleanup"
      PROVE  Len(stack'[u]) = Len(stack[u])
  BY <1>3, <1>4, <1>7 DEF IInv, StackInv, InCallback
<1>8. ~reckless => \A u \in Threads : \A i \in Slots(u)' :
           ~(stack[u][i].op = "execute" /\ stack[u][i].stmt = e)
  BY <1>1, <1>4 DEF IInv, CarefulInv
<1>9. \A u \in Threads : stack[u] = <<>> => stack'[u] = <<>>
  BY <1>1, <1>3
<1>10. ASSUME NEW u \in Threads, NEW i \in Slots(u)' PROVE i < Len(stack'[u]) => i < Len(stack[u])
  BY <1>3, <1>4
<1>11. \A u \in Threads : \A i \in Slots(u) : stack[u][i].at = "register" => i \in Slots(u)'
  BY <1>1, <1>5
<1>12. Finalize(e) /\ UNCHANGED <<db, life, reckless>>
  BY <1>1 DEF UnprepareFinalize
<1>. HIDE DEF e, n
<1>. QED
  BY <1>2, <1>3, <1>4, <1>6, <1>7, <1>8, <1>9, <1>10, <1>11, <1>12, FinalizeKeeps

\* One turn of the loop of Cleanup, which has the token too.
LEMMA CleanupTurnKeeps ==
  ASSUME IInv, NEW t \in Threads, CleanupFinalize(t)
  PROVE  IInv'
<1>. DEFINE n == Len(stack[t])
<1>1. /\ stack[t] # <<>> /\ n \in Nat \ {0} /\ n \in Slots(t) /\ stack[t][n].op = "cleanup"
      /\ stack[t][n].at = "library"
  BY AtFacts DEF Runs, CleanupFinalize
<1>2. Head(registered) \in Range(registered)
  BY DEF CleanupFinalize, Range, IInv, TypeOK
<1>3. UNCHANGED stack /\ stack \in [Threads -> Seq(Frames)] /\ \A u \in Threads : Len(stack[u]) <= MaxDepth
  BY DEF CleanupFinalize, IInv, TypeOK
<1>4. \A u \in Threads : Slots(u)' = Slots(u)
  BY <1>3 DEF Slots
<1>5. ASSUME NEW u \in Threads, NEW i \in Slots(u)
      PROVE  ~(stack[u][i].op = "unprepare" /\ stack[u][i].at = "library")
  <2>1. CASE u = t /\ i = n
    BY <1>1, <2>1
  <2>2. CASE u = t /\ i < n
    BY <1>1, <2>2 DEF IInv, StackInv, InCallback
  <2>3. CASE u # t
    BY <1>1, <2>3 DEF IInv, StackInv, HoldsMap
  <2>. QED
    BY <1>1, <2>1, <2>2, <2>3 DEF Slots
<1>6. ~reckless => \A u \in Threads : \A i \in Slots(u) : stack[u][i].op # "execute"
  <2>. SUFFICES ASSUME ~reckless PROVE \A u \in Threads : \A i \in Slots(u) : stack[u][i].op # "execute"
    OBVIOUS
  <2>1. Len(stack[t]) = 1 /\ \A u \in Threads \ {t} : stack[u] = <<>>
    BY <1>1 DEF IInv, CarefulInv
  <2>2. \A u \in Threads \ {t} : Slots(u) = {}
    BY <2>1 DEF Slots
  <2>3. Slots(t) = {1} /\ stack[t][1].op = "cleanup"
    BY <1>1, <2>1 DEF Slots
  <2>. QED
    BY <2>2, <2>3
<1>7. Finalize(Head(registered)) /\ UNCHANGED <<db, life, reckless>>
  BY DEF CleanupFinalize
<1>. QED
  BY <1>2, <1>3, <1>4, <1>5, <1>6, <1>7, FinalizeKeeps

\* PreparedExecute resets its statement and returns.
LEMMA ResetKeeps ==
  ASSUME IInv, NEW t \in Threads, Reset(t)
  PROVE  IInv'
<1>. DEFINE n == Len(stack[t])
            s == stack[t][n].stmt
<1>1. /\ stack[t] # <<>> /\ n \in Nat \ {0} /\ n \in Slots(t) /\ stack[t][n].op = "execute"
      /\ stack[t][n].at = "reset" /\ s \in Stmts /\ Top(t).stmt = s /\ state[s] # "free"
  BY AtFacts DEF Runs, Reset, FrameOK, Free
<1>2. /\ \A u \in Threads : Len(stack'[u]) = IF u = t THEN n - 1 ELSE Len(stack[u])
      /\ \A u \in Threads : stack'[u] = <<>> <=> Len(stack'[u]) = 0
      /\ \A u \in Threads : Len(stack[u]) \in Nat /\ (Len(stack[u]) = 0 <=> stack[u] = <<>>)
  BY <1>1, PopEffect DEF IInv, TypeOK, Reset
<1>3. \A u \in Threads : \A i \in Slots(u)' :
        i \in Slots(u) /\ stack'[u][i] = stack[u][i] /\ (u = t => i < n)
  BY <1>1, PopEffect DEF IInv, Reset
<1>4. \A u \in Threads : \A i \in Slots(u) : i \in Slots(u)' \/ (u = t /\ i = n)
  BY <1>1, PopEffect DEF IInv, Reset
<1>5. /\ state'[s] = "ready" /\ cursor'[s] = 0
      /\ \A r \in Stmts \ {s} : state'[r] = state[r] /\ cursor'[r] = cursor[r]
      /\ UNCHANGED <<db, registered, bound, life, reckless>>
  BY <1>1 DEF Reset, IInv, TypeOK
<1>6. TypeOK'
  <2>1. stack' \in [Threads -> Seq(Frames)] /\ \A u \in Threads : Len(stack'[u]) <= MaxDepth
    BY <1>1, PopEffect DEF IInv, Reset
  <2>2. cursor' \in [Stmts -> 0 .. Rows] /\ state' \in [Stmts -> {"free", "ready", "row", "halted"}]
    <3>1. state' = [state EXCEPT ![s] = "ready"] /\ cursor' = [cursor EXCEPT ![s] = 0] /\ 0 \in 0 .. Rows
      BY <1>1, SqliteAssumption DEF Reset
    <3>. QED
      BY <3>1 DEF IInv, TypeOK
  <2>. QED
    BY <1>5, <2>1, <2>2 DEF IInv, TypeOK
<1>. HIDE DEF s, n
<1>7. StackInv'
  BY <1>2, <1>3 DEF IInv, StackInv, n
<1>8. Range(registered) \subseteq Stmts
      /\ \A u \in Threads : \A i \in Slots(u) :
           stack[u][i].op = "execute" \/ stack[u][i].at = "register" => stack[u][i].stmt \in Stmts
  BY DEF IInv, TypeOK, Range, StackInv, FrameOK
<1>9. \A r \in Stmts : state'[r] = "free" <=> state[r] = "free"
  BY <1>1, <1>5
<1>10. StmtInv'
  <2>1. ASSUME NEW r \in Stmts, state'[r] # "free", r \notin Range(registered)
        PROVE  \E u \in Threads : \E i \in Slots(u)' : stack'[u][i].at = "register" /\ stack'[u][i].stmt = r
    <3>1. PICK u \in Threads : \E i \in Slots(u) : stack[u][i].at = "register" /\ stack[u][i].stmt = r
      BY <1>9, <2>1 DEF IInv, StmtInv
    <3>2. PICK i \in Slots(u) : stack[u][i].at = "register" /\ stack[u][i].stmt = r
      BY <3>1
    <3>. QED
      BY <1>1, <1>3, <1>4, <3>2
  <2>2. ASSUME NEW u \in Threads, NEW i \in Slots(u)', stack'[u][i].at = "register"
        PROVE  /\ state'[stack'[u][i].stmt] # "free" /\ stack'[u][i].stmt \notin Range(registered)
               /\ \A v \in Threads : \A k \in Slots(v)' :
                    stack'[v][k].at = "register" /\ stack'[v][k].stmt = stack'[u][i].stmt => v = u /\ k = i
    BY <1>3, <1>8, <1>9, <2>2 DEF IInv, StmtInv
  <2>3. ASSUME NEW u \in Threads, NEW i \in Slots(u)', stack'[u][i].op = "unprepare", stack'[u][i].at = "library"
        PROVE  stack'[u][i].stmt \in Range(registered)
    BY <1>3, <2>3 DEF IInv, StmtInv
  <2>4. IsInjective(registered) /\ \A r \in Range(registered) : state'[r] # "free"
    BY <1>8, <1>9 DEF IInv, StmtInv
  <2>. QED
    BY <1>5, <2>1, <2>2, <2>3, <2>4 DEF StmtInv
<1>11. CarefulInv'
  <2>. SUFFICES ASSUME ~reckless PROVE CarefulInv'
    BY <1>5 DEF CarefulInv
  <2>1. ASSUME NEW u \in Threads, NEW i \in Slots(u)', stack'[u][i].op = "execute"
        PROVE  /\ state'[stack'[u][i].stmt] # "free" /\ stack'[u][i].stmt \in Range(registered)
               /\ \A v \in Threads : \A k \in Slots(v)' :
                    stack'[v][k].op = "unprepare" => stack'[v][k].stmt # stack'[u][i].stmt
    BY <1>3, <1>8, <1>9, <2>1 DEF IInv, CarefulInv
  <2>2. \A u \in Threads : \A i \in Slots(u)' : stack[u][i].op # "cleanup"
    BY <1>1, <1>2, <1>3 DEF IInv, CarefulInv, n, Slots
  <2>3. /\ life = "undefined" => db = "sick"
        /\ db # "dangling"
    BY <1>1 DEF IInv, CarefulInv
  <2>. QED
    BY <1>3, <1>5, <2>1, <2>2, <2>3 DEF CarefulInv
<1>12. RowInv'
  <2>1. \A r \in Stmts : state'[r] = "ready" => cursor'[r] = 0
    BY <1>5 DEF IInv, RowInv
  <2>. SUFFICES ASSUME ~reckless, NEW u \in Threads, NEW i \in Slots(u)',
                       stack'[u][i].op = "execute", stack'[u][i].seen # Void
       PROVE  /\ \A v \in Threads : \A k \in Slots(v)' :
                   stack'[v][k].op = "execute" /\ stack'[v][k].stmt = stack'[u][i].stmt => v = u /\ k = i
              /\ stack'[u][i].at = "bind" => stack'[u][i].seen = 0 /\ state'[stack'[u][i].stmt] = "ready"
              /\ stack'[u][i].at \in {"step", "callback"} =>
                   /\ bound'[stack'[u][i].stmt] = stack'[u][i].param
                   /\ state'[stack'[u][i].stmt] \in {"ready", "row"}
                   /\ stack'[u][i].seen = cursor'[stack'[u][i].stmt]
              /\ stack'[u][i].at = "reset" => stack'[u][i].seen = Rows
    BY <1>5, <2>1 DEF RowInv
  <2>2. stack'[u][i] = stack[u][i] /\ i \in Slots(u) /\ stack[u][i].stmt \in Stmts /\ (u = t => i < n)
    BY <1>3, <1>8
  <2>3. \A v \in Threads : \A k \in Slots(v) :
          stack[v][k].op = "execute" /\ stack[v][k].stmt = stack[u][i].stmt => v = u /\ k = i
    BY <2>2 DEF IInv, RowInv
  <2>4. stack[u][i].stmt # s
    BY <1>1, <2>2, <2>3 DEF s
  <2>. QED
    BY <1>3, <1>5, <2>2, <2>4 DEF IInv, RowInv
<1>. QED
  BY <1>6, <1>7, <1>10, <1>11, <1>12 DEF IInv

\* Cleanup closes the connection.
LEMMA CloseKeeps ==
  ASSUME IInv, NEW t \in Threads, CleanupClose(t)
  PROVE  IInv'
<1>. DEFINE n == Len(stack[t])
<1>1. /\ stack[t] # <<>> /\ n \in Nat \ {0} /\ n \in Slots(t) /\ stack[t][n].op = "cleanup"
      /\ stack[t][n].at = "close" /\ life # "undefined"
  BY AtFacts DEF Runs, CleanupClose
<1>2. /\ \A u \in Threads : Len(stack'[u]) = IF u = t THEN n - 1 ELSE Len(stack[u])
      /\ \A u \in Threads : stack'[u] = <<>> <=> Len(stack'[u]) = 0
      /\ \A u \in Threads : Len(stack[u]) \in Nat /\ (Len(stack[u]) = 0 <=> stack[u] = <<>>)
  BY <1>1, PopEffect DEF IInv, TypeOK, CleanupClose
<1>3. \A u \in Threads : \A i \in Slots(u)' :
        i \in Slots(u) /\ stack'[u][i] = stack[u][i] /\ (u = t => i < n)
  BY <1>1, PopEffect DEF IInv, CleanupClose
<1>4. \A u \in Threads : \A i \in Slots(u) : i \in Slots(u)' \/ (u = t /\ i = n)
  BY <1>1, PopEffect DEF IInv, CleanupClose
<1>5. UNCHANGED <<registered, library, reckless>>
  BY DEF CleanupClose
<1>6. TypeOK'
  <2>1. stack' \in [Threads -> Seq(Frames)] /\ \A u \in Threads : Len(stack'[u]) <= MaxDepth
    BY <1>1, PopEffect DEF IInv, CleanupClose
  <2>2. db' \in {"null", "open", "sick", "dangling"} /\ life' \in {"alive", "dying", "gone", "undefined"}
    BY DEF IInv, TypeOK, CleanupClose
  <2>. QED
    BY <1>5, <2>1, <2>2 DEF IInv, TypeOK
<1>. HIDE DEF n
<1>7. StackInv'
  BY <1>2, <1>3 DEF IInv, StackInv, n
<1>8. StmtInv'
  <2>1. ASSUME NEW r \in Stmts, state[r] # "free", r \notin Range(registered)
        PROVE  \E u \in Threads : \E i \in Slots(u)' : stack'[u][i].at = "register" /\ stack'[u][i].stmt = r
    <3>1. PICK u \in Threads : \E i \in Slots(u) : stack[u][i].at = "register" /\ stack[u][i].stmt = r
      BY <2>1 DEF IInv, StmtInv
    <3>2. PICK i \in Slots(u) : stack[u][i].at = "register" /\ stack[u][i].stmt = r
      BY <3>1
    <3>. QED
      BY <1>1, <1>3, <1>4, <3>2
  <2>. QED
    BY <1>3, <1>5, <2>1 DEF IInv, StmtInv
<1>9. CarefulInv'
  <2>. SUFFICES ASSUME ~reckless PROVE CarefulInv'
    BY <1>5 DEF CarefulInv
  <2>1. life # "alive" /\ n = 1 /\ \A u \in Threads \ {t} : stack[u] = <<>>
    BY <1>1 DEF IInv, CarefulInv, n
  <2>2. \A u \in Threads : Len(stack'[u]) = 0
    BY <1>2, <2>1
  <2>3. life' # "alive" /\ life' # "undefined"
    BY <1>1, <2>1 DEF CleanupClose
  <2>4. \A u \in Threads : Slots(u)' = {} /\ stack'[u] = <<>>
    BY <1>2, <2>2 DEF Slots
  <2>. QED
    BY <2>3, <2>4 DEF CarefulInv
<1>10. RowInv'
  BY <1>3, <1>5 DEF IInv, RowInv
<1>. QED
  BY <1>6, <1>7, <1>8, <1>9, <1>10 DEF IInv

\* The destructor, of an object that nobody is inside of.
LEMMA DestroyKeeps ==
  ASSUME IInv, NEW t \in Threads, Destroy(t)
  PROVE  IInv'
<1>. DEFINE f == Frame("cleanup", "lock", NoStmt, NoParam)
<1>1. /\ f \in Frames /\ f.op = "cleanup" /\ f.at = "lock" /\ FrameOK(f) /\ ~HoldsMap(f) /\ ~HoldsDb(f)
  BY FrameTyped, SqliteAssumption DEF Ops, Places, FrameOK, PlacesOf, HoldsMap, HoldsDb
<1>. HIDE DEF f
<1>2. /\ stack' = [stack EXCEPT ![t] = <<f>>] /\ life = "alive" /\ life' = "dying"
      /\ \A u \in Threads : stack[u] = <<>>
      /\ UNCHANGED <<db, registered, library, reckless>>
  BY DEF Destroy, f
<1>3. /\ \A u \in Threads \ {t} : stack'[u] = <<>> /\ Slots(u)' = {}
      /\ stack'[t] = <<f>> /\ Slots(t)' = {1} /\ Len(stack'[t]) = 1 /\ stack'[t][1] = f
      /\ \A u \in Threads : Slots(u) = {}
  BY <1>2 DEF IInv, TypeOK, Slots
<1>4. TypeOK'
  <2>1. stack' \in [Threads -> Seq(Frames)]
    BY <1>1, <1>2 DEF IInv, TypeOK
  <2>2. \A u \in Threads : Len(stack'[u]) <= MaxDepth
    <3>1. Len(<<>>) = 0 /\ 0 <= MaxDepth /\ 1 <= MaxDepth
      BY SqliteAssumption
    <3>. QED
      BY <1>3, <3>1
  <2>. QED
    BY <1>2, <2>1, <2>2 DEF IInv, TypeOK
<1>5. \A u \in Threads : \A i \in Slots(u)' : u = t /\ i = 1 /\ stack'[u][i] = f
  BY <1>3
<1>6. StackInv'
  <2>1. ASSUME NEW u \in Threads, NEW i \in Slots(u)'
        PROVE  FrameOK(stack'[u][i]) /\ ~(i < Len(stack'[u]))
    <3>1. u = t /\ i = 1 /\ stack'[u][i] = f
      BY <1>5
    <3>2. Len(stack'[u]) = 1
      BY <1>3, <3>1
    <3>. QED
      BY <1>1, <3>1, <3>2
  <2>2. \A u, v \in Threads : \A i \in Slots(u)', k \in Slots(v)' : u = v
    BY <1>5
  <2>. QED
    BY <2>1, <2>2 DEF StackInv
<1>7. StmtInv'
  BY <1>1, <1>2, <1>3, <1>5 DEF IInv, StmtInv
<1>8. CarefulInv'
  BY <1>1, <1>2, <1>3, <1>5 DEF IInv, CarefulInv
<1>9. RowInv'
  BY <1>1, <1>2, <1>5 DEF IInv, RowInv
<1>. QED
  BY <1>4, <1>6, <1>7, <1>8, <1>9 DEF IInv

\* PreparedExecute is called: it finds its statement for itself and reset, or what it
\* sees, and what the other executions of it see, does not count.
LEMMA CallExecuteKeeps ==
  ASSUME IInv, NEW t \in Threads, NEW s \in Stmts, NEW p \in Params, CallExecute(t, s, p)
  PROVE  IInv'
<1>. DEFINE n == Len(stack[t])
            alone == Executing(s) = {} /\ state[s] = "ready"
            mark(f) == IF f.op = "execute" /\ f.stmt = s THEN [f EXCEPT !.seen = Void] ELSE f
            others == [u \in Threads |-> [i \in DOMAIN stack[u] |-> mark(stack[u][i])]]
            call == [Frame("execute", "bind", s, p) EXCEPT !.seen = IF alone THEN 0 ELSE Void]
<1>1. /\ stack' = [others EXCEPT ![t] = Append(@, call)]
      /\ life = "alive" /\ (stack[t] # <<>> => InCallback(Top(t))) /\ n < MaxDepth
      /\ s \in Range(registered) /\ UNCHANGED <<db, registered, library, life, reckless>>
  BY DEF CallExecute, MayCall
<1>2. \A u \in Threads : \A i \in Slots(u) : stack[u][i].op = "unprepare" => stack[u][i].stmt # s
  BY CallSlots DEF CallExecute, IInv
<1>3. /\ call \in Frames /\ call.op = "execute" /\ call.at = "bind" /\ call.stmt = s /\ call.param = p
      /\ call.seen = IF alone THEN 0 ELSE Void
  <2>1. /\ Frame("execute", "bind", s, p) \in Frames /\ Frame("execute", "bind", s, p).op = "execute"
        /\ Frame("execute", "bind", s, p).at = "bind" /\ Frame("execute", "bind", s, p).stmt = s
        /\ Frame("execute", "bind", s, p).param = p
    BY FrameTyped DEF Ops, Places
  <2>2. 0 \in 0 .. Void /\ Void \in 0 .. Void
    BY SqliteAssumption DEF Void
  <2>. HIDE DEF alone
  <2>. QED
    BY <2>1, <2>2 DEF Frames
<1>4. alone => \A u \in Threads : \A i \in Slots(u) : ~(stack[u][i].op = "execute" /\ stack[u][i].stmt = s)
  BY CallSlots DEF Executing, IInv
<1>5. ASSUME NEW f \in Frames
      PROVE  /\ mark(f) \in Frames /\ mark(f).op = f.op /\ mark(f).at = f.at /\ mark(f).stmt = f.stmt
             /\ mark(f).param = f.param
             /\ mark(f).seen = IF f.op = "execute" /\ f.stmt = s THEN Void ELSE f.seen
  <2>1. Void \in 0 .. Void
    BY SqliteAssumption DEF Void
  <2>. QED
    BY <2>1 DEF Frames
<1>. HIDE DEF mark, call, alone
<1>6. \A u \in Threads : stack[u] \in Seq(Frames) /\ Len(stack[u]) \in Nat /\ DOMAIN stack[u] = 1 .. Len(stack[u])
      /\ Len(stack[u]) <= MaxDepth
  BY DEF IInv, TypeOK
<1>7. \A u \in Threads :
        /\ others[u] \in Seq(Frames) /\ Len(others[u]) = Len(stack[u])
        /\ \A i \in 1 .. Len(stack[u]) : others[u][i] = mark(stack[u][i])
  BY <1>5, <1>6
<1>. HIDE DEF others
<1>8. /\ stack' \in [Threads -> Seq(Frames)] /\ \A u \in Threads \ {t} : stack'[u] = others[u]
      /\ stack'[t] = Append(others[t], call)
  <2>1. others \in [Threads -> Seq(Frames)] /\ Append(others[t], call) \in Seq(Frames)
    <3>1. others = [u \in Threads |-> others[u]]
      BY DEF others
    <3>. QED
      BY <1>3, <1>7, <3>1
  <2>. QED
    BY <1>1, <2>1
<1>9. /\ Len(stack'[t]) = n + 1 /\ stack'[t][n + 1] = call
      /\ \A i \in 1 .. n : stack'[t][i] = mark(stack[t][i])
  BY <1>3, <1>7, <1>8
<1>10. \A u \in Threads \ {t} : Len(stack'[u]) = Len(stack[u]) /\ Slots(u)' = Slots(u)
       /\ \A i \in Slots(u) : stack'[u][i] = mark(stack[u][i])
  BY <1>7, <1>8 DEF Slots
<1>11. Slots(t)' = Slots(t) \cup {n + 1} /\ n \in Nat /\ n + 1 \notin Slots(t)
  BY <1>6, <1>9 DEF Slots
<1>12. ASSUME NEW u \in Threads, NEW i \in Slots(u)'
       PROVE  \/ u = t /\ i = n + 1 /\ stack'[u][i] = call
              \/ i \in Slots(u) /\ stack'[u][i] = mark(stack[u][i])
  BY <1>9, <1>10, <1>11 DEF Slots
<1>13. ASSUME NEW u \in Threads, NEW i \in Slots(u)
       PROVE  /\ i \in Slots(u)' /\ stack'[u][i] = mark(stack[u][i]) /\ stack[u][i] \in Frames
  BY <1>6, <1>9, <1>10, <1>11 DEF Slots
<1>14. ASSUME NEW u \in Threads, NEW i \in Slots(u)', stack'[u][i] # call \/ u # t \/ i # n + 1
       PROVE  /\ i \in Slots(u) /\ stack'[u][i].op = stack[u][i].op /\ stack'[u][i].at = stack[u][i].at
              /\ stack'[u][i].stmt = stack[u][i].stmt /\ stack'[u][i].param = stack[u][i].param
              /\ stack'[u][i].seen = IF stack[u][i].op = "execute" /\ stack[u][i].stmt = s
                                     THEN Void ELSE stack[u][i].seen
  BY <1>5, <1>12, <1>13, <1>14
<1>15. TypeOK'
  <2>1. \A u \in Threads : Len(stack'[u]) <= MaxDepth
    BY <1>1, <1>6, <1>9, <1>10, SqliteAssumption
  <2>. QED
    BY <1>1, <1>8, <2>1 DEF IInv, TypeOK
<1>16. StackInv'
  <2>1. ASSUME NEW u \in Threads, NEW i \in Slots(u)'
        PROVE  FrameOK(stack'[u][i]) /\ (i < Len(stack'[u]) => InCallback(stack'[u][i]))
    <3>1. CASE u = t /\ i = n + 1
      BY <1>3, <1>9, <3>1 DEF FrameOK, PlacesOf
    <3>2. CASE ~(u = t /\ i = n + 1)
      <4>1. /\ i \in Slots(u) /\ stack'[u][i].op = stack[u][i].op /\ stack'[u][i].at = stack[u][i].at
            /\ stack'[u][i].stmt = stack[u][i].stmt /\ stack'[u][i].param = stack[u][i].param
        BY <1>14, <3>2
      <4>2. FrameOK(stack'[u][i])
        BY <4>1 DEF FrameOK, IInv, StackInv
      <4>3. i < Len(stack'[u]) => i < Len(stack[u]) \/ (u = t /\ i = n)
        BY <1>9, <1>10, <1>11, <4>1 DEF Slots
      <4>4. u = t /\ i = n => InCallback(stack[u][i])
        BY <1>1, <1>6, <4>1, TopSlot DEF IInv, Slots
      <4>5. i < Len(stack[u]) => InCallback(stack[u][i])
        BY <4>1 DEF IInv, StackInv
      <4>. QED
        BY <4>1, <4>2, <4>3, <4>4, <4>5 DEF InCallback
    <3>. QED
      BY <3>1, <3>2
  <2>2. ASSUME NEW u \in Threads, NEW i \in Slots(u)'
        PROVE  /\ HoldsMap(stack'[u][i]) => i \in Slots(u) /\ HoldsMap(stack[u][i])
               /\ HoldsDb(stack'[u][i]) => i \in Slots(u) /\ HoldsDb(stack[u][i])
    <3>1. CASE u = t /\ i = n + 1
      BY <1>3, <1>9, <3>1 DEF HoldsMap, HoldsDb
    <3>2. CASE ~(u = t /\ i = n + 1)
      BY <1>14, <3>2 DEF HoldsMap, HoldsDb
    <3>. QED
      BY <3>1, <3>2
  <2>3. \A u, v \in Threads : \A i \in Slots(u)', k \in Slots(v)' :
          /\ HoldsMap(stack'[u][i]) /\ HoldsMap(stack'[v][k]) => u = v
          /\ HoldsDb(stack'[u][i]) /\ HoldsDb(stack'[v][k]) => u = v
    BY <2>2 DEF StackInv, IInv
  <2>. QED
    BY <2>1, <2>3 DEF StackInv
<1>17. ASSUME NEW u \in Threads, NEW i \in Slots(u)', stack'[u][i].op # "execute" \/ stack'[u][i].at # "bind"
       PROVE  /\ i \in Slots(u) /\ stack'[u][i].op = stack[u][i].op /\ stack'[u][i].at = stack[u][i].at
              /\ stack'[u][i].stmt = stack[u][i].stmt
  BY <1>3, <1>14, <1>17
<1>18. StmtInv'
  <2>1. ASSUME NEW r \in Stmts, state[r] # "free", r \notin Range(registered)
        PROVE  \E u \in Threads : \E i \in Slots(u)' : stack'[u][i].at = "register" /\ stack'[u][i].stmt = r
    <3>1. PICK u \in Threads : \E i \in Slots(u) : stack[u][i].at = "register" /\ stack[u][i].stmt = r
      BY <2>1 DEF IInv, StmtInv
    <3>2. PICK i \in Slots(u) : stack[u][i].at = "register" /\ stack[u][i].stmt = r
      BY <3>1
    <3>. QED
      BY <1>5, <1>13, <3>2
  <2>2. ASSUME NEW u \in Threads, NEW i \in Slots(u)', stack'[u][i].at = "register"
        PROVE  /\ state[stack'[u][i].stmt] # "free" /\ stack'[u][i].stmt \notin Range(registered)
               /\ \A v \in Threads : \A k \in Slots(v)' :
                    stack'[v][k].at = "register" /\ stack'[v][k].stmt = stack'[u][i].stmt => v = u /\ k = i
    <3>1. i \in Slots(u) /\ stack[u][i].at = "register" /\ stack'[u][i].stmt = stack[u][i].stmt
      BY <1>17, <2>2
    <3>2. /\ state[stack[u][i].stmt] # "free" /\ stack[u][i].stmt \notin Range(registered)
          /\ \A v \in Threads : \A k \in Slots(v) :
               stack[v][k].at = "register" /\ stack[v][k].stmt = stack[u][i].stmt => v = u /\ k = i
      BY <3>1 DEF IInv, StmtInv
    <3>. QED
      BY <1>17, <3>1, <3>2
  <2>3. ASSUME NEW u \in Threads, NEW i \in Slots(u)', stack'[u][i].op = "unprepare", stack'[u][i].at = "library"
        PROVE  stack'[u][i].stmt \in Range(registered)
    BY <1>17, <2>3 DEF IInv, StmtInv
  <2>4. IsInjective(registered) /\ \A r \in Range(registered) : state[r] # "free"
    BY DEF IInv, StmtInv
  <2>. QED
    BY <1>1, <2>1, <2>2, <2>3, <2>4 DEF StmtInv
<1>19. CarefulInv'
  <2>. SUFFICES ASSUME ~reckless PROVE CarefulInv'
    BY <1>1 DEF CarefulInv
  <2>1. ASSUME NEW u \in Threads, NEW i \in Slots(u)', stack'[u][i].op = "execute"
        PROVE  /\ state[stack'[u][i].stmt] # "free" /\ stack'[u][i].stmt \in Range(registered)
               /\ \A v \in Threads : \A k \in Slots(v)' :
                    stack'[v][k].op = "unprepare" => stack'[v][k].stmt # stack'[u][i].stmt
    <3>1. CASE u = t /\ i = n + 1
      <4>1. state[s] # "free"
        BY <1>1 DEF IInv, StmtInv
      <4>2. stack'[u][i].stmt = s
        BY <1>3, <1>9, <3>1
      <4>3. \A v \in Threads : \A k \in Slots(v)' : stack'[v][k].op = "unprepare" => stack'[v][k].stmt # s
        BY <1>2, <1>17
      <4>. QED
        BY <1>1, <4>1, <4>2, <4>3
    <3>2. CASE ~(u = t /\ i = n + 1)
      <4>1. i \in Slots(u) /\ stack[u][i].op = "execute" /\ stack'[u][i].stmt = stack[u][i].stmt
        BY <1>14, <2>1, <3>2
      <4>2. /\ state[stack[u][i].stmt] # "free" /\ stack[u][i].stmt \in Range(registered)
            /\ \A v \in Threads : \A k \in Slots(v) :
                 stack[v][k].op = "unprepare" => stack[v][k].stmt # stack[u][i].stmt
        BY <4>1 DEF IInv, CarefulInv
      <4>. QED
        BY <1>17, <4>1, <4>2
    <3>. QED
      BY <3>1, <3>2
  <2>2. ASSUME NEW u \in Threads, NEW i \in Slots(u)' PROVE stack'[u][i].op # "cleanup"
    <3>1. stack'[u][i].op = "cleanup" => i \in Slots(u) /\ stack[u][i].op = "cleanup"
      BY <1>17
    <3>2. \A k \in Slots(u) : stack[u][k].op # "cleanup"
      BY <1>1 DEF IInv, CarefulInv
    <3>. QED
      BY <3>1, <3>2
  <2>3. life # "undefined" /\ db # "dangling"
    BY <1>1 DEF IInv, CarefulInv
  <2>. QED
    BY <1>1, <2>1, <2>2, <2>3 DEF CarefulInv
<1>20. RowInv'
  <2>0. /\ state' = state /\ cursor' = cursor /\ bound' = bound /\ reckless' = reckless
        /\ \A r \in Stmts : state[r] = "ready" => cursor[r] = 0
    BY <1>1 DEF IInv, RowInv
  <2>. SUFFICES ASSUME ~reckless, NEW u \in Threads, NEW i \in Slots(u)',
                       stack'[u][i].op = "execute", stack'[u][i].seen # Void
       PROVE  /\ \A v \in Threads : \A k \in Slots(v)' :
                   stack'[v][k].op = "execute" /\ stack'[v][k].stmt = stack'[u][i].stmt => v = u /\ k = i
              /\ stack'[u][i].at = "bind" => stack'[u][i].seen = 0 /\ state[stack'[u][i].stmt] = "ready"
              /\ stack'[u][i].at \in {"step", "callback"} =>
                   /\ bound[stack'[u][i].stmt] = stack'[u][i].param
                   /\ state[stack'[u][i].stmt] \in {"ready", "row"}
                   /\ stack'[u][i].seen = cursor[stack'[u][i].stmt]
              /\ stack'[u][i].at = "reset" => stack'[u][i].seen = Rows
    BY <2>0 DEF RowInv
  <2>1. CASE u = t /\ i = n + 1
    <3>1. stack'[u][i] = call /\ alone
      BY <1>3, <1>9, <2>1
    <3>2. \A v \in Threads : \A k \in Slots(v)' :
            stack'[v][k].op = "execute" /\ stack'[v][k].stmt = s => v = t /\ k = n + 1
      BY <1>4, <1>14, <3>1
    <3>3. state[s] = "ready"
      BY <3>1 DEF alone
    <3>. QED
      BY <1>3, <2>1, <3>1, <3>2, <3>3
  <2>2. CASE ~(u = t /\ i = n + 1)
    <3>1. /\ i \in Slots(u) /\ stack[u][i].op = "execute" /\ stack'[u][i].stmt = stack[u][i].stmt
          /\ stack'[u][i].param = stack[u][i].param /\ stack'[u][i].at = stack[u][i].at
          /\ stack[u][i].stmt # s /\ stack'[u][i].seen = stack[u][i].seen
      BY <1>14, <2>2
    <3>2. /\ \A v \in Threads : \A k \in Slots(v) :
                   stack[v][k].op = "execute" /\ stack[v][k].stmt = stack[u][i].stmt => v = u /\ k = i
          /\ stack[u][i].at = "bind" => stack[u][i].seen = 0 /\ state[stack[u][i].stmt] = "ready"
          /\ stack[u][i].at \in {"step", "callback"} =>
                   /\ bound[stack[u][i].stmt] = stack[u][i].param
                   /\ state[stack[u][i].stmt] \in {"ready", "row"}
                   /\ stack[u][i].seen = cursor[stack[u][i].stmt]
          /\ stack[u][i].at = "reset" => stack[u][i].seen = Rows
      BY <3>1 DEF IInv, RowInv
    <3>3. \A v \in Threads : \A k \in Slots(v)' :
            stack'[v][k].op = "execute" /\ stack'[v][k].stmt = stack'[u][i].stmt => v = u /\ k = i
      BY <1>3, <1>9, <1>14, <3>1, <3>2
    <3>. QED
      BY <3>1, <3>2, <3>3
  <2>. QED
    BY <2>1, <2>2
<1>. QED
  BY <1>15, <1>16, <1>18, <1>19, <1>20 DEF IInv

-----------------------------------------------------------------------------
(* Every step of every method keeps the invariant.                         *)

LEMMA PrepareStepKeeps ==
  ASSUME IInv, NEW t \in Threads, PrepareStep(t)
  PROVE  IInv'
<1>1. CASE CallPrepare(t)
  <2>. DEFINE f == Frame("prepare", "library", NoStmt, NoParam)
  <2>1. /\ f \in Frames /\ f.op = "prepare" /\ f.at = "library" /\ FrameOK(f)
        /\ ~HoldsMap(f) /\ ~HoldsDb(f)
    BY FrameTyped, SqliteAssumption DEF Ops, Places, FrameOK, PlacesOf, HoldsMap, HoldsDb
  <2>2. /\ MayCall(t) /\ stack' = [stack EXCEPT ![t] = Append(@, f)]
        /\ UNCHANGED <<db, registered, library, life, reckless>> /\ reckless \in BOOLEAN
    BY <1>1 DEF CallPrepare, IInv, TypeOK
  <2>. HIDE DEF f
  <2>. QED
    BY <2>1, <2>2, PushKeeps
<1>2. CASE PrepareLibrary(t)
  <2>1. stack[t] # <<>> /\ Top(t).at # "register"
    BY <1>2, AtFacts DEF PrepareLibrary, Runs
  <2>2. CASE Return(t) /\ UNCHANGED library
    <3>1. UNCHANGED <<db, registered, library, life, reckless>>
      BY <1>2, <2>2 DEF PrepareLibrary
    <3>. QED
      BY <2>1, <2>2, <3>1, PopKeeps
  <2>3. CASE ~(Return(t) /\ UNCHANGED library)
    <3>1. PICK s \in Stmts :
            /\ state[s] = "free" /\ state' = [state EXCEPT ![s] = "ready"]
            /\ cursor' = [cursor EXCEPT ![s] = 0] /\ bound' = [bound EXCEPT ![s] = NoParam]
            /\ Replace(t, Frame("prepare", "register", s, NoParam))
      BY <1>2, <2>3 DEF PrepareLibrary
    <3>2. Runs(t, "prepare", "library") /\ UNCHANGED <<db, registered, life, reckless>>
      BY <1>2 DEF PrepareLibrary
    <3>. QED
      BY <3>1, <3>2, PrepareGets
  <2>. QED
    BY <2>2, <2>3
<1>3. CASE PrepareRegister(t)
  BY <1>3, RegisterKeeps
<1>. QED
  BY <1>1, <1>2, <1>3 DEF PrepareStep

LEMMA UnprepareStepKeeps ==
  ASSUME IInv, NEW t \in Threads, UnprepareStep(t)
  PROVE  IInv'
<1>1. ASSUME NEW s \in Stmts, CallUnprepare(t, s) PROVE IInv'
  <2>. DEFINE f == Frame("unprepare", "lock", s, NoParam)
  <2>1. /\ f \in Frames /\ f.op = "unprepare" /\ f.at = "lock" /\ f.stmt = s /\ FrameOK(f)
        /\ ~HoldsMap(f) /\ ~HoldsDb(f)
    BY FrameTyped, SqliteAssumption DEF Ops, Places, FrameOK, PlacesOf, HoldsMap, HoldsDb
  <2>2. /\ MayCall(t) /\ stack' = [stack EXCEPT ![t] = Append(@, f)]
        /\ UNCHANGED <<db, registered, library, life>>
        /\ reckless' \in BOOLEAN /\ (reckless => reckless') /\ (reckless' \/ Executing(s) = {})
    BY <1>1 DEF CallUnprepare, IInv, TypeOK
  <2>. HIDE DEF f
  <2>. QED
    BY <2>1, <2>2, PushKeeps
<1>2. CASE UnprepareFind(t)
  <2>1. /\ stack[t] # <<>> /\ Top(t).op = "unprepare" /\ Top(t).at = "lock"
        /\ UNCHANGED <<db, registered, library, life, reckless>>
        /\ \A u \in Threads \ {t} : \A k \in Slots(u) : ~HoldsMap(stack[u][k])
    BY <1>2, AtFacts, NotBlocked DEF UnprepareFind, Runs, WantsMap, IInv
  <2>2. CASE Top(t).stmt \in Range(registered)
    <3>1. Goto(t, "library") /\ "library" \in Places /\ "library" \in PlacesOf("unprepare")
      BY <1>2, <2>2 DEF UnprepareFind, Places, PlacesOf
    <3>. QED
      BY <2>1, <2>2, <3>1, GotoKeeps
  <2>3. CASE Top(t).stmt \notin Range(registered)
    <3>1. Return(t)
      BY <1>2, <2>3 DEF UnprepareFind
    <3>. QED
      BY <2>1, <3>1, PopKeeps
  <2>. QED
    BY <2>2, <2>3
<1>3. CASE UnprepareFinalize(t)
  BY <1>3, UnprepareKeeps
<1>. QED
  BY <1>1, <1>2, <1>3 DEF UnprepareStep

LEMMA BindKeeps ==
  ASSUME IInv, NEW t \in Threads, Bind(t)
  PROVE  IInv'
<1>. DEFINE s == Top(t).stmt
            f == [Top(t) EXCEPT !.at = "step"]
<1>1. /\ stack[t] # <<>> /\ Top(t).op = "execute" /\ Top(t).at = "bind" /\ Top(t) \in Frames
      /\ s \in Stmts /\ Top(t).param \in Params /\ state[s] # "free" /\ Len(stack[t]) \in Slots(t)
      /\ Top(t) = stack[t][Len(stack[t])]
  BY AtFacts DEF Bind, Runs, FrameOK, Free
<1>2. /\ f \in Frames /\ f.op = "execute" /\ f.at = "step" /\ f.stmt = s /\ f.param = Top(t).param
      /\ f.seen = Top(t).seen
  BY <1>1 DEF Frames, Places
<1>3. /\ Replace(t, f) /\ UNCHANGED <<db, registered, life, reckless>>
      /\ state' = state /\ cursor' = cursor
      /\ bound' = IF state[s] = "ready" THEN [bound EXCEPT ![s] = Top(t).param] ELSE bound
  BY DEF Bind, Goto
<1>4. /\ bound' \in [Stmts -> Params \cup {NoParam}] /\ \A r \in Stmts \ {s} : bound'[r] = bound[r]
      /\ state[s] = "ready" => bound'[s] = Top(t).param
  BY <1>1, <1>3 DEF IInv, TypeOK
<1>5. state[s] = "ready" => cursor[s] = 0
  BY <1>1 DEF IInv, RowInv
<1>6. ~reckless /\ Top(t).seen # Void => Top(t).seen = 0 /\ state[s] = "ready"
  BY <1>1 DEF IInv, RowInv
<1>7. state \in [Stmts -> {"free", "ready", "row", "halted"}] /\ cursor \in [Stmts -> 0 .. Rows]
  BY DEF IInv, TypeOK
<1>. HIDE DEF s, f
<1>8. ~reckless /\ f.seen # Void =>
        /\ Top(t).seen # Void /\ bound'[s] = f.param /\ state'[s] \in {"ready", "row"} /\ f.seen = cursor'[s]
  BY <1>2, <1>3, <1>4, <1>5, <1>6
<1>9. s = Top(t).stmt
  BY DEF s
<1>. QED
  BY <1>1, <1>2, <1>3, <1>4, <1>5, <1>7, <1>8, <1>9, ExecuteKeeps

LEMMA StepRowKeeps ==
  ASSUME IInv, NEW t \in Threads, StepRow(t)
  PROVE  IInv'
<1>. DEFINE s == Top(t).stmt
            f == [Top(t) EXCEPT !.at = "callback", !.seen = Seen(Top(t), s)]
<1>1. /\ stack[t] # <<>> /\ Top(t).op = "execute" /\ Top(t).at = "step" /\ Top(t) \in Frames
      /\ s \in Stmts /\ Top(t).param \in Params /\ state[s] # "free" /\ Len(stack[t]) \in Slots(t)
      /\ Top(t) = stack[t][Len(stack[t])]
  BY AtFacts DEF StepRow, Runs, FrameOK, Free
<1>2. /\ Returned(s) \in 0 .. Rows /\ Returned(s) < Rows /\ Rows \in Nat /\ Returned(s) + 1 \in 0 .. Rows
      /\ state[s] # "halted" => Returned(s) = cursor[s]
  BY <1>1, SqliteAssumption DEF StepRow, Returned, IInv, TypeOK
<1>3. Seen(Top(t), s) \in 0 .. Void /\ (Seen(Top(t), s) # Void => Top(t).seen # Void)
  <2>1. Top(t).seen \in 0 .. Void
    BY <1>1 DEF Frames
  <2>. QED
    BY <1>2, <2>1 DEF Seen, Void, Wrong
<1>4. /\ f \in Frames /\ f.op = "execute" /\ f.at = "callback" /\ f.stmt = s /\ f.param = Top(t).param
      /\ f.seen = Seen(Top(t), s)
  BY <1>1, <1>3 DEF Frames, Places
<1>5. /\ Replace(t, f) /\ UNCHANGED <<db, registered, life, reckless>> /\ bound' = bound
      /\ state' = [state EXCEPT ![s] = "row"] /\ cursor' = [cursor EXCEPT ![s] = Returned(s) + 1]
  BY DEF StepRow
<1>6. /\ state' \in [Stmts -> {"free", "ready", "row", "halted"}] /\ cursor' \in [Stmts -> 0 .. Rows]
      /\ bound' \in [Stmts -> Params \cup {NoParam}]
      /\ \A r \in Stmts \ {s} : state'[r] = state[r] /\ cursor'[r] = cursor[r] /\ bound'[r] = bound[r]
      /\ state'[s] = "row" /\ cursor'[s] = Returned(s) + 1
  BY <1>1, <1>2, <1>5 DEF IInv, TypeOK
<1>7. ~reckless /\ Top(t).seen # Void =>
        bound[s] = Top(t).param /\ state[s] \in {"ready", "row"} /\ Top(t).seen = cursor[s]
  BY <1>1 DEF IInv, RowInv
<1>. HIDE DEF f, s
<1>8. ~reckless /\ f.seen # Void =>
        /\ Top(t).seen # Void /\ bound'[s] = f.param /\ state'[s] \in {"ready", "row"} /\ f.seen = cursor'[s]
  BY <1>2, <1>3, <1>4, <1>5, <1>6, <1>7 DEF Seen
<1>9. s = Top(t).stmt
  BY DEF s
<1>. QED
  BY <1>1, <1>4, <1>5, <1>6, <1>8, <1>9, ExecuteKeeps

LEMMA StepEndsKeeps ==
  ASSUME IInv, NEW t \in Threads, StepEnds(t)
  PROVE  IInv'
<1>. DEFINE s == Top(t).stmt
<1>1. /\ stack[t] # <<>> /\ Top(t).op = "execute" /\ Top(t).at = "step" /\ Top(t) \in Frames
      /\ s \in Stmts /\ Top(t).param \in Params /\ state[s] # "free" /\ Len(stack[t]) \in Slots(t)
      /\ Top(t) = stack[t][Len(stack[t])]
  BY AtFacts DEF StepEnds, Runs, FrameOK, Free
<1>2. ~reckless /\ Top(t).seen # Void =>
        bound[s] = Top(t).param /\ state[s] \in {"ready", "row"} /\ Top(t).seen = cursor[s]
  BY <1>1 DEF IInv, RowInv
<1>3. /\ UNCHANGED <<db, registered, life, reckless>> /\ bound' = bound /\ cursor' = cursor
      /\ state' = [state EXCEPT ![s] = "halted"]
      /\ \/ Returned(s) = Rows /\ Replace(t, [Top(t) EXCEPT !.at = "reset"])
         \/ Replace(t, [Top(t) EXCEPT !.at = "reset", !.seen = Void])
  BY DEF StepEnds, Goto
<1>4. /\ state' \in [Stmts -> {"free", "ready", "row", "halted"}] /\ cursor' \in [Stmts -> 0 .. Rows]
      /\ bound' \in [Stmts -> Params \cup {NoParam}]
      /\ \A r \in Stmts \ {s} : state'[r] = state[r] /\ cursor'[r] = cursor[r] /\ bound'[r] = bound[r]
      /\ state'[s] = "halted"
  BY <1>1, <1>3 DEF IInv, TypeOK
<1>5. PICK f \in Frames :
        /\ Replace(t, f) /\ f.op = "execute" /\ f.at = "reset" /\ f.stmt = s /\ f.param = Top(t).param
        /\ f.seen # Void => f.seen = Top(t).seen /\ Returned(s) = Rows
  <2>1. Void \in 0 .. Void
    BY SqliteAssumption DEF Void
  <2>. DEFINE g == [Top(t) EXCEPT !.at = "reset"]
              h == [Top(t) EXCEPT !.at = "reset", !.seen = Void]
  <2>2. /\ g \in Frames /\ g.op = "execute" /\ g.at = "reset" /\ g.stmt = s /\ g.param = Top(t).param
        /\ g.seen = Top(t).seen
    BY <1>1 DEF Frames, Places
  <2>3. /\ h \in Frames /\ h.op = "execute" /\ h.at = "reset" /\ h.stmt = s /\ h.param = Top(t).param
        /\ h.seen = Void
    BY <1>1, <2>1 DEF Frames, Places
  <2>4. (Returned(s) = Rows /\ Replace(t, g)) \/ Replace(t, h)
    BY <1>3
  <2>. HIDE DEF g, h, s
  <2>. QED
    BY <2>2, <2>3, <2>4
<1>6. ~reckless /\ f.seen # Void => Top(t).seen # Void /\ f.seen = Rows
  BY <1>2, <1>5 DEF Returned
<1>. HIDE DEF s
<1>7. s = Top(t).stmt
  BY DEF s
<1>. QED
  BY <1>1, <1>3, <1>4, <1>5, <1>6, <1>7, ExecuteKeeps

LEMMA ExecuteStepKeeps ==
  ASSUME IInv, NEW t \in Threads, ExecuteStep(t)
  PROVE  IInv'
<1>1. CASE CallbackReturns(t)
  <2>1. /\ stack[t] # <<>> /\ Top(t).op = "execute" /\ Top(t).at = "callback"
        /\ Goto(t, "step") /\ "step" \in Places /\ "step" \in PlacesOf("execute")
        /\ UNCHANGED <<db, registered, library, life, reckless>>
    BY <1>1, AtFacts DEF CallbackReturns, Places, PlacesOf
  <2>. QED
    BY <2>1, GotoKeeps
<1>2. CASE CallbackThrows(t)
  BY <1>2, AtFacts, PopKeeps DEF CallbackThrows
<1>. QED
  BY <1>1, <1>2, CallExecuteKeeps, BindKeeps, StepRowKeeps, StepEndsKeeps, ResetKeeps DEF ExecuteStep

LEMMA ExecStepKeeps ==
  ASSUME IInv, NEW t \in Threads, ExecStep(t)
  PROVE  IInv'
<1>1. CASE CallExec(t)
  <2>. DEFINE f == Frame("exec", "library", NoStmt, NoParam)
  <2>1. /\ f \in Frames /\ f.op = "exec" /\ f.at = "library" /\ FrameOK(f)
        /\ ~HoldsMap(f) /\ ~HoldsDb(f)
    BY FrameTyped, SqliteAssumption DEF Ops, Places, FrameOK, PlacesOf, HoldsMap, HoldsDb
  <2>2. /\ MayCall(t) /\ stack' = [stack EXCEPT ![t] = Append(@, f)]
        /\ UNCHANGED <<db, registered, library, life, reckless>> /\ reckless \in BOOLEAN
    BY <1>1 DEF CallExec, IInv, TypeOK
  <2>. HIDE DEF f
  <2>. QED
    BY <2>1, <2>2, PushKeeps
<1>2. CASE ExecCallsBack(t)
  <2>1. /\ stack[t] # <<>> /\ Top(t).op = "exec" /\ Top(t).at = "library"
        /\ Goto(t, "callback") /\ "callback" \in Places /\ "callback" \in PlacesOf("exec")
        /\ UNCHANGED <<db, registered, library, life, reckless>>
        /\ \A u \in Threads \ {t} : \A k \in Slots(u) : ~HoldsDb(stack[u][k])
    BY <1>2, AtFacts, NotBlocked DEF ExecCallsBack, Runs, WantsDb, IInv, Places, PlacesOf
  <2>. QED
    BY <2>1, GotoKeeps
<1>3. CASE ExecReturns(t)
  BY <1>3, AtFacts, PopKeeps DEF ExecReturns, Runs
<1>4. CASE ExecOnSick(t)
  <2>1. /\ UNCHANGED <<db, registered, library, stack, reckless>> /\ life' = "undefined" /\ db = "sick"
    BY <1>4 DEF ExecOnSick, Undefined
  <2>2. TypeOK' /\ StackInv' /\ StmtInv' /\ RowInv'
    BY <2>1 DEF IInv, TypeOK, StackInv, StmtInv, RowInv, Slots
  <2>3. CarefulInv'
    BY <2>1 DEF IInv, CarefulInv, Slots
  <2>. QED
    BY <2>2, <2>3 DEF IInv
<1>. QED
  BY <1>1, <1>2, <1>3, <1>4 DEF ExecStep

LEMMA CleanupStepKeeps ==
  ASSUME IInv, NEW t \in Threads, CleanupStep(t)
  PROVE  IInv'
<1>1. CASE CallCleanup(t)
  <2>. DEFINE f == Frame("cleanup", "lock", NoStmt, NoParam)
  <2>1. /\ f \in Frames /\ f.op = "cleanup" /\ f.at = "lock" /\ FrameOK(f)
        /\ ~HoldsMap(f) /\ ~HoldsDb(f)
    BY FrameTyped, SqliteAssumption DEF Ops, Places, FrameOK, PlacesOf, HoldsMap, HoldsDb
  <2>2. /\ MayCall(t) /\ stack' = [stack EXCEPT ![t] = Append(@, f)]
        /\ UNCHANGED <<db, registered, library, life>> /\ reckless' = TRUE
    BY <1>1 DEF CallCleanup
  <2>. HIDE DEF f
  <2>. QED
    BY <2>1, <2>2, PushKeeps
<1>2. CASE CleanupLock(t)
  <2>1. /\ stack[t] # <<>> /\ Top(t).op = "cleanup" /\ Top(t).at = "lock"
        /\ Goto(t, "library") /\ "library" \in Places /\ "library" \in PlacesOf("cleanup")
        /\ UNCHANGED <<db, registered, library, life, reckless>>
        /\ \A u \in Threads \ {t} : \A k \in Slots(u) : ~HoldsMap(stack[u][k])
    BY <1>2, AtFacts, NotBlocked DEF CleanupLock, Runs, WantsMap, IInv, Places, PlacesOf
  <2>. QED
    BY <2>1, GotoKeeps
<1>3. CASE CleanupEmpty(t)
  <2>1. /\ stack[t] # <<>> /\ Top(t).op = "cleanup" /\ Top(t).at = "library"
        /\ Goto(t, "close") /\ "close" \in Places /\ "close" \in PlacesOf("cleanup")
        /\ UNCHANGED <<db, registered, library, life, reckless>>
    BY <1>3, AtFacts DEF CleanupEmpty, Places, PlacesOf
  <2>. QED
    BY <2>1, GotoKeeps
<1>. QED
  BY <1>1, <1>2, <1>3, DestroyKeeps, CleanupTurnKeeps, CloseKeeps DEF CleanupStep

\* No call of the library gets a freed pointer of a program that is not reckless.
LEMMA NothingFreed ==
  ASSUME IInv, NEW t \in Threads, FreedPointer(t)
  PROVE  reckless
<1>. SUFFICES ASSUME ~reckless PROVE FALSE
  BY DEF IInv, TypeOK
<1>1. CASE Free(t) /\ Runs(t, "unprepare", "library")
  BY <1>1, AtFacts DEF Free, Runs, IInv, StmtInv
<1>2. ASSUME NEW at \in {"bind", "step", "reset"}, Free(t), Runs(t, "execute", at) PROVE FALSE
  BY <1>2, AtFacts DEF Free, Runs, IInv, CarefulInv
<1>3. CASE Runs(t, "cleanup", "library") /\ registered # <<>> /\ state[Head(registered)] = "free"
  <2>1. Head(registered) \in Range(registered)
    BY <1>3 DEF Range, IInv, TypeOK
  <2>. QED
    BY <1>3, <2>1 DEF IInv, StmtInv
<1>4. ASSUME NEW op, NEW at, db = "dangling", Runs(t, op, at) PROVE FALSE
  BY <1>4 DEF Runs, At, IInv, CarefulInv
<1>. QED
  BY <1>1, <1>2, <1>3, <1>4 DEF FreedPointer

LEMMA InitInv == Init => IInv
<1>. SUFFICES ASSUME Init PROVE IInv
  OBVIOUS
<1>1. /\ \A t \in Threads : stack[t] = <<>> /\ Slots(t) = {} /\ Len(stack[t]) = 0
      /\ registered = <<>> /\ Range(registered) = {} /\ IsInjective(registered)
  BY DEF Init, Slots, Range, IsInjective
<1>2. TypeOK
  <2>1. 0 \in 0 .. Rows /\ 0 <= MaxDepth
    BY SqliteAssumption
  <2>. QED
    <3>1. <<>> \in Seq(Frames) /\ <<>> \in Seq(Stmts)
      OBVIOUS
    <3>2. stack \in [Threads -> Seq(Frames)] /\ \A t \in Threads : Len(stack[t]) <= MaxDepth
      BY <1>1, <2>1, <3>1 DEF Init
    <3>. QED
      BY <2>1, <3>1, <3>2 DEF Init, TypeOK
<1>3. StackInv /\ StmtInv
  BY <1>1 DEF Init, StackInv, StmtInv
<1>4. CarefulInv /\ RowInv
  BY <1>1 DEF Init, CarefulInv, RowInv
<1>. QED
  BY <1>2, <1>3, <1>4 DEF IInv

LEMMA NextInv == IInv /\ [Next]_vars => IInv'
<1>. SUFFICES ASSUME IInv, [Next]_vars PROVE IInv'
  OBVIOUS
<1>1. CASE LoadDB
  <2>1. /\ UNCHANGED <<registered, library, stack, life, reckless>> /\ life = "alive"
        /\ db' \in {"open", "sick"}
    BY <1>1 DEF LoadDB
  <2>2. TypeOK'
    BY <2>1 DEF IInv, TypeOK
  <2>4. StackInv' /\ StmtInv' /\ RowInv'
    BY <2>1 DEF IInv, StackInv, StmtInv, RowInv, Slots
  <2>3. CarefulInv'
    BY <2>1 DEF IInv, CarefulInv, Slots
  <2>. QED
    BY <2>2, <2>3, <2>4 DEF IInv
<1>2. ASSUME NEW t \in Threads, UseFreed(t) PROVE IInv'
  <2>1. /\ UNCHANGED <<db, registered, library, stack, reckless>> /\ life' = "undefined" /\ reckless
    BY <1>2, NothingFreed DEF UseFreed, Undefined
  <2>2. TypeOK' /\ StackInv' /\ StmtInv' /\ RowInv'
    BY <2>1 DEF IInv, TypeOK, StackInv, StmtInv, RowInv, Slots
  <2>3. CarefulInv'
    BY <2>1 DEF CarefulInv
  <2>. QED
    BY <2>2, <2>3 DEF IInv
<1>3. CASE UNCHANGED vars
  <2>1. UNCHANGED <<db, registered, library, stack, life, reckless>>
    BY <1>3 DEF vars
  <2>. QED
    BY <2>1 DEF IInv, TypeOK, StackInv, StmtInv, CarefulInv, RowInv, Slots
<1>. QED
  BY <1>1, <1>2, <1>3, PrepareStepKeeps, UnprepareStepKeeps, ExecuteStepKeeps, ExecStepKeeps,
     CleanupStepKeeps DEF Next

LEMMA Invariance == Spec => []IInv
BY InitInv, NextInv, PTL DEF Spec

-----------------------------------------------------------------------------
(* The theorems.                                                           *)

\* Every variable keeps its type, at every depth of calls inside callbacks.
THEOREM TypeCorrect == Spec => []TypeOK
<1>1. IInv => TypeOK
  BY DEF IInv
<1>. QED
  BY <1>1, Invariance, PTL

LEMMA AccountedInv == IInv => StatementsAccounted
<1>. SUFFICES ASSUME IInv PROVE StatementsAccounted
  OBVIOUS
<1>. DEFINE coming(s) == {t \in Threads : \E f \in Calls(t) : f.op = "prepare" /\ f.stmt = s}
<1>1. ASSUME NEW s \in Stmts, NEW t \in Threads, t \in coming(s)
      PROVE  \E i \in Slots(t) : stack[t][i].at = "register" /\ stack[t][i].stmt = s
  <2>1. PICK f \in Calls(t) : f.op = "prepare" /\ f.stmt = s
    BY <1>1
  <2>2. PICK i \in Slots(t) : stack[t][i] = f
    BY <2>1, CallSlots DEF IInv
  <2>3. FrameOK(f)
    BY <2>2 DEF IInv, StackInv
  <2>. QED
    BY <2>1, <2>2, <2>3 DEF FrameOK
<1>2. ASSUME NEW s \in Stmts, NEW t \in Threads, NEW i \in Slots(t),
             stack[t][i].at = "register", stack[t][i].stmt = s
      PROVE  t \in coming(s)
  <2>1. stack[t][i] \in Calls(t) /\ stack[t][i] \in Frames
    BY CallSlots DEF IInv
  <2>2. FrameOK(stack[t][i])
    BY DEF IInv, StackInv
  <2>3. stack[t][i].op = "prepare"
    BY <1>2, <2>1, <2>2 DEF FrameOK, PlacesOf, Frames, Ops
  <2>. QED
    BY <1>2, <2>1, <2>3
<1>. HIDE DEF coming
<1>3. ASSUME NEW s \in Stmts
      PROVE  IF state[s] = "free" THEN s \notin Range(registered) /\ coming(s) = {}
             ELSE s \in Range(registered) <=> coming(s) = {}
  <2>1. coming(s) \subseteq Threads
    BY DEF coming
  <2>2. coming(s) # {} => \E t \in Threads : \E i \in Slots(t) :
            stack[t][i].at = "register" /\ stack[t][i].stmt = s
    BY <1>1, <2>1
  <2>3. coming(s) # {} => state[s] # "free" /\ s \notin Range(registered)
    BY <2>2 DEF IInv, StmtInv
  <2>4. state[s] # "free" /\ s \notin Range(registered) => coming(s) # {}
    BY <1>2 DEF IInv, StmtInv
  <2>5. s \in Range(registered) => state[s] # "free"
    BY DEF IInv, StmtInv
  <2>. QED
    BY <2>3, <2>4, <2>5
<1>4. IsInjective(registered)
  BY DEF IInv, StmtInv
<1>. QED
  BY <1>3, <1>4 DEF StatementsAccounted, coming

\* statementMap and the library agree, whatever threads prepare, unprepare and execute
\* from whatever callbacks: a statement of the library is on the list once or in
\* the hands of the one Prepare that puts it there.
THEOREM StatementMapAgreesWithLibrary == Spec => []StatementsAccounted
BY AccountedInv, Invariance, PTL

\* The library is never given a freed pointer, unless the program unprepares what is
\* executed or calls Cleanup by itself, or the connection was not opened.
THEOREM NoFreedPointerIsUsed == Spec => []FreedOnlyByTheProgram
<1>1. IInv => FreedOnlyByTheProgram
  BY DEF IInv, CarefulInv, FreedOnlyByTheProgram
<1>. QED
  BY <1>1, Invariance, PTL

\* An execution that has its statement for itself and comes to the end has passed
\* every row to the callback, in order, once, and of its own parameters.
THEOREM EveryRowIsPassedOn == Spec => []RowsComplete
<1>1. IInv => RowsComplete
  BY CallSlots DEF IInv, RowInv, RowsComplete
<1>. QED
  BY <1>1, Invariance, PTL

LEMMA NoCircleInv == IInv => NoCircularWait
<1>. SUFFICES ASSUME IInv, NEW t \in Threads, NEW u \in Threads, Blocks(t, u), Blocks(u, t)
     PROVE  ReentersMap
  BY DEF NoCircularWait
<1>1. /\ t # u /\ stack[t] # <<>> /\ stack[u] # <<>>
      /\ Len(stack[t]) \in Slots(t) /\ Top(t) = stack[t][Len(stack[t])]
      /\ Len(stack[u]) \in Slots(u) /\ Top(u) = stack[u][Len(stack[u])]
      /\ FrameOK(Top(t)) /\ FrameOK(Top(u)) /\ Top(t) \in Frames /\ Top(u) \in Frames
  BY TopSlot DEF Blocks, IInv, StackInv
<1>2. \/ WantsMap(Top(u)) /\ \E i \in Slots(t) : HoldsMap(stack[t][i])
      \/ WantsDb(Top(u)) /\ \E i \in Slots(t) : HoldsDb(stack[t][i])
  BY CallSlots DEF Blocks, IInv
<1>3. \/ WantsMap(Top(t)) /\ \E i \in Slots(u) : HoldsMap(stack[u][i])
      \/ WantsDb(Top(t)) /\ \E i \in Slots(u) : HoldsDb(stack[u][i])
  BY CallSlots DEF Blocks, IInv
<1>4. ~(WantsMap(Top(t)) /\ WantsDb(Top(t))) /\ ~(WantsMap(Top(u)) /\ WantsDb(Top(u)))
  BY DEF WantsMap, WantsDb
\* One of the two has the connection and waits for the token: it is in a callback.
<1>5. ASSUME NEW v \in {t, u}, WantsMap(Top(v)), NEW i \in Slots(v), HoldsDb(stack[v][i])
      PROVE  ReentersMap
  <2>1. /\ v \in Threads /\ Len(stack[v]) \in Slots(v) /\ Top(v) = stack[v][Len(stack[v])]
        /\ FrameOK(Top(v)) /\ Top(v) \in Frames
    BY <1>1
  <2>2. i < Len(stack[v])
    BY <1>5, <2>1 DEF HoldsDb, WantsMap, Slots, IInv, TypeOK
  <2>3. Top(v).op \in {"prepare", "unprepare", "cleanup"}
    BY <1>5, <2>1 DEF WantsMap, FrameOK, PlacesOf, Frames, Ops
  <2>4. i \in DOMAIN stack[v] /\ Len(stack[v]) \in DOMAIN stack[v]
    BY <2>1 DEF IInv, TypeOK, Slots
  <2>. QED
    BY <1>5, <2>1, <2>2, <2>3, <2>4 DEF ReentersMap, HoldsDb
<1>6. ~(\E i \in Slots(t), k \in Slots(u) : HoldsMap(stack[t][i]) /\ HoldsMap(stack[u][k]))
  BY <1>1 DEF IInv, StackInv
<1>7. ~(\E i \in Slots(t), k \in Slots(u) : HoldsDb(stack[t][i]) /\ HoldsDb(stack[u][k]))
  BY <1>1 DEF IInv, StackInv
<1>. QED
  BY <1>2, <1>3, <1>5, <1>6, <1>7

\* Two threads never wait for each other, one for the token of statementMap and the
\* other for the connection, unless a callback of UnpreparedExecute goes for the
\* token.
THEOREM MapBeforeConnection == Spec => []NoCircularWait
BY NoCircleInv, Invariance, PTL

-----------------------------------------------------------------------------
(* How an execution ends: an action property.                              *)

\* The execution at place i of the stack of u is there after the step.
GoesOn(u, i) ==
  i \in Slots(u)' /\ stack'[u][i].op = "execute" /\ stack'[u][i].stmt = stack[u][i].stmt

LEMMA GoesOnByPush ==
  ASSUME TypeOK, NEW t \in Threads, NEW f \in Frames, Len(stack[t]) < MaxDepth,
         stack' = [stack EXCEPT ![t] = Append(@, f)],
         NEW u \in Threads, NEW i \in Slots(u), stack[u][i].op = "execute"
  PROVE  GoesOn(u, i)
<1>1. /\ \A v \in Threads \ {t} : stack'[v] = stack[v]
      /\ Len(stack'[t]) = Len(stack[t]) + 1
      /\ \A k \in 1 .. Len(stack[t]) : stack'[t][k] = stack[t][k]
  BY PushEffect
<1>2. Len(stack[t]) \in Nat
  BY DEF TypeOK
<1>. QED
  BY <1>1, <1>2 DEF GoesOn, Slots

LEMMA GoesOnByPop ==
  ASSUME TypeOK, NEW t \in Threads, stack[t] # <<>>, Return(t),
         NEW u \in Threads, NEW i \in Slots(u), stack[u][i].op = "execute",
         Top(t).op # "execute" \/ u # t \/ i # Len(stack[t])
  PROVE  GoesOn(u, i)
<1>1. i \in Slots(u)' \/ (u = t /\ i = Len(stack[t]))
  BY PopEffect
<1>2. Top(t) = stack[t][Len(stack[t])]
  BY TopSlot
<1>3. i \in Slots(u)' => stack'[u][i] = stack[u][i]
  BY PopEffect
<1>. QED
  BY <1>1, <1>2, <1>3 DEF GoesOn

LEMMA GoesOnByReplace ==
  ASSUME TypeOK, NEW t \in Threads, NEW f \in Frames, stack[t] # <<>>, Replace(t, f),
         Top(t).op = "execute" => f.op = "execute" /\ f.stmt = Top(t).stmt,
         NEW u \in Threads, NEW i \in Slots(u), stack[u][i].op = "execute"
  PROVE  GoesOn(u, i)
<1>1. i \in Slots(u)' /\ stack'[u][i] = IF u = t /\ i = Len(stack[t]) THEN f ELSE stack[u][i]
  BY ReplaceEffect
<1>2. Top(t) = stack[t][Len(stack[t])]
  BY TopSlot
<1>. QED
  BY <1>1, <1>2 DEF GoesOn

LEMMA GoesOnByGoto ==
  ASSUME TypeOK, NEW t \in Threads, stack[t] # <<>>, NEW at \in Places, Goto(t, at),
         NEW u \in Threads, NEW i \in Slots(u), stack[u][i].op = "execute"
  PROVE  GoesOn(u, i)
<1>. DEFINE f == [Top(t) EXCEPT !.at = at]
<1>1. f \in Frames /\ f.op = Top(t).op /\ f.stmt = Top(t).stmt
  BY TopSlot DEF Frames
<1>2. Replace(t, f)
  BY DEF Goto
<1>. HIDE DEF f
<1>. QED
  BY <1>1, <1>2, GoesOnByReplace

LEMMA GoesOnByCall ==
  ASSUME TypeOK, NEW t \in Threads, NEW s \in Stmts, NEW p \in Params, CallExecute(t, s, p),
         NEW u \in Threads, NEW i \in Slots(u), stack[u][i].op = "execute"
  PROVE  GoesOn(u, i)
<1>. DEFINE mark(f) == IF f.op = "execute" /\ f.stmt = s THEN [f EXCEPT !.seen = Void] ELSE f
            others == [v \in Threads |-> [k \in DOMAIN stack[v] |-> mark(stack[v][k])]]
            call == [Frame("execute", "bind", s, p) EXCEPT
                       !.seen = IF Executing(s) = {} /\ state[s] = "ready" THEN 0 ELSE Void]
<1>1. stack' = [others EXCEPT ![t] = Append(@, call)]
  BY DEF CallExecute
<1>2. stack[u] \in Seq(Frames) /\ stack[u][i] \in Frames /\ Len(stack[u]) \in Nat /\ i \in 1 .. Len(stack[u])
  BY DEF TypeOK, Slots
<1>3. mark(stack[u][i]).op = "execute" /\ mark(stack[u][i]).stmt = stack[u][i].stmt
  BY <1>2 DEF Frames
<1>4. \A f \in Frames : mark(f) \in Frames
  <2>1. Void \in 0 .. Void
    BY SqliteAssumption DEF Void
  <2>. QED
    BY <2>1 DEF Frames
<1>. HIDE DEF mark, call
<1>5. others[u] \in Seq(Frames) /\ Len(others[u]) = Len(stack[u]) /\ others[u][i] = mark(stack[u][i])
  BY <1>2, <1>4
<1>6. stack'[u] = IF u = t THEN Append(others[u], call) ELSE others[u]
  BY <1>1
<1>. HIDE DEF others
<1>7. i \in 1 .. Len(stack'[u]) /\ stack'[u][i] = mark(stack[u][i])
  <2>1. CASE u = t
    BY <1>2, <1>5, <1>6, <2>1
  <2>2. CASE u # t
    BY <1>2, <1>5, <1>6, <2>2
  <2>. QED
    BY <2>1, <2>2
<1>. QED
  BY <1>3, <1>7 DEF GoesOn, Slots

\* Only a reset, or a callback that throws, ends an execution.
LEMMA EndOfExecution ==
  ASSUME IInv, [Next]_vars, NEW u \in Threads, NEW i \in Slots(u), stack[u][i].op = "execute",
         ~GoesOn(u, i)
  PROVE  i = Len(stack[u]) /\ (Reset(u) \/ CallbackThrows(u))
<1>. SUFFICES ASSUME ~(i = Len(stack[u]) /\ (Reset(u) \/ CallbackThrows(u))) PROVE FALSE
  OBVIOUS
<1>. USE DEF IInv
<1>1. UNCHANGED stack => FALSE
  BY DEF GoesOn, Slots
<1>2. ASSUME NEW t \in Threads, PrepareStep(t) PROVE FALSE
  <2>1. CASE CallPrepare(t)
    <3>1. Frame("prepare", "library", NoStmt, NoParam) \in Frames
      BY FrameTyped DEF Ops, Places
    <3>2. /\ Len(stack[t]) < MaxDepth
          /\ stack' = [stack EXCEPT ![t] = Append(@, Frame("prepare", "library", NoStmt, NoParam))]
      BY <2>1 DEF CallPrepare, MayCall
    <3>. QED
      BY <3>1, <3>2, GoesOnByPush
  <2>2. CASE PrepareLibrary(t)
    <3>1. stack[t] # <<>> /\ Top(t).op = "prepare"
      BY <2>2, AtFacts DEF PrepareLibrary, Runs
    <3>2. Return(t) \/ \E s \in Stmts : Replace(t, Frame("prepare", "register", s, NoParam))
      BY <2>2 DEF PrepareLibrary
    <3>3. \A s \in Stmts : Frame("prepare", "register", s, NoParam) \in Frames
      BY FrameTyped DEF Ops, Places
    <3>. QED
      BY <3>1, <3>2, <3>3, GoesOnByPop, GoesOnByReplace
  <2>3. CASE PrepareRegister(t)
    BY <2>3, AtFacts, GoesOnByPop DEF PrepareRegister, Runs
  <2>. QED
    BY <1>2, <2>1, <2>2, <2>3 DEF PrepareStep
<1>3. ASSUME NEW t \in Threads, UnprepareStep(t) PROVE FALSE
  <2>1. ASSUME NEW s \in Stmts, CallUnprepare(t, s) PROVE FALSE
    <3>1. Frame("unprepare", "lock", s, NoParam) \in Frames
      BY FrameTyped DEF Ops, Places
    <3>2. /\ Len(stack[t]) < MaxDepth
          /\ stack' = [stack EXCEPT ![t] = Append(@, Frame("unprepare", "lock", s, NoParam))]
      BY <2>1 DEF CallUnprepare, MayCall
    <3>. QED
      BY <3>1, <3>2, GoesOnByPush
  <2>2. CASE UnprepareFind(t)
    <3>1. stack[t] # <<>> /\ Top(t).op = "unprepare" /\ "library" \in Places
      BY <2>2, AtFacts DEF UnprepareFind, Runs, Places
    <3>2. Return(t) \/ Goto(t, "library")
      BY <2>2 DEF UnprepareFind
    <3>. QED
      BY <3>1, <3>2, GoesOnByPop, GoesOnByGoto
  <2>3. CASE UnprepareFinalize(t)
    BY <2>3, AtFacts, GoesOnByPop DEF UnprepareFinalize, Runs
  <2>. QED
    BY <1>3, <2>1, <2>2, <2>3 DEF UnprepareStep
<1>4. ASSUME NEW t \in Threads, ExecuteStep(t) PROVE FALSE
  <2>1. CASE Bind(t)
    BY <2>1, AtFacts, GoesOnByGoto DEF Bind, Runs, Places
  <2>2. CASE StepRow(t) \/ StepEnds(t)
    <3>1. stack[t] # <<>> /\ Top(t).op = "execute" /\ Top(t) \in Frames /\ Top(t).stmt \in Stmts
      BY <2>2, AtFacts DEF StepRow, StepEnds, Runs, FrameOK
    <3>2. Seen(Top(t), Top(t).stmt) \in 0 .. Void /\ Void \in 0 .. Void
      BY <3>1, SqliteAssumption DEF Seen, Returned, Wrong, Void, Frames, TypeOK
    <3>. DEFINE a == [Top(t) EXCEPT !.at = "callback", !.seen = Seen(Top(t), Top(t).stmt)]
                b == [Top(t) EXCEPT !.at = "reset", !.seen = Void]
    <3>3. /\ a \in Frames /\ a.op = "execute" /\ a.stmt = Top(t).stmt
          /\ b \in Frames /\ b.op = "execute" /\ b.stmt = Top(t).stmt
      BY <3>1, <3>2 DEF Frames, Places
    <3>4. Replace(t, a) \/ Replace(t, b) \/ Goto(t, "reset")
      BY <2>2 DEF StepRow, StepEnds
    <3>. HIDE DEF a, b
    <3>. QED
      BY <3>1, <3>3, <3>4, GoesOnByReplace, GoesOnByGoto DEF Places
  <2>3. CASE CallbackReturns(t)
    BY <2>3, AtFacts, GoesOnByGoto DEF CallbackReturns, Places
  <2>4. CASE CallbackThrows(t) \/ Reset(t)
    <3>1. stack[t] # <<>> /\ Return(t)
      BY <2>4, AtFacts DEF CallbackThrows, Reset, Runs
    <3>. QED
      BY <2>4, <3>1, GoesOnByPop
  <2>. QED
    BY <1>4, <2>1, <2>2, <2>3, <2>4, GoesOnByCall DEF ExecuteStep
<1>5. ASSUME NEW t \in Threads, ExecStep(t) PROVE FALSE
  <2>1. CASE CallExec(t)
    <3>1. Frame("exec", "library", NoStmt, NoParam) \in Frames
      BY FrameTyped DEF Ops, Places
    <3>2. /\ Len(stack[t]) < MaxDepth
          /\ stack' = [stack EXCEPT ![t] = Append(@, Frame("exec", "library", NoStmt, NoParam))]
      BY <2>1 DEF CallExec, MayCall
    <3>. QED
      BY <3>1, <3>2, GoesOnByPush
  <2>2. CASE ExecCallsBack(t)
    BY <2>2, AtFacts, GoesOnByGoto DEF ExecCallsBack, Runs, Places
  <2>3. CASE ExecReturns(t)
    BY <2>3, AtFacts, GoesOnByPop DEF ExecReturns, Runs
  <2>4. CASE ExecOnSick(t)
    BY <1>1, <2>4 DEF ExecOnSick, Undefined
  <2>. QED
    BY <1>5, <2>1, <2>2, <2>3, <2>4 DEF ExecStep
<1>6. ASSUME NEW t \in Threads, CleanupStep(t) PROVE FALSE
  <2>1. CASE CallCleanup(t)
    <3>1. Frame("cleanup", "lock", NoStmt, NoParam) \in Frames
      BY FrameTyped DEF Ops, Places
    <3>2. /\ Len(stack[t]) < MaxDepth
          /\ stack' = [stack EXCEPT ![t] = Append(@, Frame("cleanup", "lock", NoStmt, NoParam))]
      BY <2>1 DEF CallCleanup, MayCall
    <3>. QED
      BY <3>1, <3>2, GoesOnByPush
  <2>2. CASE Destroy(t)
    BY <2>2 DEF Destroy, Slots, TypeOK
  <2>3. CASE CleanupLock(t)
    BY <2>3, AtFacts, GoesOnByGoto DEF CleanupLock, Runs, Places
  <2>4. CASE CleanupFinalize(t)
    BY <1>1, <2>4 DEF CleanupFinalize
  <2>5. CASE CleanupEmpty(t)
    BY <2>5, AtFacts, GoesOnByGoto DEF CleanupEmpty, Places
  <2>6. CASE CleanupClose(t)
    BY <2>6, AtFacts, GoesOnByPop DEF CleanupClose, Runs
  <2>. QED
    BY <1>6, <2>1, <2>2, <2>3, <2>4, <2>5, <2>6 DEF CleanupStep
<1>7. CASE UNCHANGED vars
  BY <1>1, <1>7 DEF vars
<1>8. CASE LoadDB
  BY <1>1, <1>8 DEF LoadDB
<1>9. ASSUME NEW t \in Threads, UseFreed(t) PROVE FALSE
  BY <1>1, <1>9 DEF UseFreed, Undefined
<1>. QED
  BY <1>2, <1>3, <1>4, <1>5, <1>6, <1>7, <1>8, <1>9 DEF Next

\* A statement that nobody executes any more is ready for the next execution, whatever
\* has failed, or shared it, unless a callback has thrown.
THEOREM LastExecutionLeavesItReady == Spec => ReadyAfterExecution
<1>1. ASSUME IInv, IInv', [Next]_vars, NEW s \in Stmts, Executing(s) # {}, Executing(s)' = {},
             ~reckless, ~(\E t \in Executing(s) : At(t, "execute", "callback"))
      PROVE  state'[s] = "ready"
  <2>1. PICK t \in Executing(s) : TRUE
    BY <1>1
  <2>2. t \in Threads /\ \E f \in Calls(t) : f.op = "execute" /\ f.stmt = s
    BY DEF Executing
  <2>3. PICK i \in Slots(t) : stack[t][i].op = "execute" /\ stack[t][i].stmt = s
    BY <1>1, <2>2, CallSlots DEF IInv
  <2>4. ~GoesOn(t, i)
    <3>. SUFFICES ASSUME GoesOn(t, i) PROVE FALSE
      OBVIOUS
    <3>1. DOMAIN stack'[t] = Slots(t)'
      BY <1>1, <2>2 DEF IInv, TypeOK, Slots
    <3>2. stack'[t][i] \in Range(stack'[t]) /\ stack'[t][i].op = "execute" /\ stack'[t][i].stmt = s
      BY <2>3, <3>1 DEF GoesOn, Range
    <3>. QED
      BY <1>1, <2>2, <3>2 DEF Executing, Calls
  <2>5. i = Len(stack[t]) /\ (Reset(t) \/ CallbackThrows(t))
    BY <1>1, <2>2, <2>3, <2>4, EndOfExecution
  <2>6. Reset(t)
    BY <1>1, <2>1, <2>5 DEF CallbackThrows
  <2>7. Top(t).stmt = s
    BY <1>1, <2>2, <2>3, <2>5, <2>6, AtFacts DEF Reset, Runs
  <2>. QED
    BY <1>1, <2>6, <2>7 DEF Reset, IInv, TypeOK
<1>2. IInv /\ IInv' /\ [Next]_vars =>
        [\A s \in Stmts : Executing(s) # {} /\ Executing(s)' = {} /\ ~reckless
           /\ ~(\E t \in Executing(s) : At(t, "execute", "callback")) => state'[s] = "ready"]_vars
  BY <1>1
<1>. QED
  BY <1>2, Invariance, PTL DEF Spec, ReadyAfterExecution

=============================================================================
