-------------------------- MODULE ThreadpoolProofs --------------------------
(***************************************************************************)
(* What TLAPS proves about Threadpool, for any number of user threads,     *)
(* workers and jobs and for any subset of the methods: the type invariant; *)
(* that the pool implements JobPool and its queue closes for good; and, by *)
(* FrameInv, which says how far each call of SetThreadCount and FinishUp   *)
(* has come and what that leaves of the workers and jobs, that threads are *)
(* accounted for, a call leaves the count it was given, a slow FinishUp no *)
(* job, and the destructor no thread; last, that whoever waits for ever    *)
(* waits with a FinishUp or a destructor.                                  *)
(***************************************************************************)
EXTENDS Threadpool, FiniteSetTheorems, TLAPS

(* What a program counter says about the thread's own state and its locks: *)
(* the part of the inductive invariant that typing needs.                  *)
PcInv ==
  /\ \A t \in Threads : arg[t] # NoJob <=> pc[t] \in {"push_check", "push_put"}
  /\ \A w \in Workers : func[w] # NoJob <=> pc[w] \in {"run"} \cup PushPcs
  /\ \A u \in Users : pc[u] \in SetPcs <=> threadMutex = u
  /\ \A u \in Users : pc[u] = "set_notify" => notes # 0

TypeInv == TypeOK /\ PcInv

USE DEF Threads, Goto, jobVars, lockVars, setVars, callVars

(* A notify_one changes the program counter of its caller and, if there is *)
(* a sleeper, the sleeper's, which then wants mutex.                       *)
LEMMA NotifyOneEffect ==
  ASSUME TypeOK, NEW t \in Threads, NEW label \in UserPcs \cup WorkerPcs,
         pc[t] # "parked", NotifyOne(t, label)
  PROVE  /\ pc' \in [Threads -> UserPcs \cup WorkerPcs]
         /\ pc'[t] = label
         /\ \A x \in Threads \ {t} :
              \/ pc'[x] = pc[x]
              \/ pc[x] = "parked" /\ pc'[x] = Woken(x)
<1>1. CASE Goto(t, label)
  BY <1>1 DEF TypeOK
<1>2. CASE \E x \in Parked : pc' = [pc EXCEPT ![t] = label, ![x] = Woken(x)]
  <2>1. PICK x \in Threads :
          /\ pc[x] = "parked"
          /\ pc' = [pc EXCEPT ![t] = label, ![x] = Woken(x)]
    BY <1>2 DEF Parked
  <2>2. Woken(x) \in UserPcs \cup WorkerPcs
    BY DEF Woken, UserPcs, WorkerPcs
  <2>3. x # t
    BY <2>1
  <2>. QED
    BY <2>1, <2>2, <2>3 DEF TypeOK
<1>. QED
  BY <1>1, <1>2 DEF NotifyOne

LEMMA InitType == Init => TypeInv
<1>. SUFFICES ASSUME Init PROVE TypeInv
  OBVIOUS
<1>1. TypeOK
  BY ThreadsAssumption DEF Init, TypeOK, UserPcs, WorkerPcs, PushPcs, SetPcs
<1>2. PcInv
  BY ThreadsAssumption DEF Init, PcInv, PushPcs, SetPcs
<1>. QED
  BY <1>1, <1>2 DEF TypeInv

LEMMA NextType == TypeInv /\ [Next]_vars => TypeInv'
<1>. SUFFICES ASSUME TypeOK, PcInv, [Next]_vars PROVE TypeOK' /\ PcInv'
  BY DEF TypeInv
<1>. USE ThreadsAssumption, CountsAssumption DEF UserPcs, WorkerPcs, PushPcs, SetPcs
<1>1. ASSUME NEW t \in Threads, SpuriousWakeup(t) PROVE TypeOK' /\ PcInv'
  <2>1. TypeOK'
    BY <1>1 DEF SpuriousWakeup, Woken, TypeOK, PcInv
  <2>2. PcInv'
    BY <1>1 DEF SpuriousWakeup, Woken, TypeOK, PcInv
  <2>. QED
    BY <2>1, <2>2
<1>2. ASSUME NEW t \in Threads, NEW j \in Jobs, CallPush(t, j) PROVE TypeOK' /\ PcInv'
  <2>1. TypeOK'
    BY <1>2 DEF CallPush, Home, TypeOK, PcInv
  <2>2. PcInv'
    BY <1>2 DEF CallPush, Home, TypeOK, PcInv
  <2>. QED
    BY <2>1, <2>2
<1>3. ASSUME NEW t \in Threads, PushCheck(t) PROVE TypeOK' /\ PcInv'
  <2>1. TypeOK'
    <3>1. /\ pc' \in [Threads -> UserPcs \cup WorkerPcs]
          /\ \A u \in Users : pc'[u] \in UserPcs
          /\ \A w \in Workers : pc'[w] \in WorkerPcs
      BY <1>3 DEF PushCheck, Home, TypeOK
    <3>2. arg' \in [Threads -> Jobs \cup {NoJob}]
      BY <1>3 DEF PushCheck, TypeOK
    <3>. QED
      BY <1>3, <3>1, <3>2 DEF PushCheck, TypeOK
  <2>2. PcInv'
    BY <1>3 DEF PushCheck, Home, TypeOK, PcInv
  <2>. QED
    BY <2>1, <2>2
<1>4. ASSUME NEW t \in Threads, PushPut(t) PROVE TypeOK' /\ PcInv'
  <2>1. TypeOK'
    BY <1>4 DEF PushPut, TypeOK, PcInv
  <2>2. PcInv'
    BY <1>4 DEF PushPut, TypeOK, PcInv
  <2>. QED
    BY <2>1, <2>2
<1>5. ASSUME NEW t \in Threads, PushNotify(t) PROVE TypeOK' /\ PcInv'
  <2>1. /\ pc' \in [Threads -> UserPcs \cup WorkerPcs]
        /\ pc'[t] = Home(t)
        /\ \A x \in Threads \ {t} :
             \/ pc'[x] = pc[x]
             \/ pc[x] = "parked" /\ pc'[x] = Woken(x)
    BY <1>5, NotifyOneEffect DEF PushNotify, Home
  <2>2. TypeOK'
    BY <1>5, <2>1 DEF PushNotify, Home, Woken, TypeOK, PcInv
  <2>3. PcInv'
    BY <1>5, <2>1 DEF PushNotify, Home, Woken, TypeOK, PcInv
  <2>. QED
    BY <2>2, <2>3
<1>6. ASSUME NEW w \in Workers, WorkerTake(w) PROVE TypeOK' /\ PcInv'
  <2>1. TypeOK'
    BY <1>6 DEF WorkerTake, TypeOK, PcInv
  <2>2. PcInv'
    BY <1>6 DEF WorkerTake, TypeOK, PcInv
  <2>. QED
    BY <2>1, <2>2
<1>7. ASSUME NEW w \in Workers, WorkerStopped(w) PROVE TypeOK' /\ PcInv'
  <2>1. TypeOK'
    BY <1>7 DEF WorkerStopped, TypeOK, PcInv
  <2>2. PcInv'
    BY <1>7 DEF WorkerStopped, TypeOK, PcInv
  <2>. QED
    BY <2>1, <2>2
<1>8. ASSUME NEW w \in Workers, WorkerIdle(w) PROVE TypeOK' /\ PcInv'
  <2>1. TypeOK'
    BY <1>8 DEF WorkerIdle, TypeOK, PcInv
  <2>2. PcInv'
    BY <1>8 DEF WorkerIdle, TypeOK, PcInv
  <2>. QED
    BY <2>1, <2>2
<1>9. ASSUME NEW w \in Workers, WorkerWait(w) PROVE TypeOK' /\ PcInv'
  <2>1. TypeOK'
    BY <1>9 DEF WorkerWait, TypeOK, PcInv
  <2>2. PcInv'
    BY <1>9 DEF WorkerWait, TypeOK, PcInv
  <2>. QED
    BY <2>1, <2>2
<1>10. ASSUME NEW w \in Workers, WorkerFinish(w) PROVE TypeOK' /\ PcInv'
  <2>1. TypeOK'
    BY <1>10 DEF WorkerFinish, TypeOK, PcInv
  <2>2. PcInv'
    BY <1>10 DEF WorkerFinish, TypeOK, PcInv
  <2>. QED
    BY <2>1, <2>2
<1>11. ASSUME NEW w \in Workers, WorkerNotify(w) PROVE TypeOK' /\ PcInv'
  <2>1. /\ pc' \in [Threads -> UserPcs \cup WorkerPcs]
        /\ pc'[w] = "test"
        /\ \A x \in Threads \ {w} :
             \/ pc'[x] = pc[x]
             \/ pc[x] = "parked" /\ pc'[x] = Woken(x)
    BY <1>11, NotifyOneEffect DEF WorkerNotify
  <2>2. TypeOK'
    BY <1>11, <2>1 DEF WorkerNotify, Woken, TypeOK, PcInv
  <2>3. PcInv'
    BY <1>11, <2>1 DEF WorkerNotify, Woken, TypeOK, PcInv
  <2>. QED
    BY <2>2, <2>3
<1>12. ASSUME NEW w \in Workers, WorkerTest(w) PROVE TypeOK' /\ PcInv'
  <2>1. TypeOK'
    BY <1>12 DEF WorkerTest, TypeOK, PcInv
  <2>2. PcInv'
    BY <1>12 DEF WorkerTest, TypeOK, PcInv
  <2>. QED
    BY <2>1, <2>2
<1>13. ASSUME NEW u \in Users, NEW n \in Counts, CallSetThreadCount(u, n) PROVE TypeOK' /\ PcInv'
  <2>1. TypeOK'
    BY <1>13 DEF CallSetThreadCount, TypeOK, PcInv
  <2>2. PcInv'
    BY <1>13 DEF CallSetThreadCount, TypeOK, PcInv
  <2>. QED
    BY <2>1, <2>2
<1>14. ASSUME NEW u \in Users, NEW n \in Counts, Construct(u, n) PROVE TypeOK' /\ PcInv'
  <2>1. TypeOK'
    BY <1>14 DEF Construct, TypeOK, PcInv
  <2>2. PcInv'
    BY <1>14 DEF Construct, TypeOK, PcInv
  <2>. QED
    BY <2>1, <2>2
<1>15. ASSUME NEW u \in Users, SetLock(u) PROVE TypeOK' /\ PcInv'
  <2>1. TypeOK'
    BY <1>15 DEF SetLock, TypeOK, PcInv
  <2>2. PcInv'
    BY <1>15 DEF SetLock, TypeOK, PcInv
  <2>. QED
    BY <2>1, <2>2
<1>16. ASSUME NEW u \in Users, SetGrow(u) PROVE TypeOK' /\ PcInv'
  <2>1. TypeOK'
    BY <1>16 DEF SetGrow, TypeOK, PcInv
  <2>2. PcInv'
    BY <1>16 DEF SetGrow, TypeOK, PcInv
  <2>. QED
    BY <2>1, <2>2
<1>17. ASSUME NEW u \in Users, SetShrink(u) PROVE TypeOK' /\ PcInv'
  <2>1. TypeOK'
    BY <1>17 DEF SetShrink, TypeOK, PcInv
  <2>2. PcInv'
    BY <1>17 DEF SetShrink, TypeOK, PcInv
  <2>. QED
    BY <2>1, <2>2
<1>18. ASSUME NEW u \in Users, SetSettled(u) PROVE TypeOK' /\ PcInv'
  <2>1. TypeOK'
    BY <1>18 DEF SetSettled, TypeOK, PcInv
  <2>2. PcInv'
    BY <1>18 DEF SetSettled, TypeOK, PcInv
  <2>. QED
    BY <2>1, <2>2
<1>19. ASSUME NEW u \in Users, SetNotify(u) PROVE TypeOK' /\ PcInv'
  <2>1. /\ pc' \in [Threads -> UserPcs \cup WorkerPcs]
        /\ pc'[u] = (IF notes = 1 THEN "set_join" ELSE "set_notify")
        /\ \A x \in Threads \ {u} :
             \/ pc'[x] = pc[x]
             \/ pc[x] = "parked" /\ pc'[x] = Woken(x)
    BY <1>19, NotifyOneEffect DEF SetNotify
  <2>2. TypeOK'
    <3>1. /\ \A v \in Users : pc'[v] \in UserPcs
          /\ \A w \in Workers : pc'[w] \in WorkerPcs
      BY <1>19, <2>1 DEF SetNotify, Woken, TypeOK
    <3>2. notes' \in Nat
      BY <1>19 DEF SetNotify, TypeOK, PcInv
    <3>. QED
      BY <1>19, <2>1, <3>1, <3>2 DEF SetNotify, TypeOK
  <2>3. PcInv'
    <3>1. \A x \in Threads \ {u} : pc'[x] \in SetPcs <=> pc[x] \in SetPcs
      BY <1>19, <2>1 DEF SetNotify, Woken, TypeOK
    <3>2. \A v \in Users \ {u} : pc'[v] # "set_notify"
      BY <1>19, <3>1 DEF SetNotify, PcInv
    <3>3. pc'[u] = "set_notify" => notes' # 0
      BY <1>19, <2>1 DEF SetNotify, TypeOK, PcInv
    <3>4. \A v \in Users : pc'[v] \in SetPcs <=> threadMutex' = v
      BY <1>19, <2>1, <3>1 DEF SetNotify, PcInv
    <3>5. \A x \in Threads \ {u} : pc'[x] \in {"run"} \cup PushPcs <=> pc[x] \in {"run"} \cup PushPcs
      BY <1>19, <2>1 DEF SetNotify, Woken, TypeOK
    <3>6. \A x \in Threads \ {u} : pc'[x] \in {"push_check", "push_put"} <=> pc[x] \in {"push_check", "push_put"}
      BY <1>19, <2>1 DEF SetNotify, Woken, TypeOK
    <3>7. pc[u] = "set_notify" /\ pc'[u] \in {"set_join", "set_notify"}
      BY <1>19, <2>1 DEF SetNotify
    <3>. QED
      BY <1>19, <3>2, <3>3, <3>4, <3>5, <3>6, <3>7 DEF SetNotify, PcInv
  <2>. QED
    BY <2>2, <2>3
<1>20. ASSUME NEW u \in Users, SetJoin(u) PROVE TypeOK' /\ PcInv'
  <2>1. TypeOK'
    BY <1>20 DEF SetJoin, TypeOK, PcInv
  <2>2. PcInv'
    BY <1>20 DEF SetJoin, TypeOK, PcInv
  <2>. QED
    BY <2>1, <2>2
<1>21. ASSUME NEW u \in Users, SetReturn(u) PROVE TypeOK' /\ PcInv'
  <2>1. TypeOK'
    BY <1>21 DEF SetReturn, TypeOK, PcInv
  <2>2. PcInv'
    BY <1>21 DEF SetReturn, TypeOK, PcInv
  <2>. QED
    BY <2>1, <2>2
<1>22. ASSUME NEW u \in Users, Destroy(u) PROVE TypeOK' /\ PcInv'
  <2>1. TypeOK'
    BY <1>22 DEF Destroy, TypeOK, PcInv
  <2>2. PcInv'
    BY <1>22 DEF Destroy, TypeOK, PcInv
  <2>. QED
    BY <2>1, <2>2
<1>23. ASSUME NEW u \in Users, CallFinishUp(u) PROVE TypeOK' /\ PcInv'
  <2>1. TypeOK'
    BY <1>23 DEF CallFinishUp, TypeOK, PcInv
  <2>2. PcInv'
    BY <1>23 DEF CallFinishUp, TypeOK, PcInv
  <2>. QED
    BY <2>1, <2>2
<1>24. ASSUME NEW u \in Users, FinishFlag(u) PROVE TypeOK' /\ PcInv'
  <2>1. TypeOK'
    BY <1>24 DEF FinishFlag, TypeOK, PcInv
  <2>2. PcInv'
    BY <1>24 DEF FinishFlag, TypeOK, PcInv
  <2>. QED
    BY <2>1, <2>2
<1>25. ASSUME NEW u \in Users, FinishTest(u) PROVE TypeOK' /\ PcInv'
  <2>1. TypeOK'
    BY <1>25 DEF FinishTest, TypeOK, PcInv
  <2>2. PcInv'
    BY <1>25 DEF FinishTest, TypeOK, PcInv
  <2>. QED
    BY <2>1, <2>2
<1>26. ASSUME NEW u \in Users, FinishLock(u) PROVE TypeOK' /\ PcInv'
  <2>1. TypeOK'
    BY <1>26 DEF FinishLock, TypeOK, PcInv
  <2>2. PcInv'
    BY <1>26 DEF FinishLock, TypeOK, PcInv
  <2>. QED
    BY <2>1, <2>2
<1>27. ASSUME NEW u \in Users, FinishWait(u) PROVE TypeOK' /\ PcInv'
  <2>1. TypeOK'
    BY <1>27 DEF FinishWait, TypeOK, PcInv
  <2>2. PcInv'
    BY <1>27 DEF FinishWait, TypeOK, PcInv
  <2>. QED
    BY <2>1, <2>2
<1>28. CASE UNCHANGED vars
  BY <1>28 DEF vars, TypeOK, PcInv
<1>. QED
  BY <1>1, <1>2, <1>3, <1>4, <1>5, <1>6, <1>7, <1>8, <1>9, <1>10, <1>11, <1>12, <1>13, <1>14, <1>15, <1>16, <1>17, <1>18, <1>19, <1>20, <1>21, <1>22, <1>23, <1>24, <1>25, <1>26, <1>27, <1>28 DEF Next, PushStep, SetStep, FinishStep, WorkerStep, Call

(* Every field of every variable keeps its type in every state the pool    *)
(* can be in: in particular the loop of SetThreadCount never calls         *)
(* notify_one more often than there are threads to stop, and a worker      *)
(* never calls an empty std::function.                                     *)
THEOREM TypeCorrect == Spec => []TypeOK
<1>1. TypeInv => TypeOK
  BY DEF TypeInv
<1>. QED
  BY InitType, NextType, <1>1, PTL DEF Spec

THEOREM TypeInvariant == Spec => []TypeInv
  BY InitType, NextType, PTL DEF Spec

-----------------------------------------------------------------------------
(* The pool implements JobPool.                                            *)

(* The argument of a Push that has not reached the queue is known to       *)
(* nobody else, and two calls of Push have different arguments.            *)
ArgInv ==
  \A s, t \in Threads :
    arg[s] # NoJob => arg[s] \notin Known /\ (arg[s] = arg[t] => s = t)

LEMMA RangeAppend ==
  ASSUME NEW S, NEW s \in Seq(S), NEW e \in S
  PROVE  Range(Append(s, e)) = Range(s) \cup {e}
<1>1. DOMAIN Append(s, e) = DOMAIN s \cup {Len(s) + 1}
  OBVIOUS
<1>2. /\ \A i \in DOMAIN s : Append(s, e)[i] = s[i]
      /\ Append(s, e)[Len(s) + 1] = e
  OBVIOUS
<1>. QED
  BY <1>1, <1>2 DEF Range

LEMMA RangeHeadTail ==
  ASSUME NEW S, NEW s \in Seq(S), s # <<>>
  PROVE  /\ Head(s) \in S
         /\ Range(s) = {Head(s)} \cup Range(Tail(s))
<1>1. \A i \in DOMAIN Tail(s) : i + 1 \in DOMAIN s /\ Tail(s)[i] = s[i + 1]
  OBVIOUS
<1>2. \A i \in DOMAIN s : i # 1 => i - 1 \in DOMAIN Tail(s) /\ Tail(s)[i - 1] = s[i]
  OBVIOUS
<1>3. Head(s) \in S /\ 1 \in DOMAIN s /\ Head(s) = s[1]
  OBVIOUS
<1>4. Range(Tail(s)) \subseteq Range(s)
  BY <1>1 DEF Range
<1>5. Range(s) \subseteq {Head(s)} \cup Range(Tail(s))
  BY <1>2, <1>3 DEF Range
<1>6. Head(s) \in Range(s)
  BY <1>3 DEF Range
<1>. QED
  BY <1>3, <1>4, <1>5, <1>6

(* Putting a job into a hand, or taking it out, changes the hands' jobs by  *)
(* that job only.                                                          *)
LEMMA HandRange ==
  ASSUME TypeOK, NEW w \in Workers, NEW j \in Jobs \cup {NoJob},
         func' = [func EXCEPT ![w] = j]
  PROVE  /\ Range(func') \subseteq Range(func) \cup {j}
         /\ Range(func) \subseteq Range(func') \cup {func[w]}
         /\ j \in Range(func')
  BY DEF TypeOK, Range

(* A step that is not one of these five moves no job. *)
LEMMA JobSteps ==
  ASSUME [Next]_vars
  PROVE  \/ \E t \in Threads, j \in Jobs : CallPush(t, j)
         \/ \E t \in Threads : PushCheck(t) \/ PushPut(t)
         \/ \E w \in Workers : WorkerTake(w) \/ WorkerFinish(w)
         \/ UNCHANGED <<arg, queue, func, finished>>
<1>1. ASSUME NEW t \in Threads, SpuriousWakeup(t) \/ PushStep(t)
      PROVE  PushCheck(t) \/ PushPut(t) \/ UNCHANGED <<arg, queue, func, finished>>
  BY <1>1 DEF SpuriousWakeup, PushStep, PushNotify
<1>2. ASSUME NEW u \in Users, Call(u)
      PROVE  UNCHANGED <<arg, queue, func, finished>>
  BY <1>2 DEF Call, Construct, CallSetThreadCount, Destroy, CallFinishUp
<1>3. ASSUME NEW u \in Users, SetStep(u)
      PROVE  UNCHANGED <<arg, queue, func, finished>>
  BY <1>3 DEF SetStep, SetLock, SetGrow, SetShrink, SetSettled, SetNotify, SetJoin, SetReturn
<1>4. ASSUME NEW u \in Users, FinishStep(u)
      PROVE  UNCHANGED <<arg, queue, func, finished>>
  BY <1>4 DEF FinishStep, FinishFlag, FinishTest, FinishLock, FinishWait
<1>5. ASSUME NEW w \in Workers, WorkerStep(w)
      PROVE  \/ WorkerTake(w) \/ WorkerFinish(w)
             \/ UNCHANGED <<arg, queue, func, finished>>
  BY <1>5 DEF WorkerStep, WorkerStopped, WorkerIdle, WorkerWait, WorkerNotify, WorkerTest
<1>6. CASE UNCHANGED vars
  BY <1>6 DEF vars
<1>. QED
  BY <1>1, <1>2, <1>3, <1>4, <1>5, <1>6 DEF Next

LEMMA NextArg == TypeInv /\ ArgInv /\ [Next]_vars => ArgInv'
<1>. SUFFICES ASSUME TypeOK, PcInv, ArgInv, [Next]_vars PROVE ArgInv'
  BY DEF TypeInv
<1>1. ASSUME NEW t \in Threads, NEW j \in Jobs, CallPush(t, j) PROVE ArgInv'
  <2>1. Known' = Known
    BY <1>1 DEF CallPush, Known
  <2>2. j \notin Known /\ \A x \in Threads : arg[x] # j
    BY <1>1 DEF CallPush, TypeOK, Range
  <2>. QED
    BY <1>1, <2>1, <2>2 DEF CallPush, ArgInv, TypeOK
<1>2. ASSUME NEW t \in Threads, PushCheck(t) PROVE ArgInv'
  <2>1. Known' = Known
    BY <1>2 DEF PushCheck, Known
  <2>. QED
    BY <1>2, <2>1 DEF PushCheck, ArgInv, TypeOK
<1>3. ASSUME NEW t \in Threads, PushPut(t) PROVE ArgInv'
  <2>1. arg[t] \in Jobs
    BY <1>3, ThreadsAssumption DEF PushPut, TypeOK, PcInv
  <2>2. Known' = Known \cup {arg[t]}
    BY <1>3, <2>1, RangeAppend DEF PushPut, Known, TypeOK
  <2>3. \A x \in Threads : arg'[x] = IF x = t THEN NoJob ELSE arg[x]
    BY <1>3 DEF PushPut, TypeOK
  <2>4. \A x \in Threads \ {t} : arg[x] # arg[t]
    BY <2>1, ThreadsAssumption DEF ArgInv
  <2>. QED
    BY <2>2, <2>3, <2>4 DEF ArgInv
<1>4. ASSUME NEW w \in Workers, WorkerTake(w) PROVE ArgInv'
  <2>1. Head(queue) \in Jobs /\ Range(queue) = {Head(queue)} \cup Range(queue')
    BY <1>4, RangeHeadTail DEF WorkerTake, TypeOK
  <2>2. Range(func') \subseteq Range(func) \cup {Head(queue)}
    BY <1>4, <2>1, HandRange DEF WorkerTake
  <2>3. Known' \subseteq Known
    BY <1>4, <2>1, <2>2, ThreadsAssumption DEF WorkerTake, Known
  <2>. QED
    BY <1>4, <2>3 DEF WorkerTake, ArgInv
<1>5. ASSUME NEW w \in Workers, WorkerFinish(w) PROVE ArgInv'
  <2>1. func[w] \in Range(func) \ {NoJob}
    BY <1>5 DEF WorkerFinish, TypeOK, PcInv, Range
  <2>2. Range(func') \subseteq Range(func) \cup {NoJob}
    BY <1>5, HandRange DEF WorkerFinish
  <2>3. Known' \subseteq Known
    BY <1>5, <2>1, <2>2 DEF WorkerFinish, Known
  <2>. QED
    BY <1>5, <2>3 DEF WorkerFinish, ArgInv
<1>6. CASE UNCHANGED <<arg, queue, func, finished>>
  BY <1>6 DEF ArgInv, Known
<1>. QED
  BY <1>1, <1>2, <1>3, <1>4, <1>5, <1>6, JobSteps

(* Every step of the pool is a step of JobPool or changes none of its      *)
(* variables: PushPut accepts the argument of Push, WorkerTake starts the  *)
(* oldest job in an empty hand, WorkerFinish completes the job in hand.    *)
LEMMA StepSimulation ==
  TypeInv /\ ArgInv /\ [Next]_vars => [Pool!Next]_(Pool!vars)
<1>. SUFFICES ASSUME TypeOK, PcInv, ArgInv, [Next]_vars PROVE [Pool!Next]_(Pool!vars)
  BY DEF TypeInv
<1>1. ASSUME NEW t \in Threads, PushPut(t) PROVE Pool!Next
  <2>1. arg[t] \in Jobs
    BY <1>1, ThreadsAssumption DEF PushPut, TypeOK, PcInv
  <2>2. Pool!Known = Known
    BY DEF Known, Pool!Known, Range, Pool!Range
  <2>3. Pool!Accept(arg[t])
    BY <1>1, <2>1, <2>2, ThreadsAssumption DEF PushPut, ArgInv, Pool!Accept
  <2>. QED
    BY <2>1, <2>3 DEF Pool!Next
<1>2. ASSUME NEW w \in Workers, WorkerTake(w) PROVE Pool!Next
  <2>1. func[w] = NoJob
    BY <1>2 DEF WorkerTake, PcInv, PushPcs
  <2>2. Pool!Start(w)
    BY <1>2, <2>1 DEF WorkerTake, Pool!Start
  <2>. QED
    BY <2>2 DEF Pool!Next
<1>3. ASSUME NEW w \in Workers, WorkerFinish(w) PROVE Pool!Next
  <2>1. func[w] # NoJob
    BY <1>3 DEF WorkerFinish, PcInv
  <2>2. Pool!Complete(w)
    BY <1>3, <2>1 DEF WorkerFinish, Pool!Complete
  <2>. QED
    BY <2>2 DEF Pool!Next
<1>4. ASSUME NEW t \in Threads, NEW j \in Jobs, CallPush(t, j)
      PROVE  UNCHANGED Pool!vars
  BY <1>4 DEF CallPush, Pool!vars
<1>5. ASSUME NEW t \in Threads, PushCheck(t) PROVE UNCHANGED Pool!vars
  BY <1>5 DEF PushCheck, Pool!vars
<1>6. CASE UNCHANGED <<arg, queue, func, finished>>
  BY <1>6 DEF Pool!vars
<1>. QED
  BY <1>1, <1>2, <1>3, <1>4, <1>5, <1>6, JobSteps

(* Through every interleaving of pushes, wake-ups, stop signals and joins, *)
(* and whatever wake-ups are lost, a job the pool accepts is held in one   *)
(* place at a time, leaves the queue in the order in which it entered, and *)
(* is run once, by one worker.                                             *)
THEOREM PoolImplementsJobPool == Spec => ImplementsJobPool
<1>1. Init => ArgInv
  BY DEF Init, ArgInv
<1>2. Init => Pool!Init
  BY DEF Init, Pool!Init
<1>3. Spec => []ArgInv
  BY TypeInvariant, <1>1, NextArg, PTL DEF Spec
<1>. QED
  BY TypeInvariant, <1>2, <1>3, StepSimulation, PTL DEF Spec, ImplementsJobPool, Pool!Spec

-----------------------------------------------------------------------------
(* Once closed, the queue stays closed.                                    *)

(* A Push comes to the point where it appends only from its test, and only *)
(* if it found finishing unset.                                            *)
LEMMA OnlyOpenPushPuts ==
  ASSUME TypeOK, [Next]_vars, finishing, NEW t \in Threads, pc[t] # "push_put", life # "none"
  PROVE  pc'[t] # "push_put"
<1>. USE ThreadsAssumption DEF UserPcs, WorkerPcs, PushPcs, SetPcs
<1>1. ASSUME NEW x \in Threads, NEW label \in (UserPcs \cup WorkerPcs) \ {"push_put"},
             pc[x] # "parked", NotifyOne(x, label)
      PROVE  pc'[t] # "push_put"
  BY <1>1, NotifyOneEffect DEF Woken
<1>2. ASSUME NEW x \in Threads, SpuriousWakeup(x) PROVE pc'[t] # "push_put"
  BY <1>2 DEF SpuriousWakeup, Woken, TypeOK
<1>3. ASSUME NEW x \in Threads, PushStep(x) PROVE pc'[t] # "push_put"
  <2>1. CASE PushCheck(x)
    BY <1>3, <2>1 DEF PushCheck, Home, TypeOK
  <2>2. CASE PushPut(x)
    BY <2>2 DEF PushPut, TypeOK
  <2>3. CASE PushNotify(x)
    BY <2>3, <1>1 DEF PushNotify, Home
  <2>. QED
    BY <1>3, <2>1, <2>2, <2>3 DEF PushStep
<1>4. ASSUME NEW x \in Threads, NEW j \in Jobs, CallPush(x, j) PROVE pc'[t] # "push_put"
  BY <1>4 DEF CallPush, TypeOK
<1>5. ASSUME NEW u \in Users, Call(u) PROVE pc'[t] # "push_put"
  BY <1>5 DEF Call, Construct, CallSetThreadCount, Destroy, CallFinishUp, TypeOK
<1>6. ASSUME NEW u \in Users, SetStep(u) PROVE pc'[t] # "push_put"
  <2>1. CASE SetNotify(u)
    BY <2>1, <1>1 DEF SetNotify
  <2>2. CASE SetLock(u) \/ SetSettled(u) \/ SetReturn(u) \/ SetShrink(u)
    BY <2>2 DEF SetLock, SetSettled, SetReturn, SetShrink, TypeOK
  <2>3. CASE SetGrow(u) \/ SetJoin(u)
    BY <2>3 DEF SetGrow, SetJoin, TypeOK
  <2>. QED
    BY <1>6, <2>1, <2>2, <2>3 DEF SetStep
<1>7. ASSUME NEW u \in Users, FinishStep(u) PROVE pc'[t] # "push_put"
  BY <1>7 DEF FinishStep, FinishFlag, FinishTest, FinishLock, FinishWait, TypeOK
<1>8. ASSUME NEW w \in Workers, WorkerStep(w) PROVE pc'[t] # "push_put"
  <2>1. CASE WorkerNotify(w)
    BY <2>1, <1>1 DEF WorkerNotify
  <2>2. CASE \/ WorkerTake(w) \/ WorkerStopped(w) \/ WorkerIdle(w) \/ WorkerWait(w)
             \/ WorkerFinish(w) \/ WorkerTest(w)
    BY <2>2 DEF WorkerTake, WorkerStopped, WorkerIdle, WorkerWait, WorkerFinish, WorkerTest, TypeOK
  <2>. QED
    BY <1>8, <2>1, <2>2 DEF WorkerStep
<1>9. CASE UNCHANGED vars
  BY <1>9 DEF vars
<1>. QED
  BY <1>2, <1>3, <1>4, <1>5, <1>6, <1>7, <1>8, <1>9 DEF Next

(* Nothing takes finishing back but the constructor, which ran before.     *)
LEMMA FinishingStays ==
  ASSUME [Next]_vars, finishing, life \in {"alive", "dying", "dead"}
  PROVE  finishing' /\ life' \in {"alive", "dying", "dead"}
<1>1. ASSUME NEW x \in Threads, SpuriousWakeup(x) \/ PushStep(x)
      PROVE  UNCHANGED <<finishing, life>>
  BY <1>1 DEF SpuriousWakeup, PushStep, PushCheck, PushPut, PushNotify
<1>2. ASSUME NEW x \in Threads, NEW j \in Jobs, CallPush(x, j)
      PROVE  UNCHANGED <<finishing, life>>
  BY <1>2 DEF CallPush
<1>3. ASSUME NEW u \in Users, Call(u)
      PROVE  finishing' /\ life' \in {"alive", "dying", "dead"}
  BY <1>3 DEF Call, Construct, CallSetThreadCount, Destroy, CallFinishUp
<1>4. ASSUME NEW u \in Users, SetStep(u)
      PROVE  finishing' = finishing /\ life' \in {"alive", "dying", "dead"}
  BY <1>4 DEF SetStep, SetLock, SetGrow, SetShrink, SetSettled, SetNotify, SetJoin, SetReturn
<1>5. ASSUME NEW u \in Users, FinishStep(u)
      PROVE  finishing' /\ life' = life
  BY <1>5 DEF FinishStep, FinishFlag, FinishTest, FinishLock, FinishWait
<1>6. ASSUME NEW w \in Workers, WorkerStep(w)
      PROVE  UNCHANGED <<finishing, life>>
  BY <1>6 DEF WorkerStep, WorkerTake, WorkerStopped, WorkerIdle, WorkerWait, WorkerFinish,
              WorkerNotify, WorkerTest
<1>7. CASE UNCHANGED vars
  BY <1>7 DEF vars
<1>. QED
  BY <1>1, <1>2, <1>3, <1>4, <1>5, <1>6, <1>7 DEF Next

LEMMA ClosedStays == TypeInv /\ [Next]_vars /\ Closed => Closed' /\ Len(queue') <= Len(queue)
<1>. SUFFICES ASSUME TypeOK, PcInv, [Next]_vars, Closed
              PROVE  Closed' /\ Len(queue') <= Len(queue)
  BY DEF TypeInv
<1>1. Closed'
  <2>1. \A t \in Threads : pc'[t] # "push_put"
    BY OnlyOpenPushPuts DEF Closed
  <2>. QED
    BY <2>1, FinishingStays DEF Closed
<1>2. Len(queue') <= Len(queue)
  <2>1. ASSUME NEW w \in Workers, WorkerTake(w) PROVE Len(queue') <= Len(queue)
    BY <2>1 DEF WorkerTake, TypeOK
  <2>2. ASSUME NEW w \in Workers, WorkerFinish(w) PROVE queue' = queue
    BY <2>2 DEF WorkerFinish
  <2>3. ASSUME NEW t \in Threads, PushCheck(t) \/ PushPut(t) PROVE queue' = queue
    BY <2>3 DEF PushCheck, PushPut, Closed
  <2>4. ASSUME NEW t \in Threads, NEW j \in Jobs, CallPush(t, j) PROVE queue' = queue
    BY <2>4 DEF CallPush
  <2>5. Len(queue) \in Nat
    BY DEF TypeOK
  <2>. QED
    BY <2>1, <2>2, <2>3, <2>4, <2>5, JobSteps
<1>. QED
  BY <1>1, <1>2

(* Once FinishUp or the destructor has set finishing, and the calls of     *)
(* Push that had passed their test by then are through, no job enters the  *)
(* queue any more, from outside or from a job that still runs.             *)
THEOREM QueueClosesForGood == Spec => ClosedForGood
<1>1. TypeInv /\ [Next]_vars => [Closed => Closed' /\ Len(queue') <= Len(queue)]_vars
  BY ClosedStays
<1>. QED
  BY TypeInvariant, <1>1, PTL DEF Spec, ClosedForGood

-----------------------------------------------------------------------------
(* The threads that exist.                                                 *)

LEMMA InjectiveAppend ==
  ASSUME NEW S, NEW s \in Seq(S), NEW e \in S, IsInjective(s), e \notin Range(s)
  PROVE  IsInjective(Append(s, e))
<1>1. DOMAIN s = 1 .. Len(s) /\ DOMAIN Append(s, e) = 1 .. Len(s) + 1
  OBVIOUS
<1>2. \A i \in 1 .. Len(s) + 1 : Append(s, e)[i] = IF i <= Len(s) THEN s[i] ELSE e
  OBVIOUS
<1>3. \A i \in 1 .. Len(s) : s[i] # e
  BY <1>1 DEF Range
<1>. QED
  BY <1>1, <1>2, <1>3 DEF IsInjective

LEMMA InjectiveTail ==
  ASSUME NEW S, NEW s \in Seq(S), s # <<>>, IsInjective(s)
  PROVE  IsInjective(Tail(s)) /\ Head(s) \notin Range(Tail(s))
<1>1. DOMAIN s = 1 .. Len(s) /\ 1 \in DOMAIN s /\ Head(s) = s[1]
  OBVIOUS
<1>2. \A i \in DOMAIN Tail(s) : i \in Nat \ {0} /\ i + 1 \in DOMAIN s /\ Tail(s)[i] = s[i + 1]
  OBVIOUS
<1>3. ASSUME NEW i \in DOMAIN Tail(s), NEW j \in DOMAIN Tail(s), Tail(s)[i] = Tail(s)[j] PROVE i = j
  BY <1>2, <1>3 DEF IsInjective
<1>4. ASSUME NEW i \in DOMAIN Tail(s) PROVE Tail(s)[i] # Head(s)
  BY <1>1, <1>2 DEF IsInjective
<1>. QED
  BY <1>3, <1>4 DEF IsInjective, Range

(* A step of a worker or of a user that neither starts nor joins a thread.  *)
LEMMA AccountingKept ==
  ASSUME TypeInv, ThreadAccounting,
         UNCHANGED <<threadList, toClose, stopSignal>>,
         threadMutex' = NoThread => threadMutex = NoThread \/ toClose = <<>>,
         \A w \in Workers : /\ pc'[w] = "none" <=> pc[w] = "none"
                            /\ pc'[w] = "exited" => pc[w] = "exited" \/ stopSignal[w]
  PROVE  ThreadAccounting'
<1>1. Live' = Live
  BY DEF Live
<1>2. Range(threadList) \subseteq Workers
  BY DEF TypeInv, TypeOK, Range
<1>. QED
  BY <1>1, <1>2 DEF ThreadAccounting

LEMMA NextAccounting == TypeInv /\ ThreadAccounting /\ [Next]_vars => ThreadAccounting'
<1>. SUFFICES ASSUME TypeInv, ThreadAccounting, [Next]_vars PROVE ThreadAccounting'
  OBVIOUS
<1>. USE ThreadsAssumption DEF UserPcs, WorkerPcs, PushPcs, SetPcs
<1>1. TypeOK /\ PcInv
  BY DEF TypeInv
<1>2. ASSUME UNCHANGED <<threadList, toClose, stopSignal, threadMutex>>,
             NEW x \in Threads,
             NEW label \in (UserPcs \cup WorkerPcs) \ {"none", "exited"},
             pc[x] \notin {"none", "parked"}, NotifyOne(x, label)
      PROVE  ThreadAccounting'
  <2>1. \A w \in Workers : (pc'[w] = "none" <=> pc[w] = "none") /\ (pc'[w] = "exited" => pc[w] = "exited")
    BY <1>1, <1>2, NotifyOneEffect DEF Woken
  <2>. QED
    BY <1>2, <2>1, AccountingKept
<1>. HIDE DEF Goto
<1>3. ASSUME UNCHANGED <<threadList, toClose, stopSignal>>,
             threadMutex' = NoThread => threadMutex = NoThread \/ toClose = <<>>,
             NEW x \in Threads,
             NEW label \in (UserPcs \cup WorkerPcs) \ {"none"},
             pc[x] # "none", Goto(x, label),
             label = "exited" => stopSignal[x]
      PROVE  ThreadAccounting'
  <2>1. \A w \in Workers : /\ pc'[w] = "none" <=> pc[w] = "none"
                           /\ pc'[w] = "exited" => pc[w] = "exited" \/ stopSignal[w]
    BY <1>1, <1>3 DEF Goto, TypeOK
  <2>. QED
    BY <1>3, <2>1, AccountingKept
<1>4. ASSUME NEW t \in Threads, SpuriousWakeup(t) PROVE ThreadAccounting'
  BY <1>3, <1>4 DEF SpuriousWakeup, Woken
<1>5. ASSUME NEW t \in Threads, PushStep(t) PROVE ThreadAccounting'
  <2>1. CASE PushCheck(t) \/ PushPut(t)
    BY <1>3, <2>1 DEF PushCheck, PushPut, Home
  <2>2. CASE PushNotify(t)
    BY <1>2, <2>2 DEF PushNotify, Home
  <2>. QED
    BY <1>5, <2>1, <2>2 DEF PushStep
<1>6. ASSUME NEW t \in Threads, NEW j \in Jobs, CallPush(t, j) PROVE ThreadAccounting'
  BY <1>3, <1>6 DEF CallPush
<1>7. ASSUME NEW u \in Users, Call(u) PROVE ThreadAccounting'
  BY <1>3, <1>7 DEF Call, Construct, CallSetThreadCount, Destroy, CallFinishUp
<1>8. ASSUME NEW u \in Users, FinishStep(u) PROVE ThreadAccounting'
  BY <1>3, <1>8 DEF FinishStep, FinishFlag, FinishTest, FinishLock, FinishWait
<1>9. ASSUME NEW w \in Workers, WorkerStep(w) PROVE ThreadAccounting'
  <2>1. CASE WorkerTake(w) \/ WorkerStopped(w) \/ WorkerIdle(w) \/ WorkerWait(w) \/ WorkerFinish(w)
    BY <1>3, <2>1 DEF WorkerTake, WorkerStopped, WorkerIdle, WorkerWait, WorkerFinish
  <2>2. CASE WorkerNotify(w)
    BY <1>2, <2>2 DEF WorkerNotify
  <2>3. CASE WorkerTest(w)
    BY <1>3, <2>3 DEF WorkerTest
  <2>. QED
    BY <1>9, <2>1, <2>2, <2>3 DEF WorkerStep
<1>10. ASSUME NEW u \in Users, SetLock(u) \/ SetSettled(u) \/ SetReturn(u) PROVE ThreadAccounting'
  <2>1. CASE SetLock(u)
    <3>1. threadMutex' # NoThread
      BY <2>1 DEF SetLock
    <3>. QED
      BY <1>3, <2>1, <3>1 DEF SetLock
  <2>2. CASE SetSettled(u)
    BY <1>3, <2>2 DEF SetSettled
  <2>3. CASE SetReturn(u)
    <3>1. toClose = <<>>
      BY <2>3 DEF SetReturn
    <3>. QED
      BY <1>3, <2>3, <3>1 DEF SetReturn
  <2>. QED
    BY <1>10, <2>1, <2>2, <2>3
<1>11. ASSUME NEW u \in Users, SetNotify(u) PROVE ThreadAccounting'
  BY <1>2, <1>11 DEF SetNotify
<1>12. ASSUME NEW u \in Users, SetGrow(u) PROVE ThreadAccounting'
  <2>1. PICK w \in Workers :
          /\ pc[w] = "none" /\ pc' = [pc EXCEPT ![w] = "lock"]
          /\ threadList' = Append(threadList, w)
          /\ stopSignal' = [stopSignal EXCEPT ![w] = FALSE]
    BY <1>12 DEF SetGrow, Goto
  <2>2. UNCHANGED <<toClose, threadMutex>>
    BY <1>12 DEF SetGrow
  <2>3. w \notin Live /\ w \notin Range(threadList) /\ w \notin Range(toClose)
    BY <2>1 DEF Live, ThreadAccounting
  <2>4. Live' = Live \cup {w}
    BY <1>1, <2>1 DEF Live, TypeOK
  <2>5. Range(threadList') = Range(threadList) \cup {w} /\ IsInjective(threadList')
    <3>1. threadList \in Seq(Workers) /\ IsInjective(threadList)
      BY <1>1 DEF ThreadAccounting, TypeOK
    <3>. QED
      BY <2>1, <2>3, <3>1, RangeAppend, InjectiveAppend
  <2>6. \A x \in Workers : /\ stopSignal'[x] = IF x = w THEN FALSE ELSE stopSignal[x]
                           /\ pc'[x] = IF x = w THEN "lock" ELSE pc[x]
    BY <1>1, <2>1 DEF TypeOK
  <2>7. Range(threadList) \subseteq Workers /\ Range(toClose) \subseteq Workers
    BY <1>1 DEF TypeOK, Range
  <2>. QED
    BY <2>2, <2>3, <2>4, <2>5, <2>6, <2>7 DEF ThreadAccounting
<1>13. ASSUME NEW u \in Users, SetShrink(u) PROVE ThreadAccounting'
  <2>1. threadList # <<>> /\ threadMutex = u /\ UNCHANGED <<pc, threadMutex>>
    BY <1>1, <1>13, CountsAssumption DEF SetShrink, TypeOK, PcInv
  <2>2. PICK h \in Workers : h = Head(threadList)
    BY <1>1, <2>1, RangeHeadTail DEF TypeOK
  <2>3. /\ Range(threadList) = {h} \cup Range(threadList')
        /\ IsInjective(threadList') /\ h \notin Range(threadList')
    BY <1>1, <1>13, <2>1, <2>2, RangeHeadTail, InjectiveTail
      DEF SetShrink, ThreadAccounting, TypeOK
  <2>4. h \notin Range(toClose)
    BY <2>3 DEF ThreadAccounting
  <2>5. Range(toClose') = Range(toClose) \cup {h} /\ IsInjective(toClose')
    BY <1>1, <1>13, <2>2, <2>4, RangeAppend, InjectiveAppend
      DEF SetShrink, ThreadAccounting, TypeOK
  <2>6. \A x \in Workers : stopSignal'[x] = IF x = h THEN TRUE ELSE stopSignal[x]
    BY <1>1, <1>13, <2>2 DEF SetShrink, TypeOK
  <2>7. Range(threadList) \subseteq Workers /\ Range(toClose) \subseteq Workers
    BY <1>1 DEF TypeOK, Range
  <2>8. Live' = Live
    BY <2>1 DEF Live
  <2>. QED
    BY <2>1, <2>3, <2>4, <2>5, <2>6, <2>7, <2>8 DEF ThreadAccounting
<1>14. ASSUME NEW u \in Users, SetJoin(u) PROVE ThreadAccounting'
  <2>1. toClose # <<>> /\ threadMutex = u /\ UNCHANGED <<threadList, stopSignal, threadMutex>>
    BY <1>1, <1>14 DEF SetJoin, PcInv
  <2>2. PICK h \in Workers : h = Head(toClose)
    BY <1>1, <2>1, RangeHeadTail DEF TypeOK
  <2>3. /\ Range(toClose) = {h} \cup Range(toClose')
        /\ IsInjective(toClose') /\ h \notin Range(toClose')
    BY <1>1, <1>14, <2>1, <2>2, RangeHeadTail, InjectiveTail
      DEF SetJoin, ThreadAccounting, TypeOK
  <2>4. \A x \in Workers : pc'[x] = IF x = h THEN "none" ELSE pc[x]
    BY <1>1, <1>14, <2>2 DEF SetJoin, Goto, TypeOK
  <2>5. Live' = Live \ {h}
    BY <2>4 DEF Live
  <2>6. Range(threadList) \subseteq Workers /\ Range(toClose) \subseteq Workers
    BY <1>1 DEF TypeOK, Range
  <2>. QED
    BY <2>1, <2>3, <2>4, <2>5, <2>6 DEF ThreadAccounting
<1>15. CASE UNCHANGED vars
  BY <1>15 DEF vars, ThreadAccounting, Live
<1>. QED
  BY <1>4, <1>5, <1>6, <1>7, <1>8, <1>9, <1>10, <1>11, <1>12, <1>13, <1>14, <1>15
    DEF Next, SetStep

(* Whatever counts are asked for, from how many threads, and however the   *)
(* workers come and go: a thread is in one of the two lists, once, and the *)
(* stop signal that SetThreadCount writes belongs to a thread that has not *)
(* left its loop yet.                                                      *)
THEOREM ThreadsAccounted == Spec => []ThreadAccounting
<1>1. Init => ThreadAccounting
  BY ThreadsAssumption DEF Init, ThreadAccounting, Live, Range, IsInjective, TypeOK
<1>. QED
  BY TypeInvariant, <1>1, NextAccounting, PTL DEF Spec

-----------------------------------------------------------------------------
(* The calls and the locks.                                                *)

Setting == {"set_lock"} \cup SetPcs

(* Where a user thread may be, by the method it is in: the constructor and *)
(* the destructor own the token of finishing and nobody else does, only a  *)
(* FinishUp owns mutex across statements, and while the object is not      *)
(* alive only the thread that builds or destroys it is inside a method.    *)
FrameInv ==
  /\ \A u \in Users :
       /\ frame[u] = "none" <=> pc[u] \in {"idle"} \cup PushPcs
       /\ frame[u] \in {"set", "construct", "destroy"} => pc[u] \in Setting
       /\ frame[u] \in {"finish", "destroy"} => target[u] = 0
       /\ frame[u] \in {"construct", "destroy"} <=> finishLock = u
       /\ frame[u] = "construct" => life = "building"
       /\ frame[u] = "destroy" => life = "dying"
       /\ mutex = u => frame[u] = "finish" /\ pc[u] \in {"fin_wait"} \cup Setting
       /\ life # "alive" => pc[u] = "idle" \/ finishLock = u
       /\ life \in {"none", "dead"} => pc[u] = "idle"
       /\ pc[u] \in {"set_notify", "set_join"} => Len(threadList) = target[u]
  /\ \A w \in Workers : mutex = w => pc[w] = "towait"
  /\ life \in {"none", "dead"} => Live = {}

(* Both of SetThreadCount's loops leave as many threads in the list as were *)
(* asked for, so with nothing left to close that many exist.                *)
LEMMA NoneLeftNoneLive ==
  ASSUME TypeOK, ThreadAccounting, Len(threadList) = 0, toClose = <<>>
  PROVE  Live = {}
<1>1. threadList = <<>>
  BY DEF TypeOK
<1>2. Range(threadList) = {} /\ Range(toClose) = {}
  BY <1>1 DEF Range
<1>. QED
  BY <1>2 DEF ThreadAccounting

LEMMA NextFrame ==
  TypeInv /\ ThreadAccounting /\ FrameInv /\ [Next]_vars => FrameInv'
<1>. SUFFICES ASSUME TypeOK, PcInv, ThreadAccounting, FrameInv, [Next]_vars PROVE FrameInv'
  BY DEF TypeInv
<1>. USE ThreadsAssumption DEF UserPcs, WorkerPcs, PushPcs, SetPcs, Setting
<1>1. ASSUME NEW x \in Threads,
             NEW label \in (UserPcs \cup WorkerPcs) \ {"none"},
             pc[x] \notin {"none", "parked"}, NotifyOne(x, label),
             UNCHANGED <<frame, target, finishLock, life, mutex, threadList>>,
             x \in Workers => pc[x] # "towait",
             x \in Users =>
               /\ pc[x] \notin {"idle", "fin_wait"}
               /\ pc[x] \in PushPcs <=> label \in {"idle"} \cup PushPcs
               /\ pc[x] \in Setting <=> label \in Setting
               /\ label \in {"set_notify", "set_join"} => pc[x] \in {"set_notify", "set_join"}
               /\ label = "idle" => pc[x] \in PushPcs
      PROVE  FrameInv'
  <2>1. /\ pc'[x] = label
        /\ \A y \in Threads \ {x} : pc'[y] = pc[y] \/ (pc[y] = "parked" /\ pc'[y] = Woken(y))
    BY <1>1, NotifyOneEffect
  <2>2. Live' = Live
    BY <1>1, <2>1 DEF Live, Woken
  <2>3. ASSUME NEW u \in Users
        PROVE  /\ pc[u] = "parked" => pc'[u] \in {"parked", "fin_lock"}
               /\ pc[u] # "parked" /\ u # x => pc'[u] = pc[u]
    BY <1>1, <2>1, <2>3 DEF Woken
  <2>4. ASSUME NEW w \in Workers, mutex = w PROVE pc'[w] = "towait"
    BY <1>1, <2>1, <2>4 DEF FrameInv
  <2>. QED
    BY <1>1, <2>1, <2>2, <2>3, <2>4 DEF FrameInv
<1>2. ASSUME NEW t \in Threads, SpuriousWakeup(t) PROVE FrameInv'
  BY <1>2 DEF SpuriousWakeup, Woken, FrameInv, TypeOK, Live
<1>3. ASSUME NEW t \in Threads, NEW j \in Jobs, CallPush(t, j) PROVE FrameInv'
  BY <1>3 DEF CallPush, FrameInv, TypeOK, Live
<1>4. ASSUME NEW t \in Threads, PushCheck(t) PROVE FrameInv'
  BY <1>4 DEF PushCheck, Home, FrameInv, TypeOK, Live
<1>5. ASSUME NEW t \in Threads, PushPut(t) PROVE FrameInv'
  BY <1>5 DEF PushPut, FrameInv, TypeOK, Live
<1>6. ASSUME NEW t \in Threads, PushNotify(t) PROVE FrameInv'
  BY <1>1, <1>6 DEF PushNotify, Home, TypeOK
<1>7. ASSUME NEW w \in Workers, WorkerTake(w) \/ WorkerStopped(w) \/ WorkerFinish(w) \/ WorkerTest(w)
      PROVE  FrameInv'
  BY <1>7 DEF WorkerTake, WorkerStopped, WorkerFinish, WorkerTest, FrameInv, TypeOK, Live
<1>8. ASSUME NEW w \in Workers, WorkerIdle(w) PROVE FrameInv'
  BY <1>8 DEF WorkerIdle, FrameInv, TypeOK, Live
<1>9. ASSUME NEW w \in Workers, WorkerWait(w) PROVE FrameInv'
  BY <1>9 DEF WorkerWait, FrameInv, TypeOK, Live
<1>10. ASSUME NEW w \in Workers, WorkerNotify(w) PROVE FrameInv'
  BY <1>1, <1>10 DEF WorkerNotify
<1>11. ASSUME NEW u \in Users, NEW n \in Counts, Construct(u, n) PROVE FrameInv'
  BY <1>11, CountsAssumption DEF Construct, FrameInv, TypeOK, Live
<1>12. ASSUME NEW u \in Users, NEW n \in Counts, CallSetThreadCount(u, n) PROVE FrameInv'
  BY <1>12, CountsAssumption DEF CallSetThreadCount, FrameInv, TypeOK, Live
<1>13. ASSUME NEW u \in Users, Destroy(u) PROVE FrameInv'
  BY <1>13 DEF Destroy, FrameInv, TypeOK, Live
<1>14. ASSUME NEW u \in Users, CallFinishUp(u) PROVE FrameInv'
  BY <1>14 DEF CallFinishUp, FrameInv, TypeOK, Live
<1>15. ASSUME NEW u \in Users, SetLock(u) PROVE FrameInv'
  BY <1>15 DEF SetLock, FrameInv, TypeOK, Live
<1>16. ASSUME NEW u \in Users, SetGrow(u) PROVE FrameInv'
  BY <1>16 DEF SetGrow, FrameInv, PcInv, TypeOK, Live
<1>17. ASSUME NEW u \in Users, SetShrink(u) PROVE FrameInv'
  BY <1>17 DEF SetShrink, FrameInv, PcInv, TypeOK, Live
<1>18. ASSUME NEW u \in Users, SetSettled(u) PROVE FrameInv'
  BY <1>18 DEF SetSettled, FrameInv, PcInv, TypeOK, Live
<1>19. ASSUME NEW u \in Users, SetNotify(u) PROVE FrameInv'
  BY <1>1, <1>19 DEF SetNotify
<1>20. ASSUME NEW u \in Users, SetJoin(u) PROVE FrameInv'
  BY <1>20 DEF SetJoin, FrameInv, PcInv, TypeOK, Live
<1>21. ASSUME NEW u \in Users, SetReturn(u) PROVE FrameInv'
  <2>1. frame[u] = "destroy" => Live = {}
    BY <1>21, NoneLeftNoneLive DEF SetReturn, FrameInv
  <2>2. Live' = Live
    BY <1>21 DEF SetReturn, Live, TypeOK
  <2>. QED
    BY <1>21, <2>1, <2>2 DEF SetReturn, FrameInv, TypeOK
<1>22. ASSUME NEW u \in Users, FinishStep(u) PROVE FrameInv'
  <2>1. CASE FinishFlag(u)
    BY <2>1 DEF FinishFlag, FrameInv, TypeOK, Live
  <2>2. CASE FinishTest(u)
    BY <2>2 DEF FinishTest, FrameInv, TypeOK, Live
  <2>3. CASE FinishLock(u)
    BY <2>3 DEF FinishLock, FrameInv, TypeOK, Live
  <2>4. CASE FinishWait(u)
    BY <2>4 DEF FinishWait, FrameInv, TypeOK, Live
  <2>. QED
    BY <1>22, <2>1, <2>2, <2>3, <2>4 DEF FinishStep
<1>23. CASE UNCHANGED vars
  BY <1>23 DEF vars, FrameInv, Live
<1>. QED
  BY <1>2, <1>3, <1>4, <1>5, <1>6, <1>7, <1>8, <1>9, <1>10, <1>11, <1>12, <1>13, <1>14, <1>15,
     <1>16, <1>17, <1>18, <1>19, <1>20, <1>21, <1>22, <1>23
    DEF Next, PushStep, WorkerStep, Call, SetStep

LEMMA FrameInvariant == Spec => []FrameInv
<1>1. Init => FrameInv
  BY ThreadsAssumption DEF Init, FrameInv, Live, PushPcs, Setting, SetPcs
<1>. QED
  BY TypeInvariant, ThreadsAccounted, <1>1, NextFrame, PTL DEF Spec

-----------------------------------------------------------------------------
(* What SetThreadCount, FinishUp and the destructor leave behind.          *)

LEMMA InjectiveRangeSize ==
  ASSUME NEW S, NEW s \in Seq(S), IsInjective(s)
  PROVE  Cardinality(Range(s)) = Len(s)
<1>1. DOMAIN s = 1 .. Len(s) /\ Len(s) \in Nat
  OBVIOUS
<1>2. s \in Bijection(1 .. Len(s), Range(s))
  <2>1. s \in [1 .. Len(s) -> Range(s)] /\ \A y \in Range(s) : \E i \in 1 .. Len(s) : s[i] = y
    BY <1>1 DEF Range
  <2>2. \A i, j \in 1 .. Len(s) : s[i] = s[j] => i = j
    BY <1>1 DEF IsInjective
  <2>. QED
    BY <2>1, <2>2 DEF Bijection, Injection, Surjection, IsInjective
<1>3. IsFiniteSet(1 .. Len(s)) /\ Cardinality(1 .. Len(s)) = Len(s)
  BY <1>1, FS_Interval
<1>. QED
  BY <1>2, <1>3, FS_Bijection DEF ExistsBijection

(* However other calls of SetThreadCount, FinishUp and the jobs interleave, *)
(* the call leaves exactly the threads it was asked for: threadMutex keeps  *)
(* every other one out from the last turn of its loops to its return.       *)
THEOREM SetThreadCountLeavesItsCount == Spec => []SetThreadCountExact
<1>1. TypeInv /\ ThreadAccounting /\ FrameInv => SetThreadCountExact
  <2>. SUFFICES ASSUME TypeOK, ThreadAccounting, FrameInv,
                       NEW u \in Users, pc[u] = "set_join", toClose = <<>>
                PROVE  /\ Live = Range(threadList)
                       /\ Cardinality(Live) = target[u]
                       /\ \A w \in Live : ~stopSignal[w]
    BY DEF TypeInv, SetThreadCountExact
  <2>1. Live = Range(threadList)
    BY DEF ThreadAccounting, Range
  <2>2. Cardinality(Range(threadList)) = Len(threadList)
    BY InjectiveRangeSize DEF ThreadAccounting, TypeOK
  <2>3. Len(threadList) = target[u]
    BY DEF FrameInv
  <2>. QED
    BY <2>1, <2>2, <2>3 DEF ThreadAccounting
<1>. QED
  BY TypeInvariant, ThreadsAccounted, FrameInvariant, <1>1, PTL

(* A FinishUp that found jobs in the queue joins every worker before it    *)
(* returns, so what was taken off the queue has finished.                  *)
THEOREM SlowFinishUpLeavesNoJob == Spec => []SlowFinishUpDrains
<1>1. TypeInv /\ ThreadAccounting /\ FrameInv => SlowFinishUpDrains
  <2>. SUFFICES ASSUME TypeOK, PcInv, ThreadAccounting, FrameInv,
                       NEW u \in Users,
                       pc[u] = "set_join", toClose = <<>>, frame[u] = "finish",
                       NEW w \in Workers
                PROVE  func[w] = NoJob /\ arg[w] = NoJob
    BY DEF TypeInv, SlowFinishUpDrains
  <2>1. Live = {}
    BY NoneLeftNoneLive DEF FrameInv
  <2>2. pc[w] = "none"
    BY <2>1 DEF Live
  <2>. QED
    BY <2>2 DEF PcInv, PushPcs
<1>. QED
  BY TypeInvariant, ThreadsAccounted, FrameInvariant, <1>1, PTL

(* When the destructor has run, no thread of the pool exists and nobody    *)
(* owns a mutex that was destroyed with the object.                        *)
THEOREM NothingOutlivesTheDestructor == Spec => []DestructionLeavesNoThread
<1>1. TypeInv /\ FrameInv => DestructionLeavesNoThread
  <2>. SUFFICES ASSUME TypeOK, PcInv, FrameInv, life = "dead"
                PROVE  /\ Live = {}
                       /\ mutex = NoThread /\ threadMutex = NoThread /\ finishLock = NoThread
                       /\ \A u \in Users : pc[u] = "idle"
    BY DEF TypeInv, DestructionLeavesNoThread
  <2>1. Live = {} /\ \A u \in Users : pc[u] = "idle"
    BY DEF FrameInv
  <2>2. mutex \notin Workers
    BY <2>1 DEF FrameInv, Live
  <2>3. mutex \notin Users
    BY <2>1 DEF FrameInv, Setting, SetPcs
  <2>4. threadMutex \notin Users
    BY <2>1 DEF PcInv, SetPcs
  <2>5. finishLock \notin Users
    BY DEF FrameInv
  <2>. QED
    BY <2>1, <2>2, <2>3, <2>4, <2>5 DEF TypeOK
<1>. QED
  BY TypeInvariant, FrameInvariant, <1>1, PTL

-----------------------------------------------------------------------------
(* Circular waits.                                                         *)

\* The constructor starts without threads, so it closes none.
BuildInv ==
  \A u \in Users : frame[u] = "construct" => toClose = <<>> /\ Len(threadList) <= target[u]

LEMMA NextBuild ==
  TypeInv /\ ThreadAccounting /\ FrameInv /\ BuildInv /\ [Next]_vars => BuildInv'
<1>. SUFFICES ASSUME TypeOK, PcInv, ThreadAccounting, FrameInv, BuildInv, [Next]_vars,
                     NEW u \in Users, frame'[u] = "construct"
              PROVE  toClose' = <<>> /\ Len(threadList') <= target'[u]
  BY DEF TypeInv, BuildInv
<1>. USE ThreadsAssumption
<1>1. ASSUME frame[u] = "construct" PROVE \A v \in Users : v # u => pc[v] = "idle"
  BY <1>1 DEF FrameInv, TypeOK
<1>2. ASSUME UNCHANGED <<threadList, toClose>>, frame[u] = "construct" => target'[u] = target[u],
             frame[u] = "construct"
      PROVE  toClose' = <<>> /\ Len(threadList') <= target'[u]
  BY <1>2 DEF BuildInv
<1>3. ASSUME NEW t \in Threads, SpuriousWakeup(t) \/ PushStep(t)
      PROVE  toClose' = <<>> /\ Len(threadList') <= target'[u]
  BY <1>2, <1>3 DEF SpuriousWakeup, PushStep, PushCheck, PushPut, PushNotify
<1>4. ASSUME NEW t \in Threads, NEW j \in Jobs, CallPush(t, j)
      PROVE  toClose' = <<>> /\ Len(threadList') <= target'[u]
  BY <1>2, <1>4 DEF CallPush
<1>5. ASSUME NEW w \in Workers, WorkerStep(w)
      PROVE  toClose' = <<>> /\ Len(threadList') <= target'[u]
  BY <1>2, <1>5 DEF WorkerStep, WorkerTake, WorkerStopped, WorkerIdle, WorkerWait, WorkerFinish,
                    WorkerNotify, WorkerTest
<1>6. ASSUME NEW v \in Users, FinishStep(v)
      PROVE  toClose' = <<>> /\ Len(threadList') <= target'[u]
  BY <1>2, <1>6 DEF FinishStep, FinishFlag, FinishTest, FinishLock, FinishWait, TypeOK
<1>7. ASSUME NEW v \in Users, NEW n \in Counts, Construct(v, n)
      PROVE  toClose' = <<>> /\ Len(threadList') <= target'[u]
  <2>1. threadList = <<>> /\ toClose = <<>>
    <3>1. Range(threadList) = {} /\ Range(toClose) = {}
      BY <1>7 DEF Construct, FrameInv, ThreadAccounting
    <3>2. threadList \in Seq(Workers) /\ toClose \in Seq(Workers)
      BY DEF TypeOK
    <3>. QED
      BY <3>1, <3>2, RangeHeadTail
  <2>2. u = v
    BY <1>1, <1>7 DEF Construct, FrameInv, TypeOK
  <2>3. target'[u] = n /\ n \in Nat /\ UNCHANGED <<threadList, toClose>>
    BY <1>7, <2>2, CountsAssumption DEF Construct, TypeOK
  <2>. QED
    BY <2>1, <2>3
<1>8. ASSUME NEW v \in Users, (\E n \in Counts : CallSetThreadCount(v, n)) \/ Destroy(v) \/ CallFinishUp(v)
      PROVE  toClose' = <<>> /\ Len(threadList') <= target'[u]
  BY <1>2, <1>8 DEF CallSetThreadCount, Destroy, CallFinishUp, TypeOK
<1>9. ASSUME NEW v \in Users, SetStep(v)
      PROVE  toClose' = <<>> /\ Len(threadList') <= target'[u]
  <2>1. frame[u] = "construct" /\ UNCHANGED target
    BY <1>9 DEF SetStep, SetLock, SetGrow, SetShrink, SetSettled, SetNotify, SetJoin, SetReturn, TypeOK
  <2>2. pc[v] # "idle"
    BY <1>9 DEF SetStep, SetLock, SetGrow, SetShrink, SetSettled, SetNotify, SetJoin, SetReturn
  <2>3. u = v /\ toClose = <<>> /\ Len(threadList) <= target[u] /\ target[u] \in Nat
    BY <1>1, <2>1, <2>2 DEF BuildInv, TypeOK
  <2>4. CASE SetGrow(v)
    <3>1. Len(threadList) < target[u] /\ \E w \in Workers : threadList' = Append(threadList, w)
      BY <2>3, <2>4 DEF SetGrow
    <3>2. Len(threadList') = Len(threadList) + 1 /\ Len(threadList) \in Nat
      BY <3>1 DEF TypeOK
    <3>. QED
      BY <2>1, <2>3, <2>4, <3>1, <3>2 DEF SetGrow
  <2>5. ~SetShrink(v)
    BY <2>3 DEF SetShrink, TypeOK
  <2>6. ~SetJoin(v)
    BY <2>3 DEF SetJoin
  <2>7. CASE SetLock(v) \/ SetSettled(v) \/ SetNotify(v) \/ SetReturn(v)
    BY <2>1, <2>3, <2>7 DEF SetLock, SetSettled, SetNotify, SetReturn
  <2>. QED
    BY <1>9, <2>4, <2>5, <2>6, <2>7 DEF SetStep
<1>10. CASE UNCHANGED vars
  BY <1>2, <1>10 DEF vars
<1>. QED
  BY <1>3, <1>4, <1>5, <1>6, <1>7, <1>8, <1>9, <1>10 DEF Next, Call

(* Any threads, jobs and counts: threads that all wait for one another do  *)
(* not exist without a FinishUp that owns mutex, a destructor that owns    *)
(* the token of finishing, or one that oversleeps, such as a worker that   *)
(* SetThreadCount joins.  Otherwise, who owns mutex is a worker about to   *)
(* sleep; who owns the token is the constructor, which joins nobody; so    *)
(* nobody in the circle wants either, and only joins and threadMutex are   *)
(* left, which lead from the caller of SetThreadCount to a worker and no   *)
(* further.                                                                *)
THEOREM NoOtherDeadlock == Spec => []OnlyKnownDeadlocks
<1>1. TypeInv /\ FrameInv /\ BuildInv => OnlyKnownDeadlocks
  <2>. SUFFICES ASSUME TypeOK, PcInv, FrameInv, BuildInv,
                       NEW T \in SUBSET Threads, NEW t0 \in T,
                       \A t \in T : Overslept(t) \/ \E u \in T : WaitsFor(t, u),
                       ~(mutex \in T \cap Users), ~(life = "dying" /\ finishLock \in T),
                       ~(\E t \in T : Overslept(t))
                PROVE  FALSE
    BY DEF TypeInv, OnlyKnownDeadlocks
  <2>. USE ThreadsAssumption
  <2>1. ASSUME NEW t \in T, pc[t] \in {"push_check", "fin_flag"} PROVE FALSE
    <3>1. PICK u \in T : finishLock = u
      BY <2>1 DEF WaitsFor
    <3>2. u \in Users /\ frame[u] = "construct" /\ life = "building" /\ pc[u] \in Setting
      BY <3>1 DEF FrameInv, TypeOK
    <3>3. PICK v \in T : WaitsFor(u, v)
      OBVIOUS
    <3>4. pc[u] # "set_join"
      BY <3>2, <3>3 DEF WaitsFor, BuildInv
    <3>5. pc[u] = "set_lock" /\ threadMutex = v
      BY <3>2, <3>3, <3>4 DEF WaitsFor, Setting, SetPcs
    <3>6. v \in Users /\ pc[v] \in SetPcs /\ v # u
      BY <3>5 DEF PcInv, TypeOK, SetPcs
    <3>. QED
      BY <3>1, <3>2, <3>6 DEF FrameInv, SetPcs
  <2>2. ASSUME NEW t \in T, pc[t] \in {"lock", "fin_lock"} PROVE FALSE
    <3>1. PICK u \in T : mutex = u
      BY <2>2 DEF WaitsFor
    <3>2. u \in Workers /\ pc[u] = "towait"
      BY <3>1 DEF FrameInv
    <3>. QED
      BY <3>2 DEF WaitsFor
  <2>3. ASSUME NEW t \in T, pc[t] = "set_join" PROVE FALSE
    <3>1. PICK w \in T : toClose # <<>> /\ w = Head(toClose)
      BY <2>3 DEF WaitsFor
    <3>2. w \in Workers
      BY <3>1, RangeHeadTail DEF TypeOK
    <3>3. PICK x \in T : WaitsFor(w, x)
      OBVIOUS
    <3>4. pc[w] \notin {"set_lock", "set_join"}
      BY <3>2 DEF TypeOK, WorkerPcs, PushPcs
    <3>. QED
      BY <2>1, <2>2, <3>3, <3>4 DEF WaitsFor
  <2>4. ASSUME NEW t \in T, pc[t] = "set_lock" PROVE FALSE
    <3>1. PICK u \in T : threadMutex = u
      BY <2>4 DEF WaitsFor
    <3>2. pc[u] \in SetPcs
      BY <3>1 DEF PcInv, TypeOK
    <3>3. PICK x \in T : WaitsFor(u, x)
      OBVIOUS
    <3>. QED
      BY <2>3, <3>2, <3>3 DEF WaitsFor, SetPcs
  <2>. QED
    BY <2>1, <2>2, <2>3, <2>4 DEF WaitsFor
<1>2. Init => BuildInv
  BY DEF Init, BuildInv
<1>3. Spec => []BuildInv
  BY TypeInvariant, ThreadsAccounted, FrameInvariant, <1>2, NextBuild, PTL DEF Spec
<1>. QED
  BY TypeInvariant, FrameInvariant, <1>1, <1>3, PTL

=============================================================================
