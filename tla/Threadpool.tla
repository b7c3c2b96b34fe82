----------------------------- MODULE Threadpool -----------------------------
(***************************************************************************)
(* The thread pool of threading/threadpool.{hpp,cpp}, at the granularity   *)
(* of its locks: threadMutex (SetThreadCount), mutex with the condition    *)
(* variable cv (RunnerFunc, FinishUp), the recursive mutex inside          *)
(* GuardedVar<bool> finishing, and the mutex inside Queue, which makes     *)
(* every Queue operation one step.                                         *)
(*                                                                         *)
(* A user thread calls the methods one at a time; a worker runs            *)
(* RunnerFunc, and the job it runs may itself call Push.  The program      *)
(* counter of a thread names the statement it executes next.  A read or    *)
(* write of *stopSignal (a plain bool shared without a lock) is one        *)
(* indivisible step, which is what the supported compilers emit for it.    *)
(***************************************************************************)
EXTENDS Naturals, Sequences, FiniteSets, Functions

CONSTANTS
  Users,     \* the program's threads that call the pool's methods
  Workers,   \* names for the pool's threads; a name is free again once joined
  Jobs,      \* the calls of Push there may be, each with its std::function
  Counts,    \* the arguments of SetThreadCount, after -1 is resolved
  Ops,       \* the methods this program uses, see OpsAssumption
  NoThread,  \* no owner of a mutex
  NoJob      \* no function: std::function() == nullptr

\* "nested" means that jobs call Push on the pool that runs them.
ASSUME OpsAssumption == Ops \subseteq {"push", "nested", "set", "finish", "destroy"}

ASSUME ThreadsAssumption ==
  /\ Users \cap Workers = {}
  /\ NoThread \notin Users \cup Workers
  /\ NoJob \notin Jobs

\* Enough names for the largest pool: a bound of the model, not of the code.
ASSUME CountsAssumption ==
  \A n \in Counts : n \in Nat /\ n <= Cardinality(Workers)

VARIABLES
  queue,       \* Threadpool::queue
  finishing,   \* the bool inside GuardedVar finishing
  finishLock,  \* the owner of the recursive mutex inside it
  mutex,       \* the owner of Threadpool::mutex
  threadMutex, \* the owner of Threadpool::threadMutex
  threadList,  \* Threadpool::threadList
  stopSignal,  \* the bool each worker was started with
  pc,          \* the statement each thread executes next
  func,        \* RunnerFunc's local func, once popped and until it has run
  arg,         \* the parameter of the Push a thread is in
  frame,       \* who called SetThreadCount (or FinishUp) on a user thread
  target,      \* SetThreadCount's local count
  toClose,     \* its local toClose, of the thread that owns threadMutex
  notes,       \* how many of its notify_one calls are left
  life,        \* "none", "building", "alive", "dying", "dead"
  finished     \* the jobs that have run to their end (history)

jobVars == <<queue, func, arg, finished>>
lockVars == <<finishLock, mutex, threadMutex>>
setVars == <<threadList, stopSignal, target, toClose, notes>>
callVars == <<finishing, frame, life>>

vars == <<pc, jobVars, lockVars, setVars, callVars>>

Threads == Users \cup Workers

PushPcs == {"push_check", "push_put", "push_notify"}
SetPcs == {"set_grow", "set_notify", "set_join"}
UserPcs == {"idle", "set_lock", "fin_flag", "fin_test", "fin_lock", "fin_wait", "parked"}
             \cup PushPcs \cup SetPcs
WorkerPcs == {"none", "lock", "towait", "parked", "run", "notify", "test", "exited"}
               \cup PushPcs

TypeOK ==
  /\ queue \in Seq(Jobs)
  /\ finishing \in BOOLEAN
  /\ finishLock \in Users \cup {NoThread}
  /\ mutex \in Threads \cup {NoThread}
  /\ threadMutex \in Users \cup {NoThread}
  /\ threadList \in Seq(Workers)
  /\ stopSignal \in [Workers -> BOOLEAN]
  /\ pc \in [Threads -> UserPcs \cup WorkerPcs]
  /\ \A u \in Users : pc[u] \in UserPcs
  /\ \A w \in Workers : pc[w] \in WorkerPcs
  /\ func \in [Workers -> Jobs \cup {NoJob}]
  /\ arg \in [Threads -> Jobs \cup {NoJob}]
  /\ frame \in [Users -> {"none", "set", "finish", "construct", "destroy"}]
  /\ target \in [Users -> Nat]
  /\ toClose \in Seq(Workers)
  /\ notes \in Nat
  /\ life \in {"none", "building", "alive", "dying", "dead"}
  /\ finished \in SUBSET Jobs

\* Before the constructor: the bool inside finishing is not initialised.
Init ==
  /\ queue = <<>>
  /\ finishing \in BOOLEAN
  /\ finishLock = NoThread
  /\ mutex = NoThread
  /\ threadMutex = NoThread
  /\ threadList = <<>>
  /\ stopSignal = [w \in Workers |-> FALSE]
  /\ pc = [t \in Threads |-> IF t \in Users THEN "idle" ELSE "none"]
  /\ func = [w \in Workers |-> NoJob]
  /\ arg = [t \in Threads |-> NoJob]
  /\ frame = [u \in Users |-> "none"]
  /\ target = [u \in Users |-> 0]
  /\ toClose = <<>>
  /\ notes = 0
  /\ life = "none"
  /\ finished = {}

-----------------------------------------------------------------------------
(* The condition variable: parked threads sleep in cv.wait.               *)

Goto(t, label) == pc' = [pc EXCEPT ![t] = label]

Parked == {t \in Threads : pc[t] = "parked"}

\* A thread that wakes up must own mutex again before cv.wait tests its predicate.
Woken(t) == IF t \in Workers THEN "lock" ELSE "fin_lock"

\* cv.notify_one() by t, which goes on to label: any one sleeper, worker or
\* FinishUp, wakes up; without a sleeper the call has no effect.
NotifyOne(t, label) ==
  \/ /\ Parked = {}
     /\ Goto(t, label)
  \/ \E x \in Parked : pc' = [pc EXCEPT ![t] = label, ![x] = Woken(x)]

\* The standard lets cv.wait wake up for no reason.
SpuriousWakeup(t) ==
  /\ pc[t] = "parked"
  /\ Goto(t, Woken(t))
  /\ UNCHANGED <<jobVars, lockVars, setVars, callVars>>

-----------------------------------------------------------------------------
(* Push, by a user thread or from inside a job.                            *)

Known == Range(queue) \cup (Range(func) \ {NoJob}) \cup finished

\* The statement after a Push.
Home(t) == IF t \in Workers THEN "run" ELSE "idle"

CallPush(t, j) ==
  /\ \/ t \in Users /\ "push" \in Ops /\ pc[t] = "idle" /\ life = "alive"
     \/ t \in Workers /\ "nested" \in Ops /\ pc[t] = "run"
  /\ j \notin Known \cup Range(arg)
  /\ arg' = [arg EXCEPT ![t] = j]
  /\ Goto(t, "push_check")
  /\ UNCHANGED <<queue, func, finished, lockVars, setVars, callVars>>

\* A Push that does not look at finishing.
PushCheckBlind(t) ==
  /\ pc[t] = "push_check"
  /\ finishLock = NoThread
  /\ Goto(t, "push_put")
  /\ UNCHANGED <<jobVars, lockVars, setVars, callVars>>

\* if(finishing.Get("Threadpool Push")) return false;  The token, and with it
\* the lock, is gone at the end of the condition.
PushCheck(t) ==
  /\ pc[t] = "push_check"
  /\ finishLock = NoThread
  /\ \/ /\ finishing
        /\ Goto(t, Home(t))
        /\ arg' = [arg EXCEPT ![t] = NoJob]
     \/ /\ ~finishing
        /\ Goto(t, "push_put")
        /\ UNCHANGED arg
  /\ UNCHANGED <<queue, func, finished, lockVars, setVars, callVars>>

\* queue.Push(func): under the queue's own mutex, not under Threadpool::mutex.
PushPut(t) ==
  /\ pc[t] = "push_put"
  /\ queue' = Append(queue, arg[t])
  /\ arg' = [arg EXCEPT ![t] = NoJob]
  /\ Goto(t, "push_notify")
  /\ UNCHANGED <<func, finished, lockVars, setVars, callVars>>

PushNotify(t) ==
  /\ pc[t] = "push_notify"
  /\ NotifyOne(t, Home(t))
  /\ UNCHANGED <<jobVars, lockVars, setVars, callVars>>

-----------------------------------------------------------------------------
(* RunnerFunc.  Taking mutex, evaluating a true predicate, popping and     *)
(* releasing mutex is one step: only the owner of mutex pops, and what     *)
(* another thread may do in between (append, set a stop signal) changes    *)
(* nothing that was already tested.  A false predicate is a step of its    *)
(* own, before the wait: Push and SetThreadCount do not take mutex, so     *)
(* their change and their notify_one may fall between the two.             *)

\* A worker told to stop that drops the job it popped.
WorkerTakeDrops(w) ==
  /\ pc[w] = "lock"
  /\ mutex = NoThread
  /\ queue # <<>>
  /\ queue' = Tail(queue)
  /\ func' = [func EXCEPT ![w] = IF stopSignal[w] THEN NoJob ELSE Head(queue)]
  /\ Goto(w, IF stopSignal[w] THEN "notify" ELSE "run")
  /\ UNCHANGED <<arg, finished, lockVars, setVars, callVars>>

\* A worker that keeps mutex when it has popped.
WorkerTakeKeepsMutex(w) ==
  /\ pc[w] = "lock"
  /\ mutex = NoThread
  /\ queue # <<>>
  /\ queue' = Tail(queue)
  /\ func' = [func EXCEPT ![w] = Head(queue)]
  /\ mutex' = w
  /\ Goto(w, "run")
  /\ UNCHANGED <<arg, finished, finishLock, threadMutex, setVars, callVars>>

\* The predicate holds and there is a job, stop signal or not.
WorkerTake(w) ==
  /\ pc[w] = "lock"
  /\ mutex = NoThread
  /\ queue # <<>>
  /\ queue' = Tail(queue)
  /\ func' = [func EXCEPT ![w] = Head(queue)]
  /\ Goto(w, "run")
  /\ UNCHANGED <<arg, finished, lockVars, setVars, callVars>>

\* The predicate holds because of the stop signal: Pop returns a null function.
WorkerStopped(w) ==
  /\ pc[w] = "lock"
  /\ mutex = NoThread
  /\ stopSignal[w]
  /\ queue = <<>>
  /\ Goto(w, "notify")
  /\ UNCHANGED <<jobVars, lockVars, setVars, callVars>>

\* A worker that goes to sleep without looking at the queue.
WorkerIdleBlind(w) ==
  /\ pc[w] = "lock"
  /\ mutex = NoThread
  /\ ~stopSignal[w]
  /\ mutex' = w
  /\ Goto(w, "towait")
  /\ UNCHANGED <<finishLock, threadMutex, jobVars, setVars, callVars>>

\* The predicate is false.
WorkerIdle(w) ==
  /\ pc[w] = "lock"
  /\ mutex = NoThread
  /\ ~stopSignal[w]
  /\ queue = <<>>
  /\ mutex' = w
  /\ Goto(w, "towait")
  /\ UNCHANGED <<finishLock, threadMutex, jobVars, setVars, callVars>>

\* cv.wait gives mutex up and goes to sleep in one step.
WorkerWait(w) ==
  /\ pc[w] = "towait"
  /\ mutex' = NoThread
  /\ Goto(w, "parked")
  /\ UNCHANGED <<finishLock, threadMutex, jobVars, setVars, callVars>>

\* func() returns.
WorkerFinish(w) ==
  /\ pc[w] = "run"
  /\ finished' = finished \cup {func[w]}
  /\ func' = [func EXCEPT ![w] = NoJob]
  /\ Goto(w, "notify")
  /\ UNCHANGED <<queue, arg, lockVars, setVars, callVars>>

WorkerNotify(w) ==
  /\ pc[w] = "notify"
  /\ NotifyOne(w, "test")
  /\ UNCHANGED <<jobVars, lockVars, setVars, callVars>>

\* A loop that is not left on a stop signal.
WorkerTestDeaf(w) ==
  /\ pc[w] = "test"
  /\ Goto(w, "lock")
  /\ UNCHANGED <<jobVars, lockVars, setVars, callVars>>

\* isStopTime = *params->stopSignal, and the end of the loop.
WorkerTest(w) ==
  /\ pc[w] = "test"
  /\ Goto(w, IF stopSignal[w] THEN "exited" ELSE "lock")
  /\ UNCHANGED <<jobVars, lockVars, setVars, callVars>>

-----------------------------------------------------------------------------
(* SetThreadCount, called by the constructor, the destructor, FinishUp     *)
(* (which owns mutex meanwhile) or the program.                            *)

CallSetThreadCount(u, n) ==
  /\ "set" \in Ops
  /\ pc[u] = "idle"
  /\ life = "alive"
  /\ frame' = [frame EXCEPT ![u] = "set"]
  /\ target' = [target EXCEPT ![u] = n]
  /\ Goto(u, "set_lock")
  /\ UNCHANGED <<finishing, threadList, stopSignal, toClose, notes, life, jobVars, lockVars>>

SetLock(u) ==
  /\ pc[u] = "set_lock"
  /\ threadMutex = NoThread
  /\ threadMutex' = u
  /\ Goto(u, "set_grow")
  /\ UNCHANGED <<finishLock, mutex, jobVars, setVars, callVars>>

\* One turn of the first loop: a new thread with a new stop signal.
SetGrow(u) ==
  /\ pc[u] = "set_grow"
  /\ Len(threadList) < target[u]
  /\ \E w \in Workers :
       /\ pc[w] = "none"
       /\ threadList' = Append(threadList, w)
       /\ stopSignal' = [stopSignal EXCEPT ![w] = FALSE]
       /\ Goto(w, "lock")
  /\ UNCHANGED <<target, toClose, notes, jobVars, lockVars, callVars>>

\* The stop signal goes to the thread at the back, the front one is closed.
SetShrinkWrongEnd(u) ==
  /\ pc[u] = "set_grow"
  /\ Len(threadList) > target[u]
  /\ toClose' = Append(toClose, Head(threadList))
  /\ stopSignal' = [stopSignal EXCEPT ![threadList[Len(threadList)]] = TRUE]
  /\ threadList' = Tail(threadList)
  /\ UNCHANGED <<pc, target, notes, jobVars, lockVars, callVars>>

\* One turn of the second loop: the oldest thread is told to stop.
SetShrink(u) ==
  /\ pc[u] = "set_grow"
  /\ Len(threadList) > target[u]
  /\ toClose' = Append(toClose, Head(threadList))
  /\ stopSignal' = [stopSignal EXCEPT ![Head(threadList)] = TRUE]
  /\ threadList' = Tail(threadList)
  /\ UNCHANGED <<pc, target, notes, jobVars, lockVars, callVars>>

\* Both loops are over; with nothing to close, the call returns.
SetSettled(u) ==
  /\ pc[u] = "set_grow"
  /\ Len(threadList) = target[u]
  /\ notes' = Len(toClose)
  /\ Goto(u, IF toClose = <<>> THEN "set_join" ELSE "set_notify")
  /\ UNCHANGED <<threadList, stopSignal, target, toClose, jobVars, lockVars, callVars>>

\* A notify loop that runs once too often.
SetNotifyOnceMore(u) ==
  /\ pc[u] = "set_notify"
  /\ notes' = notes - 1
  /\ \/ notes >= 0 /\ NotifyOne(u, "set_notify")
     \/ notes = -1 /\ Goto(u, "set_join")
  /\ UNCHANGED <<threadList, stopSignal, target, toClose, jobVars, lockVars, callVars>>

\* One turn of the loop of notify_one calls.
SetNotify(u) ==
  /\ pc[u] = "set_notify"
  /\ notes' = notes - 1
  /\ NotifyOne(u, IF notes = 1 THEN "set_join" ELSE "set_notify")
  /\ UNCHANGED <<threadList, stopSignal, target, toClose, jobVars, lockVars, callVars>>

\* A detach in place of the join.
SetJoinDetached(u) ==
  /\ pc[u] = "set_join"
  /\ toClose # <<>>
  /\ toClose' = Tail(toClose)
  /\ UNCHANGED <<threadList, pc, stopSignal, target, notes, jobVars, lockVars, callVars>>

\* One turn of the loop of join calls: blocks until RunnerFunc has returned.
SetJoin(u) ==
  /\ pc[u] = "set_join"
  /\ toClose # <<>>
  /\ pc[Head(toClose)] = "exited"
  /\ toClose' = Tail(toClose)
  /\ Goto(Head(toClose), "none")
  /\ UNCHANGED <<threadList, stopSignal, target, notes, jobVars, lockVars, callVars>>

\* The call returns and, where it is their last statement, so do the
\* constructor, the destructor and FinishUp, with the locks they still own.
SetReturn(u) ==
  /\ pc[u] = "set_join"
  /\ toClose = <<>>
  /\ threadMutex' = NoThread
  /\ mutex' = IF frame[u] = "finish" THEN NoThread ELSE mutex
  /\ finishLock' = IF frame[u] \in {"construct", "destroy"} THEN NoThread ELSE finishLock
  /\ life' = CASE frame[u] = "construct" -> "alive"
               [] frame[u] = "destroy" -> "dead"
               [] OTHER -> life
  /\ frame' = [frame EXCEPT ![u] = "none"]
  /\ Goto(u, "idle")
  /\ UNCHANGED <<finishing, jobVars, setVars>>

-----------------------------------------------------------------------------
(* The constructor and the destructor, which both hold the token of        *)
(* finishing to their end, and FinishUp.                                   *)

Construct(u, n) ==
  /\ life = "none"
  /\ pc[u] = "idle"
  /\ life' = "building"
  /\ finishLock' = u
  /\ finishing' = FALSE
  /\ frame' = [frame EXCEPT ![u] = "construct"]
  /\ target' = [target EXCEPT ![u] = n]
  /\ Goto(u, "set_lock")
  /\ UNCHANGED <<mutex, threadMutex, threadList, stopSignal, toClose, notes, jobVars>>

\* As for every C++ object, no other user thread is inside a method.
Destroy(u) ==
  /\ "destroy" \in Ops
  /\ life = "alive"
  /\ \A v \in Users : pc[v] = "idle"
  /\ finishLock = NoThread
  /\ life' = "dying"
  /\ finishLock' = u
  /\ finishing' = TRUE
  /\ frame' = [frame EXCEPT ![u] = "destroy"]
  /\ target' = [target EXCEPT ![u] = 0]
  /\ Goto(u, "set_lock")
  /\ UNCHANGED <<mutex, threadMutex, threadList, stopSignal, toClose, notes, jobVars>>

CallFinishUp(u) ==
  /\ "finish" \in Ops
  /\ pc[u] = "idle"
  /\ life = "alive"
  /\ frame' = [frame EXCEPT ![u] = "finish"]
  /\ target' = [target EXCEPT ![u] = 0]
  /\ Goto(u, "fin_flag")
  /\ UNCHANGED <<finishing, threadList, stopSignal, toClose, notes, life, jobVars, lockVars>>

FinishFlag(u) ==
  /\ pc[u] = "fin_flag"
  /\ finishLock = NoThread
  /\ finishing' = TRUE
  /\ Goto(u, "fin_test")
  /\ UNCHANGED <<frame, life, jobVars, lockVars, setVars>>

\* if(!queue.CanPop()) return;
FinishTest(u) ==
  /\ pc[u] = "fin_test"
  /\ \/ queue = <<>> /\ Goto(u, "idle") /\ frame' = [frame EXCEPT ![u] = "none"]
     \/ queue # <<>> /\ Goto(u, "fin_lock") /\ UNCHANGED frame
  /\ UNCHANGED <<finishing, life, jobVars, lockVars, setVars>>

\* mutex is taken and the predicate of cv.wait tested; when it holds, the
\* thread enters SetThreadCount(0) as the owner of mutex.
FinishLock(u) ==
  /\ pc[u] = "fin_lock"
  /\ mutex = NoThread
  /\ mutex' = u
  /\ Goto(u, IF queue = <<>> THEN "set_lock" ELSE "fin_wait")
  /\ UNCHANGED <<finishLock, threadMutex, jobVars, setVars, callVars>>

FinishWait(u) ==
  /\ pc[u] = "fin_wait"
  /\ mutex' = NoThread
  /\ Goto(u, "parked")
  /\ UNCHANGED <<finishLock, threadMutex, jobVars, setVars, callVars>>

-----------------------------------------------------------------------------

PushStep(t) == PushCheck(t) \/ PushPut(t) \/ PushNotify(t)

SetStep(u) ==
  \/ SetLock(u) \/ SetGrow(u) \/ SetShrink(u) \/ SetSettled(u)
  \/ SetNotify(u) \/ SetJoin(u) \/ SetReturn(u)

FinishStep(u) == FinishFlag(u) \/ FinishTest(u) \/ FinishLock(u) \/ FinishWait(u)

WorkerStep(w) ==
  \/ WorkerTake(w) \/ WorkerStopped(w) \/ WorkerIdle(w) \/ WorkerWait(w)
  \/ WorkerFinish(w) \/ WorkerNotify(w) \/ WorkerTest(w)

\* What a user thread decides to call.
Call(u) ==
  \/ \E n \in Counts : Construct(u, n) \/ CallSetThreadCount(u, n)
  \/ Destroy(u)
  \/ CallFinishUp(u)

Next ==
  \/ \E t \in Threads : SpuriousWakeup(t) \/ PushStep(t)
  \/ \E t \in Threads, j \in Jobs : CallPush(t, j)
  \/ \E u \in Users : Call(u) \/ SetStep(u) \/ FinishStep(u)
  \/ \E w \in Workers : WorkerStep(w)

\* The scheduler runs every runnable thread, a thread that wants a lock which
\* is free again and again gets it, and jobs return.  Nobody has to call
\* anything, and nothing wakes up on its own.
Fairness ==
  /\ \A u \in Users : SF_vars(PushStep(u) \/ SetStep(u) \/ FinishStep(u))
  /\ \A w \in Workers : SF_vars(PushStep(w) \/ WorkerStep(w))

Spec == Init /\ [][Next]_vars

FairSpec == Spec /\ Fairness

-----------------------------------------------------------------------------
(* Safety.                                                                 *)

Live == {w \in Workers : pc[w] # "none"}

\* The pool and its threads agree: every thread that exists is either in
\* threadList or being closed by the SetThreadCount in progress, and in one
\* place only; a listed thread is not told to stop and has not left its loop (so
\* the stop signal SetShrink writes still exists: RunnerFunc deletes it when it
\* leaves), and a thread that is joined was told to stop.
ThreadAccounting ==
  /\ Live = Range(threadList) \cup Range(toClose)
  /\ IsInjective(threadList) /\ IsInjective(toClose)
  /\ Range(threadList) \cap Range(toClose) = {}
  /\ \A w \in Range(threadList) : ~stopSignal[w] /\ pc[w] # "exited"
  /\ \A w \in Range(toClose) : stopSignal[w]
  /\ threadMutex = NoThread => toClose = <<>>

\* "Update the amount of available threads" (threadpool.hpp:24): when
\* SetThreadCount returns, exactly that many threads exist and none of them is
\* on its way out.  Called by FinishUp or the destructor, no thread is left.
SetThreadCountExact ==
  \A u \in Users :
    pc[u] = "set_join" /\ toClose = <<>> =>
      /\ Live = Range(threadList)
      /\ Cardinality(Live) = target[u]
      /\ \A w \in Live : ~stopSignal[w]

\* A FinishUp that had to wait, and that returns, leaves no job half done: what
\* was ever taken off the queue has finished.
SlowFinishUpDrains ==
  \A u \in Users :
    pc[u] = "set_join" /\ toClose = <<>> /\ frame[u] = "finish" =>
      \A w \in Workers : func[w] = NoJob /\ arg[w] = NoJob

\* After the destructor no thread of the pool runs, so none can touch the
\* queue, the condition variable and the mutex that went with the object, and
\* no mutex that was destroyed with it is owned.
DestructionLeavesNoThread ==
  life = "dead" =>
    /\ Live = {}
    /\ mutex = NoThread /\ threadMutex = NoThread /\ finishLock = NoThread
    /\ \A u \in Users : pc[u] = "idle"

\* Who keeps a thread from its next statement: the owner of the lock it wants, or the
\* worker it joins.
WaitsFor(t, u) ==
  \/ pc[t] \in {"push_check", "fin_flag"} /\ finishLock = u
  \/ pc[t] \in {"lock", "fin_lock"} /\ mutex = u
  \/ pc[t] = "set_lock" /\ threadMutex = u
  \/ pc[t] = "set_join" /\ toClose # <<>> /\ u = Head(toClose) /\ pc[u] # "exited"

\* Asleep in cv.wait though its predicate holds (threadpool.cpp:77, 115): the
\* notification came before it slept, or woke another.
Overslept(t) ==
  /\ pc[t] = "parked"
  /\ \/ t \in Workers /\ (stopSignal[t] \/ queue # <<>>)
     \/ t \in Users /\ queue = <<>>

\* Threads of which each waits for another of them, or oversleeps, are three mistakes
\* and no others: a FinishUp that owns mutex (threadpool.cpp:116) or a destructor that
\* owns the token of finishing (threadpool.cpp:19) is among them, or one that oversleeps:
\* a stop signal is written and notified without mutex (threadpool.cpp:50, 57), so a
\* SetThreadCount alone may join a sleeping worker for ever.  Every other join and lock
\* leads to a thread that can go on.
OnlyKnownDeadlocks ==
  \A T \in SUBSET Threads :
    T # {} /\ (\A t \in T : Overslept(t) \/ \E u \in T : WaitsFor(t, u)) =>
      \/ mutex \in T \cap Users
      \/ life = "dying" /\ finishLock \in T
      \/ \E t \in T : Overslept(t)

\* "Prevents further jobs from being added to the queue" (threadpool.hpp:33):
\* once finishing is set and the Push calls that had already passed their
\* test are through, the queue is closed for good.
Closed ==
  /\ finishing /\ life \in {"alive", "dying", "dead"}
  /\ \A t \in Threads : pc[t] # "push_put"

ClosedForGood == [][Closed => Closed' /\ Len(queue') <= Len(queue)]_vars

\* The pool keeps the promise of JobPool: first in first out, every accepted
\* job is run by one worker, once, also by a worker that was told to stop.
Pool == INSTANCE JobPool WITH pending <- queue, hand <- func, done <- finished

ImplementsJobPool == Pool!Spec

-----------------------------------------------------------------------------
(* Liveness.                                                               *)

\* A worker that is not told to stop and will test the queue before it sleeps.
Awake(w) == pc[w] \notin {"none", "towait", "parked", "exited"} /\ ~stopSignal[w]

Queued(j) == j \in Range(queue)

\* Whatever wake-ups were lost, a worker that is awake serves the queue: it goes
\* to sleep only after it has seen the queue empty, so a queued job is taken (by
\* it or by another worker) unless this worker is told to stop.
AwakeWorkerServes ==
  \A w \in Workers, j \in Jobs :
    Queued(j) /\ Awake(w) ~> ~Queued(j) \/ stopSignal[w]

\* A worker that was told to stop and is not asleep leaves its loop, so the
\* join that waits for it returns.
StoppedWorkerLeaves ==
  \A w \in Workers :
    stopSignal[w] /\ pc[w] \in WorkerPcs \ {"none", "towait", "parked"}
      ~> pc[w] \in {"none", "exited"}

\* "blocks until all jobs have finished" (threadpool.hpp:33), and then no longer.
FinishUpReturns ==
  \A u \in Users : frame[u] = "finish" ~> frame[u] # "finish"

=============================================================================
