------------------------------- MODULE Sqlite -------------------------------
(***************************************************************************)
(* The class SQLite of sqlite/sqlite.{hpp,cpp}: one connection, the list   *)
(* of its prepared statements under a GuardedVar, and threads that prepare,*)
(* execute and unprepare statements, also from the row callbacks of an     *)
(* execution in progress.                                                  *)
(*                                                                         *)
(* Each thread has a stack of calls; the call on top goes on, and one that *)
(* is in a callback of the program may get another call on top of it.  The *)
(* SQLite library is external: it has a recursive mutex per connection,    *)
(* which sqlite3_exec keeps while it calls back, and a statement is told   *)
(* by its pointer, which may be given out again once it is finalized.      *)
(***************************************************************************)
EXTENDS Naturals, SequencesExt

CONSTANTS
  Threads,
  Stmts,     \* the values a sqlite3_stmt * may have
  Params,    \* the vectors of variables a statement is executed with
  Rows,      \* how many rows an execution yields
  MaxDepth,  \* calls inside callbacks inside calls: a bound of the model
  NoStmt,
  NoParam

ASSUME SqliteAssumption ==
  /\ NoStmt \notin Stmts /\ NoParam \notin Params
  /\ Rows \in Nat /\ MaxDepth \in Nat \ {0}

VARIABLES
  db,         \* SQLite::db and what it points to
  registered, \* SQLite::statementMap
  state,      \* the library's state of each statement
  cursor,     \* how many rows a statement has returned
  bound,      \* what its parameters are bound to
  stack,      \* the calls each thread is in
  life,       \* of the SQLite object, until its behaviour is undefined
  reckless    \* the program has freed what it may still use (history)

library == <<state, cursor, bound>>
vars == <<db, registered, library, stack, life, reckless>>

Ops == {"prepare", "unprepare", "execute", "exec", "cleanup"}
Places == {"lock", "library", "register", "bind", "step", "callback", "reset", "close"}

\* The history of an execution: how many rows it has passed on, while each was the
\* next one and of the right parameters; Wrong once one was not; and Void if
\* it fails, or shares its statement, or did not find it reset.
Wrong == Rows + 1
Void == Rows + 2

\* A call in progress: where it is, the statement it works on, the parameters it
\* was called with, and its history.
Frame(op, at, s, p) == [op |-> op, at |-> at, stmt |-> s, param |-> p, seen |-> 0]

Frames ==
  [op : Ops, at : Places, stmt : Stmts \cup {NoStmt}, param : Params \cup {NoParam},
   seen : 0 .. Void]

TypeOK ==
  /\ db \in {"null", "open", "sick", "dangling"}
  /\ registered \in Seq(Stmts)
  /\ state \in [Stmts -> {"free", "ready", "row", "halted"}]
  /\ cursor \in [Stmts -> 0 .. Rows]
  /\ bound \in [Stmts -> Params \cup {NoParam}]
  /\ stack \in [Threads -> Seq(Frames)]
  /\ \A t \in Threads : Len(stack[t]) <= MaxDepth
  /\ life \in {"alive", "dying", "gone", "undefined"}
  /\ reckless \in BOOLEAN

Init ==
  /\ db = "null"
  /\ registered = <<>>
  /\ state = [s \in Stmts |-> "free"]
  /\ cursor = [s \in Stmts |-> 0]
  /\ bound = [s \in Stmts |-> NoParam]
  /\ stack = [t \in Threads |-> <<>>]
  /\ life = "alive"
  /\ reckless = FALSE

-----------------------------------------------------------------------------
(* Calls and locks.                                                        *)

Calls(t) == Range(stack[t])
Executing(s) == {t \in Threads : \E f \in Calls(t) : f.op = "execute" /\ f.stmt = s}

InCallback(f) == f.op \in {"execute", "exec"} /\ f.at = "callback"

Top(t) == Last(stack[t])

\* Thread t is at that statement of that method.  Of what comes after undefined
\* behaviour nothing is said.
At(t, op, at) ==
  life # "undefined" /\ stack[t] # <<>> /\ Top(t).op = op /\ Top(t).at = at

Replace(t, f) == stack' = [stack EXCEPT ![t] = Append(Front(@), f)]
Goto(t, at) == Replace(t, [Top(t) EXCEPT !.at = at])
Return(t) == stack' = [stack EXCEPT ![t] = Front(@)]

\* The program calls a method of an object that is there, from outside or from
\* a callback.
MayCall(t) ==
  /\ life = "alive"
  /\ stack[t] # <<>> => InCallback(Top(t))
  /\ Len(stack[t]) < MaxDepth

\* The token of statementMap.
HoldsMap(f) ==
  \/ f.op = "unprepare" /\ f.at = "library"
  \/ f.op = "cleanup" /\ f.at = "library"

\* The mutex of the connection, which a call of the library has within the step
\* that makes it, and sqlite3_exec while it calls back.
HoldsDb(f) == f.op = "exec" /\ f.at = "callback"

\* A PreparedExecute that first looks the statement up in statementMap.
WantsMapInExecute(f) == f.at \in {"lock", "register", "bind"}

WantsMap(f) == f.at \in {"lock", "register"}
WantsDb(f) == f.at \in {"library", "bind", "step", "reset", "close"}

\* u keeps t waiting.
Blocks(u, t) ==
  /\ u # t /\ stack[t] # <<>>
  /\ \/ WantsMap(Top(t)) /\ \E f \in Calls(u) : HoldsMap(f)
     \/ WantsDb(Top(t)) /\ \E f \in Calls(u) : HoldsDb(f)

Runs(t, op, at) == At(t, op, at) /\ \A u \in Threads : ~Blocks(u, t)

\* The library is given a pointer that it has freed, or a string a null one.
Undefined ==
  /\ life' = "undefined"
  /\ UNCHANGED <<db, registered, library, stack, reckless>>

-----------------------------------------------------------------------------
(* LoadDB, by a thread that has the object for itself: db has no lock.  A  *)
(* connection sqlite3_open could not open has a handle all the same; it is *)
(* sick, and LoadDB will not replace it.                                   *)

LoadDB ==
  /\ life = "alive"
  /\ \A t \in Threads : stack[t] = <<>>
  /\ db = "null"
  /\ db' \in {"open", "sick"}
  /\ UNCHANGED <<registered, library, stack, life, reckless>>

-----------------------------------------------------------------------------
(* Prepare and Unprepare.                                                  *)

CallPrepare(t) ==
  /\ MayCall(t)
  /\ stack' = [stack EXCEPT ![t] = Append(@, Frame("prepare", "library", NoStmt, NoParam))]
  /\ UNCHANGED <<db, registered, library, life, reckless>>

\* sqlite3_prepare_v2 gives no statement for a bad text or a bad connection.
PrepareLibrary(t) ==
  /\ Runs(t, "prepare", "library")
  /\ db # "dangling"
  /\ \/ /\ Return(t)
        /\ UNCHANGED library
     \/ /\ db = "open"
        /\ \E s \in Stmts :
             /\ state[s] = "free"
             /\ state' = [state EXCEPT ![s] = "ready"]
             /\ cursor' = [cursor EXCEPT ![s] = 0]
             /\ bound' = [bound EXCEPT ![s] = NoParam]
             /\ Replace(t, Frame("prepare", "register", s, NoParam))
  /\ UNCHANGED <<db, registered, life, reckless>>

PrepareRegister(t) ==
  /\ Runs(t, "prepare", "register")
  /\ registered' = Append(registered, Top(t).stmt)
  /\ Return(t)
  /\ UNCHANGED <<db, library, life, reckless>>

\* The program passes any pointer it was once given; it is reckless to pass one of
\* a statement that is being executed.
CallUnprepare(t, s) ==
  /\ MayCall(t)
  /\ stack' = [stack EXCEPT ![t] = Append(@, Frame("unprepare", "lock", s, NoParam))]
  /\ reckless' = (reckless \/ Executing(s) # {})
  /\ UNCHANGED <<db, registered, library, life>>

\* A search without the token.
UnprepareFindUnlocked(t) ==
  /\ At(t, "unprepare", "lock")
  /\ IF Top(t).stmt \in Range(registered) THEN Goto(t, "library") ELSE Return(t)
  /\ UNCHANGED <<db, registered, library, life, reckless>>

\* The token is taken and the statement looked for.
UnprepareFind(t) ==
  /\ Runs(t, "unprepare", "lock")
  /\ IF Top(t).stmt \in Range(registered) THEN Goto(t, "library") ELSE Return(t)
  /\ UNCHANGED <<db, registered, library, life, reckless>>

\* sqlite3_finalize, and the statement is off the list.
Finalize(s) ==
  /\ state' = [state EXCEPT ![s] = "free"]
  /\ registered' = RemoveFirst(registered, s)
  /\ UNCHANGED <<cursor, bound>>

UnprepareFinalize(t) ==
  /\ Runs(t, "unprepare", "library")
  /\ state[Top(t).stmt] # "free"
  /\ Finalize(Top(t).stmt)
  /\ Return(t)
  /\ UNCHANGED <<db, life, reckless>>

-----------------------------------------------------------------------------
(* PreparedExecute.                                                        *)

Free(t) == stack[t] # <<>> /\ Top(t).stmt \in Stmts /\ state[Top(t).stmt] = "free"

\* With a pointer that Prepare has returned and nobody is about to free.
CallExecute(t, s, p) ==
  /\ MayCall(t)
  /\ s \in Range(registered)
  /\ \A u \in Threads : \A f \in Calls(u) : f.op = "unprepare" => f.stmt # s
  /\ LET alone == Executing(s) = {} /\ state[s] = "ready"
         others == [u \in Threads |-> [i \in DOMAIN stack[u] |->
                      IF stack[u][i].op = "execute" /\ stack[u][i].stmt = s
                      THEN [stack[u][i] EXCEPT !.seen = Void] ELSE stack[u][i]]]
         call == [Frame("execute", "bind", s, p) EXCEPT !.seen = IF alone THEN 0 ELSE Void]
     IN  stack' = [others EXCEPT ![t] = Append(@, call)]
  /\ UNCHANGED <<db, registered, library, life, reckless>>

\* Parameters that are bound by the first execution only.
BindOnce(t) ==
  /\ Runs(t, "execute", "bind")
  /\ ~Free(t)
  /\ bound' = IF bound[Top(t).stmt] = NoParam
              THEN [bound EXCEPT ![Top(t).stmt] = Top(t).param] ELSE bound
  /\ Goto(t, "step")
  /\ UNCHANGED <<db, registered, state, cursor, life, reckless>>

\* The sqlite3_bind calls, whose results are ignored: on a statement that was not
\* reset the old parameters stay.
Bind(t) ==
  /\ Runs(t, "execute", "bind")
  /\ ~Free(t)
  /\ bound' = IF state[Top(t).stmt] = "ready"
              THEN [bound EXCEPT ![Top(t).stmt] = Top(t).param] ELSE bound
  /\ Goto(t, "step")
  /\ UNCHANGED <<db, registered, state, cursor, life, reckless>>

\* The rows the statement has returned since it was last started.
Returned(s) == IF state[s] = "halted" THEN 0 ELSE cursor[s]

\* What an execution has seen when it passes on the next row of s.
Seen(f, s) ==
  IF f.seen = Void THEN Void
  ELSE IF f.seen = Returned(s) /\ bound[s] = f.param THEN f.seen + 1 ELSE Wrong

\* sqlite3_step finds a row, which goes to the callback.
StepRow(t) ==
  LET s == Top(t).stmt
  IN  /\ Runs(t, "execute", "step")
      /\ ~Free(t)
      /\ Returned(s) < Rows
      /\ state' = [state EXCEPT ![s] = "row"]
      /\ cursor' = [cursor EXCEPT ![s] = Returned(s) + 1]
      /\ Replace(t, [Top(t) EXCEPT !.at = "callback", !.seen = Seen(Top(t), s)])
      /\ UNCHANGED <<db, registered, bound, life, reckless>>

\* It has found the last one before, or fails.
StepEnds(t) ==
  LET s == Top(t).stmt
  IN  /\ Runs(t, "execute", "step")
      /\ ~Free(t)
      /\ state' = [state EXCEPT ![s] = "halted"]
      /\ \/ Returned(s) = Rows /\ Goto(t, "reset")
         \/ Replace(t, [Top(t) EXCEPT !.at = "reset", !.seen = Void])
      /\ UNCHANGED <<db, registered, cursor, bound, life, reckless>>

CallbackReturns(t) ==
  /\ At(t, "execute", "callback")
  /\ Goto(t, "step")
  /\ UNCHANGED <<db, registered, library, life, reckless>>

\* The callback throws, to the program that called PreparedExecute: nothing is
\* reset.  (No exception may pass sqlite3_exec.)
CallbackThrows(t) ==
  /\ At(t, "execute", "callback")
  /\ Return(t)
  /\ UNCHANGED <<db, registered, library, life, reckless>>

\* A PreparedExecute that returns at once when a step fails.
ResetAfterSuccess(t) ==
  /\ Runs(t, "execute", "reset")
  /\ ~Free(t)
  /\ state' = IF Top(t).seen = Void THEN state ELSE [state EXCEPT ![Top(t).stmt] = "ready"]
  /\ Return(t)
  /\ UNCHANGED <<db, registered, cursor, bound, life, reckless>>

\* sqlite3_reset; its result, the error of the step if any, is returned.
Reset(t) ==
  /\ Runs(t, "execute", "reset")
  /\ ~Free(t)
  /\ state' = [state EXCEPT ![Top(t).stmt] = "ready"]
  /\ cursor' = [cursor EXCEPT ![Top(t).stmt] = 0]
  /\ Return(t)
  /\ UNCHANGED <<db, registered, bound, life, reckless>>

-----------------------------------------------------------------------------
(* UnpreparedExecute: sqlite3_exec calls back for each row of a statement  *)
(* of its own.                                                             *)

CallExec(t) ==
  /\ MayCall(t)
  /\ db # "null"
  /\ stack' = [stack EXCEPT ![t] = Append(@, Frame("exec", "library", NoStmt, NoParam))]
  /\ UNCHANGED <<db, registered, library, life, reckless>>

ExecCallsBack(t) ==
  /\ Runs(t, "exec", "library")
  /\ db = "open"
  /\ Goto(t, "callback")
  /\ UNCHANGED <<db, registered, library, life, reckless>>

\* It returns, with rows or without, or with an error and its text.
ExecReturns(t) ==
  /\ \/ Runs(t, "exec", "library") /\ db = "open"
     \/ At(t, "exec", "callback")
  /\ Return(t)
  /\ UNCHANGED <<db, registered, library, life, reckless>>

\* On a sick connection it fails without a text, and the null pointer is made
\* a std::string.
ExecOnSick(t) ==
  /\ Runs(t, "exec", "library")
  /\ db = "sick"
  /\ Undefined

-----------------------------------------------------------------------------
(* Cleanup, called by the program, which is reckless of it: the handle is  *)
(* kept though it is closed; and by the destructor, which as for every C++ *)
(* object runs when nobody is inside a method.                             *)

CallCleanup(t) ==
  /\ MayCall(t)
  /\ stack' = [stack EXCEPT ![t] = Append(@, Frame("cleanup", "lock", NoStmt, NoParam))]
  /\ reckless' = TRUE
  /\ UNCHANGED <<db, registered, library, life>>

Destroy(t) ==
  /\ life = "alive"
  /\ \A u \in Threads : stack[u] = <<>>
  /\ life' = "dying"
  /\ stack' = [stack EXCEPT ![t] = <<Frame("cleanup", "lock", NoStmt, NoParam)>>]
  /\ UNCHANGED <<db, registered, library, reckless>>

CleanupLock(t) ==
  /\ Runs(t, "cleanup", "lock")
  /\ Goto(t, "library")
  /\ UNCHANGED <<db, registered, library, life, reckless>>

\* One turn of the loop: Unprepare of the first statement.
CleanupFinalize(t) ==
  /\ Runs(t, "cleanup", "library")
  /\ registered # <<>> /\ state[Head(registered)] # "free"
  /\ Finalize(Head(registered))
  /\ UNCHANGED <<db, stack, life, reckless>>

CleanupEmpty(t) ==
  /\ At(t, "cleanup", "library")
  /\ registered = <<>>
  /\ Goto(t, "close")
  /\ UNCHANGED <<db, registered, library, life, reckless>>

\* The statements of the connection there still are; sqlite3_exec has its own.
Outstanding ==
  \/ \E s \in Stmts : state[s] # "free"
  \/ \E t \in Threads : \E f \in Calls(t) : f.op = "exec" /\ f.at = "callback"

\* sqlite3_close refuses while there are such statements, which is ignored.
CleanupClose(t) ==
  /\ Runs(t, "cleanup", "close")
  /\ db # "dangling"
  /\ db' = IF db = "null" \/ Outstanding THEN db ELSE "dangling"
  /\ life' = IF life = "dying" THEN "gone" ELSE life
  /\ Return(t)
  /\ UNCHANGED <<registered, library, reckless>>

\* The next call of the library gets a pointer that was freed: a statement that was
\* finalized while it was executed, or by two threads, or the handle of a
\* connection that was closed.
FreedPointer(t) ==
  \/ Free(t) /\ (Runs(t, "unprepare", "library")
                  \/ \E at \in {"bind", "step", "reset"} : Runs(t, "execute", at))
  \/ Runs(t, "cleanup", "library") /\ registered # <<>> /\ state[Head(registered)] = "free"
  \/ db = "dangling" /\ (Runs(t, "prepare", "library") \/ Runs(t, "exec", "library")
                          \/ Runs(t, "cleanup", "close"))

UseFreed(t) == FreedPointer(t) /\ Undefined

-----------------------------------------------------------------------------

PrepareStep(t) ==
  CallPrepare(t) \/ PrepareLibrary(t) \/ PrepareRegister(t)

UnprepareStep(t) ==
  (\E s \in Stmts : CallUnprepare(t, s)) \/ UnprepareFind(t) \/ UnprepareFinalize(t)

ExecuteStep(t) ==
  \/ \E s \in Stmts, p \in Params : CallExecute(t, s, p)
  \/ Bind(t) \/ StepRow(t) \/ StepEnds(t) \/ CallbackReturns(t) \/ CallbackThrows(t)
  \/ Reset(t)

ExecStep(t) == CallExec(t) \/ ExecCallsBack(t) \/ ExecReturns(t) \/ ExecOnSick(t)

CleanupStep(t) ==
  \/ CallCleanup(t) \/ Destroy(t) \/ CleanupLock(t) \/ CleanupFinalize(t)
  \/ CleanupEmpty(t) \/ CleanupClose(t)

Next ==
  \/ LoadDB
  \/ \E t \in Threads :
       \/ PrepareStep(t) \/ UnprepareStep(t) \/ ExecuteStep(t) \/ ExecStep(t)
       \/ CleanupStep(t) \/ UseFreed(t)

Spec == Init /\ [][Next]_vars

-----------------------------------------------------------------------------
(* Properties.                                                             *)

\* statementMap and the library agree, in every interleaving: a statement the
\* library has is on the list once, or in the hands of the one Prepare that is about
\* to put it there, and the list has no pointer to a finalized one.  So each
\* statement is finalized, once.
StatementsAccounted ==
  /\ IsInjective(registered)
  /\ \A s \in Stmts :
       LET coming == {t \in Threads : \E f \in Calls(t) : f.op = "prepare" /\ f.stmt = s}
       IN  IF state[s] = "free" THEN s \notin Range(registered) /\ coming = {}
           ELSE s \in Range(registered) <=> coming = {}

\* No pointer is used that was freed, whatever the threads prepare, unprepare and
\* execute, and from which callbacks: unless the program has unprepared a
\* statement while it was executed, or has called Cleanup, which keeps the handle of
\* the connection it closes; or executes on a connection that was not opened.
FreedOnlyByTheProgram == life = "undefined" => reckless \/ db = "sick"

\* "It will call the callback function for each row returned by the execute"
\* (sqlite.hpp:97): of an execution that has the statement for itself, found it
\* reset, and comes to the end, the callback has had every row, in order, once,
\* and of the parameters it was called with; unless the program is reckless.
RowsComplete ==
  ~reckless =>
    \A t \in Threads : \A f \in Calls(t) :
      f.op = "execute" /\ f.at = "reset" /\ f.seen # Void => f.seen = Rows

\* A statement that nobody executes is ready for the next execution, though the
\* statement may have failed, was executed by two threads, or by its own callback:
\* only a callback that throws leaves one behind half way.  (An action property:
\* a step that makes the last execution end, but by throwing, leaves it ready.)
ReadyAfterExecution ==
  [][\A s \in Stmts :
       Executing(s) # {} /\ Executing(s)' = {} /\ ~reckless
       /\ ~(\E t \in Executing(s) : At(t, "execute", "callback"))
         => state'[s] = "ready"]_vars

\* A callback of UnpreparedExecute that goes for the token of statementMap.
ReentersMap ==
  \E t \in Threads : \E i, j \in DOMAIN stack[t] :
    i < j /\ stack[t][i].op = "exec" /\ stack[t][j].op \in {"prepare", "unprepare", "cleanup"}

\* No two threads wait for each other, one for the token of statementMap and one for the
\* connection, which Unprepare takes in this order; but a callback of
\* UnpreparedExecute that prepares or unprepares takes them in the other.
NoCircularWait ==
  ~ReentersMap => \A t, u \in Threads : ~(Blocks(t, u) /\ Blocks(u, t))

=============================================================================
