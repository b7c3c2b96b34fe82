------------------------------- MODULE JobPool -------------------------------
(***************************************************************************)
(* What the thread pool of threading/threadpool.hpp promises to the code   *)
(* that pushes jobs on it, without its locks, its condition variable and   *)
(* its stop signals: a job that is accepted waits in one FIFO queue, some  *)
(* worker takes it out exactly once, runs it, and it is finished.          *)
(*                                                                         *)
(* Threadpool.tla implements this specification; the modules that model    *)
(* the users of the pool compose with it instead of with the threads.      *)
(***************************************************************************)
EXTENDS Naturals, Sequences, Functions

CONSTANTS Jobs,     \* the std::function objects, each pushed at most once
          Workers,  \* the threads that may run them
          NoJob     \* what a worker that runs nothing has in hand, not a job

VARIABLES pending,  \* the jobs accepted and not yet taken, oldest first
          hand,     \* the job each worker runs
          done      \* the jobs that have finished

vars == <<pending, hand, done>>

TypeOK ==
  /\ pending \in Seq(Jobs)
  /\ hand \in [Workers -> Jobs \cup {NoJob}]
  /\ done \in SUBSET Jobs

Init ==
  /\ pending = <<>>
  /\ hand = [w \in Workers |-> NoJob]
  /\ done = {}

\* The jobs the pool knows of.
Known == Range(pending) \cup (Range(hand) \ {NoJob}) \cup done

Accept(j) ==
  /\ j \notin Known
  /\ pending' = Append(pending, j)
  /\ UNCHANGED <<hand, done>>

Start(w) ==
  /\ hand[w] = NoJob
  /\ pending # <<>>
  /\ hand' = [hand EXCEPT ![w] = Head(pending)]
  /\ pending' = Tail(pending)
  /\ UNCHANGED done

Complete(w) ==
  /\ hand[w] # NoJob
  /\ done' = done \cup {hand[w]}
  /\ hand' = [hand EXCEPT ![w] = NoJob]
  /\ UNCHANGED pending

Next ==
  \/ \E j \in Jobs : Accept(j)
  \/ \E w \in Workers : Start(w) \/ Complete(w)

Spec == Init /\ [][Next]_vars

=============================================================================
