---------------------------- MODULE Connections -----------------------------
(***************************************************************************)
(* What networking/networking.hpp promises to a program that has clients,  *)
(* without the dancer's thread, its pipe and its maps, the descriptors and *)
(* the identifiers: each connection is a channel of its own.  What is sent *)
(* on it waits in its buffer and leaves it oldest first, once; its         *)
(* callbacks are pushed while it is connected, the last two when it ends.  *)
(*                                                                         *)
(* Networking.tla implements this specification.                           *)
(***************************************************************************)
EXTENDS Naturals, Sequences, Functions

CONSTANTS
  Conns,    \* the connections there may be
  Silent,   \* those with no error callback
  MaxSends  \* calls of Send: a bound of the model

VARIABLES
  state,     \* what has become of each connection
  buffer,    \* the data accepted for it and not sent yet, a set of calls of Send
  wire,      \* the data sent on it, in order
  jobs,      \* the callbacks pushed for it, in order
  sends,     \* how many calls of Send there have been
  reachable, \* the dancer hears of new connections and of sends
  refusing   \* the thread pool takes no more callbacks

vars == <<state, buffer, wire, jobs, sends, reachable, refusing>>

Init ==
  /\ state = [c \in Conns |-> "new"]
  /\ buffer = [c \in Conns |-> {}]
  /\ wire = [c \in Conns |-> <<>>]
  /\ jobs = [c \in Conns |-> <<>>]
  /\ sends = 0
  /\ reachable = TRUE /\ refusing = FALSE

-----------------------------------------------------------------------------

\* Connected, and whether the program still has its client.
Connected(c) == state[c] \in {"open", "left"}
Held(c) == state[c] \in {"open", "lost"}

\* Connect has succeeded, or an accepted client was commenced.
Open(c) ==
  /\ state[c] = "new" /\ reachable
  /\ state' = [state EXCEPT ![c] = "open"]
  /\ UNCHANGED <<buffer, wire, jobs, sends, reachable, refusing>>

\* What is sent on a connection that is lost, or once the dancer is not reached, is
\* dropped, and the program not told.
Send(c) ==
  /\ Held(c)
  /\ sends < MaxSends
  /\ sends' = sends + 1
  /\ buffer' = IF Connected(c) /\ reachable
               THEN [buffer EXCEPT ![c] = @ \cup {[sock |-> c, n |-> sends']}]
               ELSE buffer
  /\ UNCHANGED <<state, wire, jobs, reachable, refusing>>

\* out is some of the data in a buffer, all that is older than what is left.
Oldest(out, data) ==
  /\ \A i, j \in DOMAIN out : i < j => out[i].n < out[j].n
  /\ \A i \in DOMAIN out, d \in data \ Range(out) : out[i].n < d.n

\* One look at a connection: a message may have come in, and some data goes out.
Exchange(c) ==
  /\ Connected(c)
  /\ jobs' = jobs \/ (~refusing /\ jobs' = [jobs EXCEPT ![c] = @ \o <<"data">>])
  /\ \E k \in 0 .. MaxSends : \E out \in [1 .. k -> buffer[c]] :
       /\ Oldest(out, buffer[c])
       /\ wire' = [wire EXCEPT ![c] = @ \o out]
       /\ buffer' = [buffer EXCEPT ![c] = @ \ Range(out)]
  /\ UNCHANGED <<state, sends, reachable, refusing>>

\* The client is destroyed, which does not end the connection at once.
Leave(c) ==
  /\ Held(c)
  /\ state' = [state EXCEPT ![c] = IF Connected(c) THEN "left" ELSE "closed"]
  /\ UNCHANGED <<buffer, wire, jobs, sends, reachable, refusing>>

\* The connections in ended are no more, and what was not sent is dropped.
Dropped(ended) ==
  /\ state' = [c \in Conns |-> IF c \notin ended THEN state[c]
                               ELSE IF Held(c) THEN "lost" ELSE "closed"]
  /\ buffer' = [c \in Conns |-> IF c \in ended THEN {} ELSE buffer[c]]

\* A connection ends: it has failed, or the program has left it.
End(c) ==
  /\ Connected(c)
  /\ Dropped({c})
  /\ jobs' = IF refusing \/ c \in Silent THEN jobs
             ELSE [jobs EXCEPT ![c] = @ \o <<"error", "cleanup">>]
  /\ UNCHANGED <<wire, sends, reachable, refusing>>

\* The dancer is cut off, or it ends: then some connections end with it, and their
\* last callback is made at once.
Shutdown(ended) ==
  /\ \A c \in ended : Connected(c)
  /\ reachable' = FALSE
  /\ Dropped(ended)
  /\ jobs' = [c \in Conns |-> IF c \in ended THEN jobs[c] \o <<"final">> ELSE jobs[c]]
  /\ UNCHANGED <<wire, sends, refusing>>

Refuse ==
  /\ ~reachable /\ ~refusing
  /\ refusing' = TRUE
  /\ UNCHANGED <<state, buffer, wire, jobs, sends, reachable>>

Next ==
  \/ \E c \in Conns : Open(c) \/ Send(c) \/ Exchange(c) \/ Leave(c) \/ End(c)
  \/ \E ended \in SUBSET Conns : Shutdown(ended)
  \/ Refuse

Spec == Init /\ [][Next]_vars

=============================================================================
