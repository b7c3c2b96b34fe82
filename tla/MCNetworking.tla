---------------------------- MODULE MCNetworking ----------------------------
(***************************************************************************)
(* Instances of Networking for TLC: a listener, a connection it accepts    *)
(* and one the program opens without an error callback, with fewer         *)
(* descriptors than sockets, so that one is reused.                        *)
(***************************************************************************)
EXTENDS Networking, TLC

=============================================================================
