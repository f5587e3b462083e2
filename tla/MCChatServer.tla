---------------------------- MODULE MCChatServer ----------------------------
(* Model-checking instances of ChatServer: clients can be exchanged. *)
EXTENDS ChatServer

Symmetry == Permutations(Conn)
=============================================================================
