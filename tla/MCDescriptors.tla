--------------------------- MODULE MCDescriptors ----------------------------
(* Descriptors in a program with the loader and two connections, and in the *)
(* agent: while the loader runs with one connection, and later with two.     *)
EXTENDS Descriptors

CONSTANTS c1, c2

TwoConns == {c1, c2}
Programs == {{c1, c2, "loader"}, {c1, "loader", "forwarder"}, {c1, c2, "forwarder"}}
=============================================================================
