-------------------------- MODULE MCSocketVendor --------------------------
EXTENDS SocketVendor

CONSTANTS s1, s2, s3

(* A refused backlog, one with fewer buffers than slots, a small one, and  *)
(* one beyond kMaxConnections.                                             *)
SomeBacklogs == {-1, 1, 2, 4}
NegativeBacklog == {-1}
=============================================================================
