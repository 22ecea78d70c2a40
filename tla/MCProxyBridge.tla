--------------------------- MODULE MCProxyBridge ---------------------------
(* An instance of ProxyBridge for TLC: how much traffic the peers send.    *)
EXTENDS ProxyBridge

Little == [d \in Dirs |-> IF d = "up" THEN 2 ELSE 1]
=============================================================================
