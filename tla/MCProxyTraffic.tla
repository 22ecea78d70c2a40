-------------------------- MODULE MCProxyTraffic ---------------------------
(* An instance of ProxyTraffic for TLC: how much traffic the peers of a    *)
(* session send, and what goes through a buffer (all bytes are different). *)
EXTENDS ProxyTraffic

MoreUp == [d \in Dirs |-> IF d = "up" THEN 4 ELSE 1]
MCStream == <<1, 2, 3, 4, 5, 6>>
=============================================================================
