---------------------------- MODULE ProxyTraffic ---------------------------
(***************************************************************************)
(* The proxy at its two levels, one per behaviour: a session, in which a   *)
(* buffer is the number of bytes in it, or a buffer of a session with its  *)
(* blocks and the kernel at work on them.  (What the session relies on is  *)
(* ByteQueue, which the buffer implements; both levels at once would be    *)
(* their product.)                                                         *)
(***************************************************************************)
EXTENDS ProxyBridge, TrafficBuffer

VARIABLE level

trafficVars == <<level, vars, bufferVars>>

TrafficInit == level \in {"session", "buffer"} /\ Init /\ BufferInit

Session == level = "session" /\ Next /\ UNCHANGED <<level, bufferVars>>
Buffer == level = "buffer" /\ BufferNext /\ UNCHANGED <<level, vars>>

(* The fairness of a session, as in FairSpec.                              *)
TrafficSpec ==
    /\ TrafficInit /\ [][Session \/ Buffer]_trafficVars
    /\ WF_vars(level = "session" /\ Handlers) /\ WF_vars(level = "session" /\ Kernel)
=============================================================================
