---------------------------- MODULE ProxyBridge ----------------------------
(***************************************************************************)
(* One session of the enclave's SOCKS5 proxy: the handshake state machine  *)
(* (socks5_state.cc) and the bridge that drives it and then forwards       *)
(* traffic between the client's and the destination's socket               *)
(* (proxy_bridge.cc).                                                      *)
(*                                                                         *)
(* Every I/O call of the bridge is asynchronous: it is started, the kernel *)
(* completes it, and some time later its handler runs.  The handlers of a  *)
(* session run one at a time (they share a strand) but in any order, so an *)
(* operation is "idle", "pending" or "done" (completed, handler not yet    *)
(* run).  The bridge has no owner other than its outstanding handlers: it  *)
(* is destroyed, and both sockets are closed, when the last one returns.   *)
(*                                                                         *)
(* Bytes are counted, not represented: the buffers are queues (which is    *)
(* what TrafficBuffer shows), and what is at stake is how many bytes of a  *)
(* stream arrive before it ends.  What the handshake bytes say is a choice *)
(* made when they are parsed.                                              *)
(***************************************************************************)
EXTENDS Integers

(* "up" carries the client's bytes to the destination, "down" the answers. *)
Dirs == {"up", "down"}

CONSTANTS kMaxBufferSize,   \* a full buffer stops the reads that feed it
          ReadLimit,        \* the most one read returns: what ReserveAtLeast sets aside
          MethodCounts,     \* NMETHODS of the greeting
          MaxTraffic        \* bound: MaxTraffic[d] bytes are sent beyond the handshake

ASSUME BufferAssumption ==
    /\ kMaxBufferSize \in Nat \ {0}
    /\ ReadLimit \in Nat \ {0}
    /\ MethodCounts \subseteq 1..255
    /\ MaxTraffic \in [Dirs -> Nat]

Peers == {"client", "dest"}
Source(d) == IF d = "up" THEN "client" ELSE "dest"
Sink(d) == IF d = "up" THEN "dest" ELSE "client"

ReadOp(d) == IF d = "up" THEN "clientRead" ELSE "destRead"
WriteOp(d) == IF d = "up" THEN "destWrite" ELSE "clientWrite"
ReadOps == {"clientRead", "destRead"}
WriteOps == {"clientWrite", "destWrite"}
Ops == {"handshake", "connect", "accept", "wait"} \cup ReadOps \cup WriteOps

HandshakeStates == {"GreetingHeader", "GreetingMethods", "RequestHeader", "RequestAddr",
                    "RequestBind", "WaitConnect", "WaitAccept", "Success", "Fail"}

VARIABLES
    state,      \* state_ of Socks5State
    required,   \* required_size_
    loop,       \* TRUE while Socks5HandshakeHandler's loop holds the strand
    buff,       \* buff[d]: data_size() of upstream_buff_ and downstream_buff_
    readable,   \* the directions whose source may be read (client_readable_, dest_readable_)
    writable,   \* the directions whose sink may be written (dest_writable_, client_writable_)
    op,         \* op[o]: where the asynchronous operation o is
    outcome,    \* outcome[o]: the error_code its handler is given
    bytes       \* bytes[o]: what a pending write may take, what a done operation moved

bridgeVars == <<state, required, loop, buff, readable, writable, op, outcome, bytes>>

VARIABLES
    end,        \* end[p]: "none" before the socket exists, "open", "fin" or "reset"
    in,         \* in[p]: bytes received from p and not yet read
    fin,        \* the peers to which the bridge has shut down sending
    cut,        \* the peers from which the bridge has shut down receiving
    parsed,     \* bytes of the client taken by the handshake
    sent,       \* sent[d]: bytes the source of d has sent
    delivered,  \* delivered[d]: bytes handed to the sink of d
    reply       \* the last reply: "none", "ok", "error" (REP = 1) or "failed" to send

peerVars == <<end, in, fin, cut, parsed, sent, delivered, reply>>
vars == <<bridgeVars, peerVars>>

TypeOK ==
    /\ state \in HandshakeStates
    /\ required \in 0..255
    /\ loop \in BOOLEAN
    /\ buff \in [Dirs -> Nat]
    /\ readable \subseteq Dirs
    /\ writable \subseteq Dirs
    /\ op \in [Ops -> {"idle", "pending", "done"}]
    /\ outcome \in [Ops -> {"ok", "eof", "error", "canceled"}]
    /\ bytes \in [Ops -> Nat]
    /\ end \in [Peers -> {"none", "open", "fin", "reset"}]
    /\ in \in [Peers -> Nat]
    /\ fin \subseteq Peers
    /\ cut \subseteq Peers
    /\ parsed \in Nat
    /\ sent \in [Dirs -> Nat]
    /\ delivered \in [Dirs -> Nat]
    /\ reply \in {"none", "ok", "error", "failed"}

(* The bridge lives as long as a handler of it is running or outstanding.  *)
Alive == loop \/ \E o \in Ops : op[o] # "idle"

(* PerformSocks5Handshake has started the first read of the client.        *)
Init ==
    /\ state = "GreetingHeader"
    /\ required = 2
    /\ loop = FALSE
    /\ buff = [d \in Dirs |-> 0]
    /\ readable = Dirs
    /\ writable = Dirs
    /\ op = [o \in Ops |-> IF o = "handshake" THEN "pending" ELSE "idle"]
    /\ outcome = [o \in Ops |-> "ok"]
    /\ bytes = [o \in Ops |-> 0]
    /\ end = [p \in Peers |-> IF p = "client" THEN "open" ELSE "none"]
    /\ in = [p \in Peers |-> 0]
    /\ fin = {}
    /\ cut = {}
    /\ parsed = 0
    /\ sent = [d \in Dirs |-> 0]
    /\ delivered = [d \in Dirs |-> 0]
    /\ reply = "none"

----------------------------------------------------------------------------
(* The peers and the kernel.                                               *)

(* A peer sends while it is open.  A client's bytes are its handshake and, *)
(* from the byte the handshake does not take, traffic.  What a peer does   *)
(* after the sockets are closed is of no interest.                         *)
SendLimit(d) == IF d = "up" THEN parsed + required + MaxTraffic[d] ELSE MaxTraffic[d]

PeerSends(d) ==
    /\ Alive
    /\ end[Source(d)] = "open"
    /\ \E n \in 1..(SendLimit(d) - sent[d]) :
          /\ sent' = [sent EXCEPT ![d] = @ + n]
          /\ in' = [in EXCEPT ![Source(d)] = @ + n]
    /\ UNCHANGED <<bridgeVars, end, fin, cut, parsed, delivered, reply>>

PeerEnds(p, how) ==
    /\ Alive
    /\ end[p] = "open" \/ (end[p] = "fin" /\ how = "reset")
    /\ end' = [end EXCEPT ![p] = how]
    /\ UNCHANGED <<bridgeVars, in, fin, cut, parsed, sent, delivered, reply>>

(* A pending operation completes: its handler is queued on the strand.     *)
Completes(o, res, n) ==
    /\ op[o] = "pending"
    /\ op' = [op EXCEPT ![o] = "done"]
    /\ outcome' = [outcome EXCEPT ![o] = res]
    /\ bytes' = [bytes EXCEPT ![o] = n]
    /\ UNCHANGED <<state, required, loop, buff, readable, writable,
                   fin, cut, parsed, sent, reply>>

SmallerOf(m, n) == IF m < n THEN m ELSE n

ReadCompletes(o, p) ==
    /\ \/ \E n \in 1..SmallerOf(in[p], ReadLimit) :
             /\ Completes(o, "ok", n)
             /\ in' = [in EXCEPT ![p] = @ - n]
       \/ /\ in[p] = 0
          /\ end[p] = "fin" \/ p \in cut
          /\ Completes(o, "eof", 0)
          /\ UNCHANGED in
       \/ /\ end[p] = "reset"
          /\ Completes(o, "error", 0)
          /\ UNCHANGED in
    /\ UNCHANGED <<end, delivered>>

WriteCompletes(d) ==
    LET p == Sink(d) IN
    /\ \/ /\ end[p] # "reset"
          /\ p \notin fin
          /\ \E n \in 1..bytes[WriteOp(d)] :
                /\ Completes(WriteOp(d), "ok", n)
                /\ delivered' = [delivered EXCEPT ![d] = @ + n]
       \/ /\ end[p] = "reset" \/ p \in fin
          /\ Completes(WriteOp(d), "error", 0)
          /\ UNCHANGED delivered
    /\ UNCHANGED <<end, in>>

ConnectCompletes ==
    /\ \/ /\ Completes("connect", "ok", 0)
          /\ end' = [end EXCEPT !["dest"] = "open"]
       \/ /\ Completes("connect", "error", 0)
          /\ UNCHANGED end
    /\ UNCHANGED <<in, delivered>>

AcceptCompletes ==
    /\ \/ /\ Completes("accept", "ok", 0)
          /\ end' = [end EXCEPT !["dest"] = "open"]
       \/ /\ Completes("accept", "error", 0)
          /\ UNCHANGED end
    /\ UNCHANGED <<in, delivered>>

(* wait_read ends when there is anything to read: bytes, the end or a reset. *)
WaitCompletes ==
    /\ in["client"] > 0 \/ end["client"] # "open"
    /\ Completes("wait", "ok", 0)
    /\ UNCHANGED <<end, in, delivered>>

----------------------------------------------------------------------------
(* Forwarding.                                                             *)

(* ForwardTraffic, the last call of every forwarding handler: start the    *)
(* reads and writes that the new flags and buffers allow and that are not  *)
(* outstanding in idleOps.                                                 *)
StartsRead_NoLimit(d, ops) ==      \* mutant: a full buffer does not stop reads
    /\ ops[ReadOp(d)] = "idle"
    /\ d \in readable'
    /\ d \in writable'

StartsRead(d, ops) ==
    /\ ops[ReadOp(d)] = "idle"
    /\ d \in readable'
    /\ d \in writable'
    /\ buff'[d] < kMaxBufferSize

StartsWrite_NewDataOnly(d, ops) ==     \* mutant: what a write left over is not retried
    /\ ops[WriteOp(d)] = "idle"
    /\ d \in writable'
    /\ buff'[d] > buff[d]

StartsWrite(d, ops) ==
    /\ ops[WriteOp(d)] = "idle"
    /\ d \in writable'
    /\ buff'[d] > 0

ForwardTraffic(ops) ==
    /\ op' = [o \in Ops |->
                 IF \E d \in Dirs : \/ o = ReadOp(d) /\ StartsRead(d, ops)
                                    \/ o = WriteOp(d) /\ StartsWrite(d, ops)
                 THEN "pending" ELSE ops[o]]
    /\ bytes' = [o \in Ops |-> IF ops[o] # "idle" THEN bytes[o]
                               ELSE IF \E d \in Dirs : o = WriteOp(d) /\ StartsWrite(d, ops)
                               THEN buff'[IF o = "destWrite" THEN "up" ELSE "down"]
                               ELSE 0]

ReadHandler_FinAtEof(d) ==         \* mutant: the end is passed on before the data
    LET o == ReadOp(d)
        failed == outcome[o] # "ok" IN
    /\ ~loop
    /\ op[o] = "done"
    /\ buff' = [buff EXCEPT ![d] = @ + bytes[o]]
    /\ readable' = IF failed THEN readable \ {d} ELSE readable
    /\ fin' = IF failed THEN fin \cup {Sink(d)} ELSE fin
    /\ UNCHANGED writable
    /\ ForwardTraffic([op EXCEPT ![o] = "idle"])
    /\ UNCHANGED <<state, required, loop, outcome, end, in, cut, parsed, sent, delivered, reply>>

(* ClientReadHandler and DestReadHandler.                                  *)
ReadHandler(d) ==
    LET o == ReadOp(d)
        failed == outcome[o] # "ok" IN
    /\ ~loop
    /\ op[o] = "done"
    /\ buff' = [buff EXCEPT ![d] = @ + bytes[o]]
    /\ readable' = IF failed THEN readable \ {d} ELSE readable
    /\ fin' = IF failed /\ buff'[d] = 0 THEN fin \cup {Sink(d)} ELSE fin
    /\ UNCHANGED writable
    /\ ForwardTraffic([op EXCEPT ![o] = "idle"])
    /\ UNCHANGED <<state, required, loop, outcome, end, in, cut, parsed, sent, delivered, reply>>

ClientReadHandler == ReadHandler("up")
DestReadHandler == ReadHandler("down")

WriteHandler_NoDrain(d) ==         \* mutant: what was written stays in the buffer
    LET o == WriteOp(d)
        failed == outcome[o] # "ok"
        finished == d \notin readable /\ buff[d] = 0 IN
    /\ ~loop
    /\ op[o] = "done"
    /\ cut' = IF failed THEN cut \cup {Source(d)} ELSE cut
    /\ writable' = IF failed \/ finished THEN writable \ {d} ELSE writable
    /\ fin' = IF finished THEN fin \cup {Sink(d)} ELSE fin
    /\ UNCHANGED <<buff, readable>>
    /\ ForwardTraffic([op EXCEPT ![o] = "idle"])
    /\ UNCHANGED <<state, required, loop, outcome, end, in, parsed, sent, delivered, reply>>

WriteHandler_NoFin(d) ==           \* mutant: the last write does not pass the end on
    LET o == WriteOp(d)
        failed == outcome[o] # "ok" IN
    /\ ~loop
    /\ op[o] = "done"
    /\ buff' = [buff EXCEPT ![d] = @ - bytes[o]]
    /\ cut' = IF failed THEN cut \cup {Source(d)} ELSE cut
    /\ writable' = IF failed THEN writable \ {d} ELSE writable
    /\ UNCHANGED <<fin, readable>>
    /\ ForwardTraffic([op EXCEPT ![o] = "idle"])
    /\ UNCHANGED <<state, required, loop, outcome, end, in, parsed, sent, delivered, reply>>

(* DestWriteHandler and ClientWriteHandler.                                *)
WriteHandler(d) ==
    LET o == WriteOp(d)
        failed == outcome[o] # "ok"
        finished == d \notin readable /\ buff'[d] = 0 IN
    /\ ~loop
    /\ op[o] = "done"
    /\ buff' = [buff EXCEPT ![d] = @ - bytes[o]]
    /\ cut' = IF failed THEN cut \cup {Source(d)} ELSE cut
    /\ writable' = IF failed \/ finished THEN writable \ {d} ELSE writable
    /\ fin' = IF finished THEN fin \cup {Sink(d)} ELSE fin
    /\ UNCHANGED readable
    /\ ForwardTraffic([op EXCEPT ![o] = "idle"])
    /\ UNCHANGED <<state, required, loop, outcome, end, in, parsed, sent, delivered, reply>>

DestWriteHandler == WriteHandler("up")
ClientWriteHandler == WriteHandler("down")

----------------------------------------------------------------------------
(* The handshake.                                                          *)

InsufficientBuffer == buff["up"] < required

(* A reply is written synchronously: it fails if the client is gone.       *)
ReplySent == end["client"] # "reset"

(* Socks5HandshakeHandler, up to its loop.                                 *)
Socks5HandshakeHandler ==
    /\ ~loop
    /\ op["handshake"] = "done"
    /\ op' = [op EXCEPT !["handshake"] = "idle"]
    /\ buff' = [buff EXCEPT !["up"] = @ + bytes["handshake"]]
    /\ bytes' = [bytes EXCEPT !["handshake"] = 0]
    /\ loop' = (outcome["handshake"] = "ok")
    /\ UNCHANGED <<state, required, readable, writable, outcome, peerVars>>

(* Proceed takes the bytes it has required; the parts of it below are the  *)
(* cases of its switch.                                                    *)
Takes(s) ==
    /\ loop
    /\ ~InsufficientBuffer
    /\ state = s
    /\ buff' = [buff EXCEPT !["up"] = @ - required]
    /\ parsed' = parsed + required

(* Proceed made a transition and the loop calls it again, ...              *)
Continues(s, n) ==
    /\ state' = s
    /\ required' = n
    /\ UNCHANGED <<loop, op>>

(* ... or it returned false: the loop ends, and the handler reads the      *)
(* client again if the buffer has less than required_size_, whatever the   *)
(* state.                                                                  *)
Returns(s, n, ops) ==
    /\ state' = s
    /\ required' = n
    /\ loop' = FALSE
    /\ op' = IF buff'["up"] < n THEN [ops EXCEPT !["handshake"] = "pending"] ELSE ops

GreetingHeader ==
    /\ Takes("GreetingHeader")
    /\ \/ \E n \in MethodCounts : Continues("GreetingMethods", n)
       \/ Returns("Fail", required, op)
    /\ UNCHANGED <<readable, writable, outcome, bytes, end, in, fin, cut, sent, delivered, reply>>

GreetingMethods ==
    /\ Takes("GreetingMethods")
    /\ \/ ReplySent /\ Continues("RequestHeader", 4)
       \/ Returns("Fail", required, op)     \* no acceptable method, or the reply failed
    /\ UNCHANGED <<readable, writable, outcome, bytes, end, in, fin, cut, sent, delivered, reply>>

(* The size of an IPv4 or IPv6 address and a port.                         *)
AddrSizes == {6, 18}

RequestHeader ==
    /\ Takes("RequestHeader")
    /\ \/ \E s \in {"RequestAddr", "RequestBind"}, n \in AddrSizes : Continues(s, n)
       \/ Returns("Fail", required, op)
    /\ UNCHANGED <<readable, writable, outcome, bytes, end, in, fin, cut, sent, delivered, reply>>

(* kRequestAddrV4 and kRequestAddrV6, whose connect callback starts        *)
(* connecting and answers kStatusInProgress.                               *)
RequestAddr ==
    /\ Takes("RequestAddr")
    /\ Returns("WaitConnect", 0, [op EXCEPT !["connect"] = "pending"])
    /\ UNCHANGED <<readable, writable, outcome, bytes, end, in, fin, cut, sent, delivered, reply>>

(* kRequestBind.  The bind callback starts accepting and watching the      *)
(* client before the reply is sent.                                        *)
RequestBind ==
    LET waiting == [op EXCEPT !["accept"] = "pending", !["wait"] = "pending"] IN
    /\ Takes("RequestBind")
    /\ \/ Returns("Fail", 0, op)            \* no acceptor on that port
       \/ ReplySent /\ Returns("WaitAccept", 0, waiting)
       \/ ~ReplySent /\ Returns("Fail", 0, waiting)
    /\ UNCHANGED <<readable, writable, outcome, bytes, end, in, fin, cut, sent, delivered, reply>>

(* Proceed without the bytes it needs, and in state kFail.                 *)
ProceedStops ==
    /\ loop
    /\ \/ InsufficientBuffer /\ UNCHANGED buff /\ Returns(state, required, op)
       \/ ~InsufficientBuffer /\ state = "Fail" /\ UNCHANGED buff /\ Returns("Fail", 0, op)
    /\ UNCHANGED <<readable, writable, outcome, bytes, peerVars>>

(* CreateResp asks for the address of the destination's socket, for BIND   *)
(* that of its peer, and reports an error (REP = 1) if there is none.      *)
CreateResp == IF state = "WaitAccept" /\ end["dest"] = "reset" THEN "error" ELSE "ok"

(* Socks5State::ConnectionSucceed: a reply that cannot be sent sets kFail, *)
(* which the next line overwrites.                                         *)
ConnectionSucceed ==
    /\ state' = "Success"
    /\ reply' = IF ReplySent THEN CreateResp ELSE "failed"

ConnectHandler ==
    LET ops == [op EXCEPT !["connect"] = "idle"] IN
    /\ ~loop
    /\ op["connect"] = "done"
    /\ UNCHANGED <<buff, readable, writable>>
    /\ \/ /\ outcome["connect"] = "ok"
          /\ ConnectionSucceed
          /\ ForwardTraffic(ops)
       \/ /\ outcome["connect"] # "ok"
          /\ op' = ops
          /\ UNCHANGED <<state, bytes, reply>>
    /\ UNCHANGED <<required, loop, outcome, end, in, fin, cut, parsed, sent, delivered>>

Cancelled_Never(o, ops) == ops     \* mutant: a cancellation is forgotten
CancelOutcome_AlsoDone(o) ==       \* mutant: cancels what has completed as well
    IF op[o] # "idle" THEN [outcome EXCEPT ![o] = "canceled"] ELSE outcome

(* Cancelling a pending operation completes it with operation_aborted; one *)
(* that has completed is not affected.                                     *)
Cancelled(o, ops) == IF ops[o] = "pending" THEN [ops EXCEPT ![o] = "done"] ELSE ops
CancelOutcome(o) == IF op[o] = "pending" THEN [outcome EXCEPT ![o] = "canceled"] ELSE outcome

(* The handler of async_accept: AcceptInboundConnection, or                *)
(* StopWaitingInbound(false).  Either way client_sock_.cancel() ends the   *)
(* watch on the client.                                                    *)
AcceptHandler ==
    LET ops == Cancelled("wait", [op EXCEPT !["accept"] = "idle"]) IN
    /\ ~loop
    /\ op["accept"] = "done"
    /\ outcome' = CancelOutcome("wait")
    /\ UNCHANGED <<buff, readable, writable>>
    /\ \/ /\ outcome["accept"] = "ok"
          /\ state = "WaitAccept"
          /\ ConnectionSucceed
          /\ ForwardTraffic(ops)
       \/ /\ outcome["accept"] # "ok" \/ state # "WaitAccept"
          /\ op' = ops
          /\ state' = IF outcome["accept"] = "ok" THEN "Fail" ELSE state
          /\ UNCHANGED <<bytes, reply>>
    /\ UNCHANGED <<required, loop, end, in, fin, cut, parsed, sent, delivered>>

(* The handler of the watch on the client: StopWaitingInbound() cancels    *)
(* the accept unless the watch was itself cancelled.                       *)
WaitHandler ==
    LET ops == [op EXCEPT !["wait"] = "idle"] IN
    /\ ~loop
    /\ op["wait"] = "done"
    /\ \/ /\ outcome["wait"] # "canceled"
          /\ op' = Cancelled("accept", ops)
          /\ outcome' = CancelOutcome("accept")
       \/ /\ outcome["wait"] = "canceled"
          /\ op' = ops
          /\ UNCHANGED outcome
    /\ UNCHANGED <<state, required, loop, buff, readable, writable, bytes, peerVars>>

----------------------------------------------------------------------------
Handlers ==
    \/ Socks5HandshakeHandler
    \/ GreetingHeader \/ GreetingMethods \/ RequestHeader \/ RequestAddr \/ RequestBind
    \/ ProceedStops
    \/ ConnectHandler \/ AcceptHandler \/ WaitHandler
    \/ ClientReadHandler \/ DestReadHandler
    \/ ClientWriteHandler \/ DestWriteHandler

Kernel ==
    \/ ReadCompletes("handshake", "client")
    \/ \E d \in Dirs : ReadCompletes(ReadOp(d), Source(d)) \/ WriteCompletes(d)
    \/ ConnectCompletes
    \/ WaitCompletes

PeersMove ==
    \/ AcceptCompletes
    \/ \E d \in Dirs : PeerSends(d)
    \/ \E p \in Peers, how \in {"fin", "reset"} : PeerEnds(p, how)

Next == Handlers \/ Kernel \/ PeersMove

Spec == Init /\ [][Next]_vars

(* The threads that run the io_context keep running handlers; the kernel   *)
(* completes an operation whose result is there, and gives up a connection *)
(* attempt in the end.  Nothing makes a peer send, read its end or arrive. *)
FairSpec == Spec /\ WF_vars(Handlers) /\ WF_vars(Kernel)

----------------------------------------------------------------------------
(* Properties.                                                             *)

(* What a completed operation has moved and its handler has not yet seen.  *)
Unseen(o) == IF op[o] = "done" THEN bytes[o] ELSE 0

(* No byte is lost, invented or sent twice on its way through the bridge:  *)
(* what a peer sent is still in the kernel, or was taken by the handshake, *)
(* or is in a buffer, or was handed to the other side - whatever the order *)
(* in which the kernel completes the reads and writes and their handlers   *)
(* run (Commit and Drain of proxy_bridge.cc:67-214).                       *)
Conservation ==
    /\ sent["up"] = in["client"] + Unseen("handshake") + Unseen("clientRead") + parsed
                    + buff["up"] + delivered["up"] - Unseen("destWrite")
    /\ sent["down"] = in["dest"] + Unseen("destRead")
                      + buff["down"] + delivered["down"] - Unseen("clientWrite")

Undisturbed == \A p \in Peers : end[p] # "reset"
Traffic(d) == IF d = "up" THEN sent[d] - parsed ELSE sent[d]

(* A stream is never cut short: unless a peer resets its connection, the   *)
(* end of a stream is passed on (shutdown_send, proxy_bridge.cc:147-150,   *)
(* 169-172, 188-191, 209-212) only when the source has ended it and its    *)
(* last byte has been handed over.                                         *)
FinFollowsData ==
    \A d \in Dirs :
        Sink(d) \in fin /\ Undisturbed => end[Source(d)] = "fin" /\ delivered[d] = Traffic(d)

(* The bridge has no owner but its outstanding operations, so a session    *)
(* that started forwarding must not run out of them early: when it is      *)
(* destroyed and no peer was reset, both peers have ended their streams,   *)
(* and everything they sent, and both ends, have been passed on.           *)
EndsWhenDone ==
    state = "Success" /\ ~Alive /\ Undisturbed =>
        \A d \in Dirs :
            /\ end[Source(d)] = "fin"
            /\ delivered[d] = Traffic(d)
            /\ Sink(d) \in fin

(* The bridge does not write to a socket it has shut down for sending: a   *)
(* write there would fail and be taken for a failure of the peer.          *)
NoWriteAfterFin ==
    \A d \in Dirs : op[WriteOp(d)] = "pending" => Sink(d) \notin fin

(* A slow sink holds back its source: once traffic is forwarded a buffer   *)
(* exceeds the limit at which reads stop by less than one read, also when  *)
(* the client sent its first traffic together with its handshake           *)
(* (proxy_bridge.cc:77-84, 94-95, 114-115).                                *)
BufferBounded ==
    state = "Success" =>
        \A d \in Dirs : buff[d] + Unseen(ReadOp(d)) < kMaxBufferSize + ReadLimit

(* An inbound connection that was accepted for a BIND request is served,   *)
(* unless the client could not be told of the binding: the watch on the    *)
(* client that fires at the same moment cancels nothing (proxy_bridge.cc:  *)
(* 278-299, 304-324).                                                      *)
AcceptedIsServed ==
    end["dest"] # "none" /\ op["connect"] = "idle" /\ op["accept"] = "idle" =>
        state = "Success" \/ (state = "Fail" /\ ~ReplySent)

(* "Return true if subsequent handshake states succeeded"                  *)
(* (socks5_state.h:104): the handshake succeeds only if its final reply    *)
(* was sent.                                                               *)
SuccessMeansReplied == state = "Success" => reply # "failed"

(* A session does not outlive its peers: when the client has ended, the    *)
(* bridge is destroyed, or there is a destination that has not ended.      *)
SessionEnds == end["client"] # "open" ~> ~Alive \/ end["dest"] = "open"

(* No stream stalls: what a peer has sent is handed over in the end, also  *)
(* when a full buffer had stopped the reads, unless a peer is reset.       *)
EveryByteArrives ==
    state = "Success" ~> ~Undisturbed \/ \A d \in Dirs : delivered[d] = Traffic(d)

----------------------------------------------------------------------------
(* The inductive invariant behind the safety properties.                   *)

Parsing == {"GreetingHeader", "GreetingMethods", "RequestHeader", "RequestAddr", "RequestBind"}
Forwarding == ReadOps \cup WriteOps

(* Which operations may be outstanding in which state of the handshake.    *)
ControlInv ==
    /\ loop => state \in Parsing \cup {"Fail"} /\ \A o \in Ops : op[o] = "idle"
    /\ op["handshake"] # "idle" =>
          /\ state \in Parsing \cup {"Fail"}
          /\ \A o \in Ops \ {"handshake"} : op[o] = "idle"
    /\ op["connect"] # "idle" =>
          state = "WaitConnect" /\ \A o \in Ops \ {"connect"} : op[o] = "idle"
    /\ op["accept"] # "idle" =>
          /\ state \in {"WaitAccept", "Fail"}
          /\ \A o \in Ops \ {"accept", "wait"} : op[o] = "idle"
    /\ op["wait"] # "idle" => state \in {"WaitAccept", "Fail", "Success"}
    /\ state = "Fail" /\ op["accept"] # "idle" => ~ReplySent
    /\ state # "Success" =>
          /\ \A o \in Forwarding : op[o] = "idle"
          /\ readable = Dirs /\ writable = Dirs
          /\ fin = {} /\ cut = {}
          /\ \A d \in Dirs : delivered[d] = 0
          /\ buff["down"] = 0

(* What the operations in flight carry.                                    *)
BytesOf(d) ==
    /\ op[ReadOp(d)] = "pending" => bytes[ReadOp(d)] = 0
    /\ op[ReadOp(d)] = "done" /\ outcome[ReadOp(d)] # "ok" => bytes[ReadOp(d)] = 0
    /\ bytes[ReadOp(d)] <= ReadLimit
    /\ op[WriteOp(d)] # "idle" => buff[d] > 0 /\ bytes[WriteOp(d)] <= buff[d]

BytesInv ==
    /\ \A o \in Ops : op[o] = "idle" \/ o \in {"connect", "accept", "wait"} => bytes[o] = 0
    /\ op["handshake"] = "pending" => bytes["handshake"] = 0
    /\ op["handshake"] = "done" /\ outcome["handshake"] # "ok" => bytes["handshake"] = 0
    /\ bytes["handshake"] <= ReadLimit
    /\ \A d \in Dirs : BytesOf(d)

(* How full the buffers can be.                                            *)
FillOf(d) ==
    /\ op[ReadOp(d)] # "idle" => buff[d] < kMaxBufferSize
    /\ op[ReadOp(d)] = "idle" => buff[d] < kMaxBufferSize + ReadLimit

FillInv ==
    /\ op["handshake"] # "idle" => buff["up"] < required
    /\ loop => buff["up"] < required + ReadLimit
    /\ state \in {"WaitConnect", "WaitAccept"} => buff["up"] < ReadLimit
    /\ state = "Success" => \A d \in Dirs : FillOf(d)

(* Unless a peer was reset, a stream that is no longer read was ended by   *)
(* its source and read to its end, and a sink is given up only once it has *)
(* everything.                                                             *)
StreamOf(d) ==
    /\ d \notin readable => op[ReadOp(d)] = "idle"
    /\ Sink(d) \in fin => d \notin readable /\ buff[d] = 0
    /\ d \notin readable /\ buff[d] = 0 => Sink(d) \in fin
    /\ Undisturbed =>
          /\ Source(d) \notin cut
          /\ op[WriteOp(d)] = "done" => outcome[WriteOp(d)] = "ok"
          /\ d \notin readable => end[Source(d)] = "fin" /\ in[Source(d)] = 0
          /\ op[ReadOp(d)] = "done" /\ outcome[ReadOp(d)] # "ok" =>
                end[Source(d)] = "fin" /\ in[Source(d)] = 0
          /\ d \notin writable => Sink(d) \in fin

StreamInv == \A d \in Dirs : StreamOf(d)

(* Everything that can be started has been started.                        *)
BusyOf(d) ==
    /\ d \in writable /\ buff[d] > 0 => op[WriteOp(d)] # "idle"
    /\ d \in readable /\ d \in writable /\ buff[d] < kMaxBufferSize => op[ReadOp(d)] # "idle"

BusyInv == state = "Success" => \A d \in Dirs : BusyOf(d)

(* A destination exists once a connect or an accept has succeeded.         *)
DestInv ==
    /\ end["dest"] # "none" =>
          \/ state = "Success"
          \/ op["connect"] = "done" /\ outcome["connect"] = "ok"
          \/ op["accept"] = "done" /\ outcome["accept"] = "ok"
          \/ state = "Fail" /\ ~ReplySent
    /\ state = "Success" => end["dest"] # "none"
    /\ op["connect"] = "done" /\ outcome["connect"] = "ok" => end["dest"] # "none"
    /\ op["accept"] = "done" /\ outcome["accept"] = "ok" => end["dest"] # "none"
    /\ end["client"] # "none"

IInv ==
    /\ TypeOK /\ Conservation
    /\ ControlInv /\ BytesInv /\ FillInv /\ StreamInv /\ BusyInv /\ DestInv

=============================================================================
