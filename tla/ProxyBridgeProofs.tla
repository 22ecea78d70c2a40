------------------------- MODULE ProxyBridgeProofs -------------------------
(***************************************************************************)
(* The proofs about the proxy.  ProxyBridge: IInv is inductive, and the    *)
(* safety properties follow from it, for every buffer size and every       *)
(* amount of traffic.  TrafficBuffer: BufferInv is inductive, the safety   *)
(* properties follow from it, and the chain of blocks implements ByteQueue.*)
(***************************************************************************)
EXTENDS ProxyBridge, TrafficBuffer, TLAPS

USE DEF Dirs, Peers, Source, Sink, ReadOp, WriteOp, ReadOps, WriteOps, Ops

Outcomes == {"ok", "eof", "error", "canceled"}

----------------------------------------------------------------------------
(* The kernel and the peers.                                               *)

(* A completion keeps the types of what it touches ...                     *)
LEMMA CompletesType ==
    ASSUME TypeOK, NEW o \in Ops, NEW res \in Outcomes, NEW n \in Nat, Completes(o, res, n)
    PROVE  /\ state' \in HandshakeStates
           /\ required' \in 0..255
           /\ loop' \in BOOLEAN
           /\ buff' \in [Dirs -> Nat]
           /\ readable' \subseteq Dirs /\ writable' \subseteq Dirs
           /\ op' \in [Ops -> {"idle", "pending", "done"}]
           /\ outcome' \in [Ops -> {"ok", "eof", "error", "canceled"}]
           /\ bytes' \in [Ops -> Nat]
           /\ fin' \subseteq Peers /\ cut' \subseteq Peers
           /\ parsed' \in Nat
           /\ sent' \in [Dirs -> Nat]
           /\ reply' \in {"none", "ok", "error", "failed"}
  BY DEF TypeOK, Completes, Outcomes

(* ... and which operations are outstanding.                               *)
LEMMA CompletesControl ==
    ASSUME TypeOK, ControlInv, NEW o \in Ops, NEW res, NEW n, Completes(o, res, n),
           end'["client"] = end["client"], delivered' = delivered
    PROVE  ControlInv'
<1>1. \A x \in Ops : op'[x] = "idle" <=> op[x] = "idle"
  BY DEF TypeOK, Completes
<1>. QED BY <1>1 DEF Completes, ControlInv, Forwarding, ReplySent

(* A peer sends: only what waits in the kernel grows.                      *)
LEMMA PeerSendsStep ==
    ASSUME IInv, NEW d \in Dirs, PeerSends(d)
    PROVE  IInv'
<1>1. TypeOK'
  BY BufferAssumption DEF IInv, TypeOK, HandshakeStates, PeerSends, SendLimit, bridgeVars
<1>2. Conservation'
  BY BufferAssumption DEF IInv, TypeOK, HandshakeStates, Conservation, Unseen, ControlInv,
        Parsing, Forwarding, ReplySent, BytesInv, BytesOf, PeerSends, SendLimit, bridgeVars
<1>3. ControlInv'
  BY BufferAssumption DEF IInv, TypeOK, HandshakeStates, ControlInv, Parsing, Forwarding,
        ReplySent, PeerSends, SendLimit, bridgeVars
<1>4. BytesInv'
  BY BufferAssumption DEF IInv, TypeOK, HandshakeStates, BytesInv, BytesOf, ControlInv,
        Parsing, Forwarding, ReplySent, PeerSends, SendLimit, bridgeVars
<1>5. FillInv'
  BY BufferAssumption DEF IInv, TypeOK, HandshakeStates, FillInv, FillOf, ControlInv,
        Parsing, Forwarding, ReplySent, BytesInv, BytesOf, PeerSends, SendLimit, bridgeVars
<1>6. StreamInv'
  BY BufferAssumption DEF IInv, TypeOK, HandshakeStates, StreamInv, StreamOf, Undisturbed,
        ControlInv, Parsing, Forwarding, ReplySent, BytesInv, BytesOf, PeerSends, SendLimit,
        bridgeVars
<1>7. BusyInv'
  BY BufferAssumption DEF IInv, TypeOK, HandshakeStates, BusyInv, BusyOf, ControlInv,
        Parsing, Forwarding, ReplySent, PeerSends, SendLimit, bridgeVars
<1>8. DestInv'
  BY BufferAssumption DEF IInv, TypeOK, HandshakeStates, DestInv, ReplySent, ControlInv,
        Parsing, Forwarding, PeerSends, SendLimit, bridgeVars
<1>. QED BY <1>1, <1>2, <1>3, <1>4, <1>5, <1>6, <1>7, <1>8 DEF IInv

(* A peer ends or resets its stream.                                       *)
LEMMA PeerEndsStep ==
    ASSUME IInv, NEW p \in Peers, NEW how \in {"fin", "reset"}, PeerEnds(p, how)
    PROVE  IInv'
<1>1. TypeOK'
  BY BufferAssumption DEF IInv, TypeOK, HandshakeStates, PeerEnds, bridgeVars
<1>2. Conservation'
  BY BufferAssumption DEF IInv, TypeOK, HandshakeStates, Conservation, Unseen, ControlInv,
        Parsing, Forwarding, ReplySent, BytesInv, BytesOf, PeerEnds, bridgeVars
<1>3. ControlInv'
  BY BufferAssumption DEF IInv, TypeOK, HandshakeStates, ControlInv, Parsing, Forwarding,
        ReplySent, PeerEnds, bridgeVars
<1>4. BytesInv'
  BY BufferAssumption DEF IInv, TypeOK, HandshakeStates, BytesInv, BytesOf, ControlInv,
        Parsing, Forwarding, ReplySent, PeerEnds, bridgeVars
<1>5. FillInv'
  BY BufferAssumption DEF IInv, TypeOK, HandshakeStates, FillInv, FillOf, ControlInv,
        Parsing, Forwarding, ReplySent, BytesInv, BytesOf, PeerEnds, bridgeVars
<1>6. StreamInv'
  BY BufferAssumption DEF IInv, TypeOK, HandshakeStates, StreamInv, StreamOf, Undisturbed,
        ControlInv, Parsing, Forwarding, ReplySent, BytesInv, BytesOf, PeerEnds, bridgeVars
<1>7. BusyInv'
  BY BufferAssumption DEF IInv, TypeOK, HandshakeStates, BusyInv, BusyOf, ControlInv,
        Parsing, Forwarding, ReplySent, PeerEnds, bridgeVars
<1>8. DestInv'
  BY BufferAssumption DEF IInv, TypeOK, HandshakeStates, DestInv, ReplySent, ControlInv,
        Parsing, Forwarding, PeerEnds, bridgeVars
<1>. QED BY <1>1, <1>2, <1>3, <1>4, <1>5, <1>6, <1>7, <1>8 DEF IInv

(* The kernel completes the read of the handshake.                         *)
LEMMA HandshakeReadCompletesStep ==
    ASSUME IInv, ReadCompletes("handshake", "client")
    PROVE  IInv'
<1>1. TypeOK'
  <2>1. CASE \E n \in 1..SmallerOf(in["client"], ReadLimit) :
               /\ Completes("handshake", "ok", n)
               /\ in' = [in EXCEPT !["client"] = @ - n]
    <3>1. PICK n \in 1..SmallerOf(in["client"], ReadLimit) :
               /\ Completes("handshake", "ok", n)
               /\ in' = [in EXCEPT !["client"] = @ - n]
      BY <2>1
    <3>2. n \in Nat /\ in["client"] - n \in Nat
      BY BufferAssumption DEF IInv, TypeOK, SmallerOf
    <3>3. in' \in [Peers -> Nat] /\ end' = end /\ delivered' = delivered
      BY <3>1, <3>2 DEF IInv, TypeOK, ReadCompletes
    <3>. QED BY <3>1, <3>2, <3>3, CompletesType DEF IInv, TypeOK, Outcomes
  <2>2. CASE Completes("handshake", "eof", 0) /\ UNCHANGED in
    BY <2>2, CompletesType DEF IInv, TypeOK, Outcomes, ReadCompletes
  <2>3. CASE Completes("handshake", "error", 0) /\ UNCHANGED in
    BY <2>3, CompletesType DEF IInv, TypeOK, Outcomes, ReadCompletes
  <2>. QED BY <2>1, <2>2, <2>3 DEF ReadCompletes
<1>2. Conservation'
  BY BufferAssumption DEF IInv, TypeOK, HandshakeStates, Conservation, Unseen, ControlInv,
        Parsing, Forwarding, ReplySent, BytesInv, BytesOf, ReadCompletes, Completes,
        SmallerOf
<1>3. ControlInv'
  <2>1. \E res \in Outcomes, n \in Nat : Completes("handshake", res, n)
    BY BufferAssumption DEF IInv, TypeOK, ReadCompletes, SmallerOf, Outcomes
  <2>. QED BY <2>1, CompletesControl DEF IInv, ReadCompletes
<1>4. BytesInv'
  BY BufferAssumption DEF IInv, TypeOK, HandshakeStates, BytesInv, BytesOf, ControlInv,
        Parsing, Forwarding, ReplySent, ReadCompletes, Completes, SmallerOf
<1>5. FillInv'
  BY BufferAssumption DEF IInv, TypeOK, HandshakeStates, FillInv, FillOf, ControlInv,
        Parsing, Forwarding, ReplySent, BytesInv, BytesOf, ReadCompletes, Completes,
        SmallerOf
<1>6. StreamInv'
  BY BufferAssumption DEF IInv, TypeOK, HandshakeStates, StreamInv, StreamOf, Undisturbed,
        ControlInv, Parsing, Forwarding, ReplySent, BytesInv, BytesOf, ReadCompletes,
        Completes, SmallerOf
<1>7. BusyInv'
  BY BufferAssumption DEF IInv, TypeOK, HandshakeStates, BusyInv, BusyOf, ControlInv,
        Parsing, Forwarding, ReplySent, ReadCompletes, Completes, SmallerOf
<1>8. DestInv'
  BY BufferAssumption DEF IInv, TypeOK, HandshakeStates, DestInv, ReplySent, ControlInv,
        Parsing, Forwarding, ReadCompletes, Completes, SmallerOf
<1>. QED BY <1>1, <1>2, <1>3, <1>4, <1>5, <1>6, <1>7, <1>8 DEF IInv

(* The kernel completes a read of a forwarding session.                    *)
LEMMA ReadCompletesStep ==
    ASSUME IInv, NEW d \in Dirs, ReadCompletes(ReadOp(d), Source(d))
    PROVE  IInv'
<1>1. TypeOK'
  <2>1. CASE \E n \in 1..SmallerOf(in[Source(d)], ReadLimit) :
               /\ Completes(ReadOp(d), "ok", n)
               /\ in' = [in EXCEPT ![Source(d)] = @ - n]
    <3>1. PICK n \in 1..SmallerOf(in[Source(d)], ReadLimit) :
               /\ Completes(ReadOp(d), "ok", n)
               /\ in' = [in EXCEPT ![Source(d)] = @ - n]
      BY <2>1
    <3>2. n \in Nat /\ in[Source(d)] - n \in Nat
      BY BufferAssumption DEF IInv, TypeOK, SmallerOf
    <3>3. in' \in [Peers -> Nat] /\ end' = end /\ delivered' = delivered
      BY <3>1, <3>2 DEF IInv, TypeOK, ReadCompletes
    <3>. QED BY <3>1, <3>2, <3>3, CompletesType DEF IInv, TypeOK, Outcomes
  <2>2. CASE Completes(ReadOp(d), "eof", 0) /\ UNCHANGED in
    BY <2>2, CompletesType DEF IInv, TypeOK, Outcomes, ReadCompletes
  <2>3. CASE Completes(ReadOp(d), "error", 0) /\ UNCHANGED in
    BY <2>3, CompletesType DEF IInv, TypeOK, Outcomes, ReadCompletes
  <2>. QED BY <2>1, <2>2, <2>3 DEF ReadCompletes
<1>2. Conservation'
  BY BufferAssumption DEF IInv, TypeOK, HandshakeStates, Conservation, Unseen, ControlInv,
        Parsing, Forwarding, ReplySent, BytesInv, BytesOf, ReadCompletes, Completes,
        SmallerOf
<1>3. ControlInv'
  BY BufferAssumption DEF IInv, TypeOK, HandshakeStates, ControlInv, Parsing, Forwarding,
        ReplySent, ReadCompletes, Completes, SmallerOf
<1>4. BytesInv'
  BY BufferAssumption DEF IInv, TypeOK, HandshakeStates, BytesInv, BytesOf, ControlInv,
        Parsing, Forwarding, ReplySent, ReadCompletes, Completes, SmallerOf
<1>5. FillInv'
  BY BufferAssumption DEF IInv, TypeOK, HandshakeStates, FillInv, FillOf, ControlInv,
        Parsing, Forwarding, ReplySent, BytesInv, BytesOf, ReadCompletes, Completes,
        SmallerOf
<1>6. StreamInv'
  BY BufferAssumption DEF IInv, TypeOK, HandshakeStates, StreamInv, StreamOf, Undisturbed,
        ControlInv, Parsing, Forwarding, ReplySent, BytesInv, BytesOf, ReadCompletes,
        Completes, SmallerOf
<1>7. BusyInv'
  BY BufferAssumption DEF IInv, TypeOK, HandshakeStates, BusyInv, BusyOf, ControlInv,
        Parsing, Forwarding, ReplySent, ReadCompletes, Completes, SmallerOf
<1>8. DestInv'
  BY BufferAssumption DEF IInv, TypeOK, HandshakeStates, DestInv, ReplySent, ControlInv,
        Parsing, Forwarding, ReadCompletes, Completes, SmallerOf
<1>. QED BY <1>1, <1>2, <1>3, <1>4, <1>5, <1>6, <1>7, <1>8 DEF IInv

(* The kernel completes a write: some of the buffer has been sent.         *)
LEMMA WriteCompletesStep ==
    ASSUME IInv, NEW d \in Dirs, WriteCompletes(d)
    PROVE  IInv'
<1>1. TypeOK'
  <2>1. CASE \E n \in 1..bytes[WriteOp(d)] :
               /\ Completes(WriteOp(d), "ok", n)
               /\ delivered' = [delivered EXCEPT ![d] = @ + n]
    <3>1. PICK n \in 1..bytes[WriteOp(d)] :
               /\ Completes(WriteOp(d), "ok", n)
               /\ delivered' = [delivered EXCEPT ![d] = @ + n]
      BY <2>1
    <3>2. n \in Nat
      BY DEF IInv, TypeOK
    <3>3. delivered' \in [Dirs -> Nat] /\ end' = end /\ in' = in
      BY <3>1, <3>2 DEF IInv, TypeOK, WriteCompletes
    <3>. QED BY <3>1, <3>2, <3>3, CompletesType DEF IInv, TypeOK, Outcomes
  <2>2. CASE Completes(WriteOp(d), "error", 0) /\ UNCHANGED delivered
    BY <2>2, CompletesType DEF IInv, TypeOK, Outcomes, WriteCompletes
  <2>. QED BY <2>1, <2>2 DEF WriteCompletes
<1>2. Conservation'
  BY BufferAssumption DEF IInv, TypeOK, HandshakeStates, Conservation, Unseen, ControlInv,
        Parsing, Forwarding, ReplySent, BytesInv, BytesOf, WriteCompletes, Completes
<1>3. ControlInv'
  BY BufferAssumption DEF IInv, TypeOK, HandshakeStates, ControlInv, Parsing, Forwarding,
        ReplySent, WriteCompletes, Completes
<1>4. BytesInv'
  BY BufferAssumption DEF IInv, TypeOK, HandshakeStates, BytesInv, BytesOf, ControlInv,
        Parsing, Forwarding, ReplySent, WriteCompletes, Completes
<1>5. FillInv'
  BY BufferAssumption DEF IInv, TypeOK, HandshakeStates, FillInv, FillOf, ControlInv,
        Parsing, Forwarding, ReplySent, BytesInv, BytesOf, WriteCompletes, Completes
<1>6. StreamInv'
  BY BufferAssumption DEF IInv, TypeOK, HandshakeStates, StreamInv, StreamOf, Undisturbed,
        ControlInv, Parsing, Forwarding, ReplySent, BytesInv, BytesOf, WriteCompletes,
        Completes
<1>7. BusyInv'
  BY BufferAssumption DEF IInv, TypeOK, HandshakeStates, BusyInv, BusyOf, ControlInv,
        Parsing, Forwarding, ReplySent, WriteCompletes, Completes
<1>8. DestInv'
  BY BufferAssumption DEF IInv, TypeOK, HandshakeStates, DestInv, ReplySent, ControlInv,
        Parsing, Forwarding, WriteCompletes, Completes
<1>. QED BY <1>1, <1>2, <1>3, <1>4, <1>5, <1>6, <1>7, <1>8 DEF IInv

(* The kernel completes the connect: the destination exists, or not.       *)
LEMMA ConnectCompletesStep ==
    ASSUME IInv, ConnectCompletes
    PROVE  IInv'
<1>1. TypeOK'
  <2>1. end' \in [Peers -> {"none", "open", "fin", "reset"}] /\ in' = in /\ delivered' = delivered
    BY DEF IInv, TypeOK, ConnectCompletes
  <2>2. \E res \in Outcomes : Completes("connect", res, 0)
    BY DEF ConnectCompletes, Outcomes
  <2>. QED BY <2>1, <2>2, CompletesType DEF IInv, TypeOK
<1>2. Conservation'
  BY BufferAssumption DEF IInv, TypeOK, HandshakeStates, Conservation, Unseen, ControlInv,
        Parsing, Forwarding, ReplySent, BytesInv, BytesOf, ConnectCompletes, Completes
<1>3. ControlInv'
  <2>1. end'["client"] = end["client"] /\ delivered' = delivered
    BY DEF IInv, TypeOK, ConnectCompletes
  <2>2. \E res \in Outcomes : Completes("connect", res, 0)
    BY DEF ConnectCompletes, Outcomes
  <2>. QED BY <2>1, <2>2, CompletesControl DEF IInv
<1>4. BytesInv'
  BY BufferAssumption DEF IInv, TypeOK, HandshakeStates, BytesInv, BytesOf, ControlInv,
        Parsing, Forwarding, ReplySent, ConnectCompletes, Completes
<1>5. FillInv'
  BY BufferAssumption DEF IInv, TypeOK, HandshakeStates, FillInv, FillOf, ControlInv,
        Parsing, Forwarding, ReplySent, BytesInv, BytesOf, ConnectCompletes, Completes
<1>6. StreamInv'
  BY BufferAssumption DEF IInv, TypeOK, HandshakeStates, StreamInv, StreamOf, Undisturbed,
        ControlInv, Parsing, Forwarding, ReplySent, BytesInv, BytesOf, ConnectCompletes,
        Completes
<1>7. BusyInv'
  BY BufferAssumption DEF IInv, TypeOK, HandshakeStates, BusyInv, BusyOf, ControlInv,
        Parsing, Forwarding, ReplySent, ConnectCompletes, Completes
<1>8. DestInv'
  BY BufferAssumption DEF IInv, TypeOK, HandshakeStates, DestInv, ReplySent, ControlInv,
        Parsing, Forwarding, ConnectCompletes, Completes
<1>. QED BY <1>1, <1>2, <1>3, <1>4, <1>5, <1>6, <1>7, <1>8 DEF IInv

(* The kernel completes the accept of a BIND request.                      *)
LEMMA AcceptCompletesStep ==
    ASSUME IInv, AcceptCompletes
    PROVE  IInv'
<1>1. TypeOK'
  <2>1. end' \in [Peers -> {"none", "open", "fin", "reset"}] /\ in' = in /\ delivered' = delivered
    BY DEF IInv, TypeOK, AcceptCompletes
  <2>2. \E res \in Outcomes : Completes("accept", res, 0)
    BY DEF AcceptCompletes, Outcomes
  <2>. QED BY <2>1, <2>2, CompletesType DEF IInv, TypeOK
<1>2. Conservation'
  BY BufferAssumption DEF IInv, TypeOK, HandshakeStates, Conservation, Unseen, ControlInv,
        Parsing, Forwarding, ReplySent, BytesInv, BytesOf, AcceptCompletes, Completes
<1>3. ControlInv'
  <2>1. end'["client"] = end["client"] /\ delivered' = delivered
    BY DEF IInv, TypeOK, AcceptCompletes
  <2>2. \E res \in Outcomes : Completes("accept", res, 0)
    BY DEF AcceptCompletes, Outcomes
  <2>. QED BY <2>1, <2>2, CompletesControl DEF IInv
<1>4. BytesInv'
  BY BufferAssumption DEF IInv, TypeOK, HandshakeStates, BytesInv, BytesOf, ControlInv,
        Parsing, Forwarding, ReplySent, AcceptCompletes, Completes
<1>5. FillInv'
  BY BufferAssumption DEF IInv, TypeOK, HandshakeStates, FillInv, FillOf, ControlInv,
        Parsing, Forwarding, ReplySent, BytesInv, BytesOf, AcceptCompletes, Completes
<1>6. StreamInv'
  BY BufferAssumption DEF IInv, TypeOK, HandshakeStates, StreamInv, StreamOf, Undisturbed,
        ControlInv, Parsing, Forwarding, ReplySent, BytesInv, BytesOf, AcceptCompletes,
        Completes
<1>7. BusyInv'
  BY BufferAssumption DEF IInv, TypeOK, HandshakeStates, BusyInv, BusyOf, ControlInv,
        Parsing, Forwarding, ReplySent, AcceptCompletes, Completes
<1>8. DestInv'
  BY BufferAssumption DEF IInv, TypeOK, HandshakeStates, DestInv, ReplySent, ControlInv,
        Parsing, Forwarding, AcceptCompletes, Completes
<1>. QED BY <1>1, <1>2, <1>3, <1>4, <1>5, <1>6, <1>7, <1>8 DEF IInv

(* The kernel completes the watch on the client.                           *)
LEMMA WaitCompletesStep ==
    ASSUME IInv, WaitCompletes
    PROVE  IInv'
<1>1. TypeOK'
  BY BufferAssumption DEF IInv, TypeOK, HandshakeStates, WaitCompletes, Completes
<1>2. Conservation'
  BY BufferAssumption DEF IInv, TypeOK, HandshakeStates, Conservation, Unseen, ControlInv,
        Parsing, Forwarding, ReplySent, BytesInv, BytesOf, WaitCompletes, Completes
<1>3. ControlInv'
  BY BufferAssumption DEF IInv, TypeOK, HandshakeStates, ControlInv, Parsing, Forwarding,
        ReplySent, WaitCompletes, Completes
<1>4. BytesInv'
  BY BufferAssumption DEF IInv, TypeOK, HandshakeStates, BytesInv, BytesOf, ControlInv,
        Parsing, Forwarding, ReplySent, WaitCompletes, Completes
<1>5. FillInv'
  BY BufferAssumption DEF IInv, TypeOK, HandshakeStates, FillInv, FillOf, ControlInv,
        Parsing, Forwarding, ReplySent, BytesInv, BytesOf, WaitCompletes, Completes
<1>6. StreamInv'
  BY BufferAssumption DEF IInv, TypeOK, HandshakeStates, StreamInv, StreamOf, Undisturbed,
        ControlInv, Parsing, Forwarding, ReplySent, BytesInv, BytesOf, WaitCompletes,
        Completes
<1>7. BusyInv'
  BY BufferAssumption DEF IInv, TypeOK, HandshakeStates, BusyInv, BusyOf, ControlInv,
        Parsing, Forwarding, ReplySent, WaitCompletes, Completes
<1>8. DestInv'
  BY BufferAssumption DEF IInv, TypeOK, HandshakeStates, DestInv, ReplySent, ControlInv,
        Parsing, Forwarding, WaitCompletes, Completes
<1>. QED BY <1>1, <1>2, <1>3, <1>4, <1>5, <1>6, <1>7, <1>8 DEF IInv

(* Socks5HandshakeHandler commits what was read and enters its loop.       *)
LEMMA HandshakeHandlerStep ==
    ASSUME IInv, Socks5HandshakeHandler
    PROVE  IInv'
<1>1. TypeOK'
  BY BufferAssumption DEF IInv, TypeOK, HandshakeStates, Socks5HandshakeHandler, peerVars
<1>2. Conservation'
  BY BufferAssumption DEF IInv, TypeOK, HandshakeStates, Conservation, Unseen, ControlInv,
        Parsing, Forwarding, ReplySent, BytesInv, BytesOf, Socks5HandshakeHandler, peerVars
<1>3. ControlInv'
  BY BufferAssumption DEF IInv, TypeOK, HandshakeStates, ControlInv, Parsing, Forwarding,
        ReplySent, Socks5HandshakeHandler, peerVars
<1>4. BytesInv'
  BY BufferAssumption DEF IInv, TypeOK, HandshakeStates, BytesInv, BytesOf, ControlInv,
        Parsing, Forwarding, ReplySent, Socks5HandshakeHandler, peerVars
<1>5. FillInv'
  BY BufferAssumption DEF IInv, TypeOK, HandshakeStates, FillInv, FillOf, ControlInv,
        Parsing, Forwarding, ReplySent, BytesInv, BytesOf, Socks5HandshakeHandler, peerVars
<1>6. StreamInv'
  BY BufferAssumption DEF IInv, TypeOK, HandshakeStates, StreamInv, StreamOf, Undisturbed,
        ControlInv, Parsing, Forwarding, ReplySent, BytesInv, BytesOf,
        Socks5HandshakeHandler, peerVars
<1>7. BusyInv'
  BY BufferAssumption DEF IInv, TypeOK, HandshakeStates, BusyInv, BusyOf, ControlInv,
        Parsing, Forwarding, ReplySent, Socks5HandshakeHandler, peerVars
<1>8. DestInv'
  BY BufferAssumption DEF IInv, TypeOK, HandshakeStates, DestInv, ReplySent, ControlInv,
        Parsing, Forwarding, Socks5HandshakeHandler, peerVars
<1>. QED BY <1>1, <1>2, <1>3, <1>4, <1>5, <1>6, <1>7, <1>8 DEF IInv

(* A step of Proceed keeps the types of what it touches.                   *)
LEMMA ProceedType ==
    ASSUME TypeOK, NEW s, Takes(s), NEW t \in HandshakeStates, NEW n \in 0..255,
           NEW ops \in [Ops -> {"idle", "pending", "done"}], Continues(t, n) \/ Returns(t, n, ops)
    PROVE  /\ state' \in HandshakeStates
           /\ required' \in 0..255
           /\ loop' \in BOOLEAN
           /\ op' \in [Ops -> {"idle", "pending", "done"}]
           /\ buff' \in [Dirs -> Nat]
           /\ parsed' \in Nat
<1>1. buff["up"] \in Nat /\ required \in Nat /\ buff["up"] - required \in Nat
  BY DEF TypeOK, Takes, InsufficientBuffer
<1>2. buff' \in [Dirs -> Nat] /\ parsed' \in Nat
  BY <1>1 DEF TypeOK, Takes
<1>3. CASE Continues(t, n)
  BY <1>2, <1>3 DEF Continues, TypeOK
<1>4. CASE Returns(t, n, ops)
  <2>1. [ops EXCEPT !["handshake"] = "pending"] \in [Ops -> {"idle", "pending", "done"}]
    OBVIOUS
  <2>. QED BY <1>2, <1>4, <2>1 DEF Returns
<1>. QED BY <1>3, <1>4

(* The three cases of Proceed that only parse.                             *)
ParseRest == UNCHANGED <<readable, writable, outcome, bytes, end, in, fin, cut, sent, delivered, reply>>

(* Proceed parsed a part of the handshake and is called again.             *)
LEMMA ParseContinuesStep ==
    ASSUME IInv, NEW s \in Parsing, NEW t \in Parsing, NEW n \in 0..255, Takes(s), Continues(t, n), ParseRest
    PROVE  IInv'
<1>1. TypeOK'
  <2>1. t \in HandshakeStates /\ op \in [Ops -> {"idle", "pending", "done"}]
    BY DEF IInv, TypeOK, Parsing, HandshakeStates
  <2>. QED BY <2>1, ProceedType DEF IInv, TypeOK, ParseRest
<1>2. Conservation'
  BY BufferAssumption DEF IInv, TypeOK, HandshakeStates, Conservation, Unseen, ControlInv,
        Parsing, Forwarding, ReplySent, BytesInv, BytesOf, ParseRest, Takes, Continues,
        Returns, InsufficientBuffer
<1>3. ControlInv'
  BY BufferAssumption DEF IInv, TypeOK, HandshakeStates, ControlInv, Parsing, Forwarding,
        ReplySent, ParseRest, Takes, Continues, Returns, InsufficientBuffer
<1>4. BytesInv'
  BY BufferAssumption DEF IInv, TypeOK, HandshakeStates, BytesInv, BytesOf, ControlInv,
        Parsing, Forwarding, ReplySent, ParseRest, Takes, Continues, Returns,
        InsufficientBuffer
<1>5. FillInv'
  BY BufferAssumption DEF IInv, TypeOK, HandshakeStates, FillInv, FillOf, ControlInv,
        Parsing, Forwarding, ReplySent, BytesInv, BytesOf, ParseRest, Takes, Continues,
        Returns, InsufficientBuffer
<1>6. StreamInv'
  BY BufferAssumption DEF IInv, TypeOK, HandshakeStates, StreamInv, StreamOf, Undisturbed,
        ControlInv, Parsing, Forwarding, ReplySent, BytesInv, BytesOf, ParseRest, Takes,
        Continues, Returns, InsufficientBuffer
<1>7. BusyInv'
  BY BufferAssumption DEF IInv, TypeOK, HandshakeStates, BusyInv, BusyOf, ControlInv,
        Parsing, Forwarding, ReplySent, ParseRest, Takes, Continues, Returns,
        InsufficientBuffer
<1>8. DestInv'
  BY BufferAssumption DEF IInv, TypeOK, HandshakeStates, DestInv, ReplySent, ControlInv,
        Parsing, Forwarding, ParseRest, Takes, Continues, Returns, InsufficientBuffer
<1>. QED BY <1>1, <1>2, <1>3, <1>4, <1>5, <1>6, <1>7, <1>8 DEF IInv

(* Proceed found the handshake unacceptable.                               *)
LEMMA ParseFailsStep ==
    ASSUME IInv, NEW s \in Parsing, Takes(s), Returns("Fail", required, op), ParseRest
    PROVE  IInv'
<1>1. TypeOK'
  <2>1. /\ "Fail" \in HandshakeStates /\ required \in 0..255
        /\ op \in [Ops -> {"idle", "pending", "done"}]
    BY DEF IInv, TypeOK, HandshakeStates
  <2>. QED BY <2>1, ProceedType DEF IInv, TypeOK, ParseRest
<1>2. Conservation'
  BY BufferAssumption DEF IInv, TypeOK, HandshakeStates, Conservation, Unseen, ControlInv,
        Parsing, Forwarding, ReplySent, BytesInv, BytesOf, ParseRest, Takes, Continues,
        Returns, InsufficientBuffer
<1>3. ControlInv'
  BY BufferAssumption DEF IInv, TypeOK, HandshakeStates, ControlInv, Parsing, Forwarding,
        ReplySent, ParseRest, Takes, Continues, Returns, InsufficientBuffer
<1>4. BytesInv'
  BY BufferAssumption DEF IInv, TypeOK, HandshakeStates, BytesInv, BytesOf, ControlInv,
        Parsing, Forwarding, ReplySent, ParseRest, Takes, Continues, Returns,
        InsufficientBuffer
<1>5. FillInv'
  BY BufferAssumption DEF IInv, TypeOK, HandshakeStates, FillInv, FillOf, ControlInv,
        Parsing, Forwarding, ReplySent, BytesInv, BytesOf, ParseRest, Takes, Continues,
        Returns, InsufficientBuffer
<1>6. StreamInv'
  BY BufferAssumption DEF IInv, TypeOK, HandshakeStates, StreamInv, StreamOf, Undisturbed,
        ControlInv, Parsing, Forwarding, ReplySent, BytesInv, BytesOf, ParseRest, Takes,
        Continues, Returns, InsufficientBuffer
<1>7. BusyInv'
  BY BufferAssumption DEF IInv, TypeOK, HandshakeStates, BusyInv, BusyOf, ControlInv,
        Parsing, Forwarding, ReplySent, ParseRest, Takes, Continues, Returns,
        InsufficientBuffer
<1>8. DestInv'
  BY BufferAssumption DEF IInv, TypeOK, HandshakeStates, DestInv, ReplySent, ControlInv,
        Parsing, Forwarding, ParseRest, Takes, Continues, Returns, InsufficientBuffer
<1>. QED BY <1>1, <1>2, <1>3, <1>4, <1>5, <1>6, <1>7, <1>8 DEF IInv

(* The parts of the handshake that only parse.                             *)
LEMMA ParseStep ==
    ASSUME IInv, GreetingHeader \/ GreetingMethods \/ RequestHeader
    PROVE  IInv'
<1>1. CASE GreetingHeader
  BY <1>1, ParseContinuesStep, ParseFailsStep, BufferAssumption DEF GreetingHeader, ParseRest, Parsing
<1>2. CASE GreetingMethods
  BY <1>2, ParseContinuesStep, ParseFailsStep DEF GreetingMethods, ParseRest, Parsing
<1>3. CASE RequestHeader
  BY <1>3, ParseContinuesStep, ParseFailsStep DEF RequestHeader, ParseRest, Parsing, AddrSizes
<1>. QED BY <1>1, <1>2, <1>3

(* Proceed starts connecting.                                              *)
LEMMA RequestAddrStep ==
    ASSUME IInv, RequestAddr
    PROVE  IInv'
<1>1. TypeOK'
  <2>. DEFINE ops == [op EXCEPT !["connect"] = "pending"]
  <2>1. /\ ops \in [Ops -> {"idle", "pending", "done"}]
        /\ "WaitConnect" \in HandshakeStates /\ 0 \in 0..255 /\ TypeOK
    BY DEF IInv, TypeOK, HandshakeStates
  <2>2. Takes("RequestAddr") /\ Returns("WaitConnect", 0, ops)
    BY DEF RequestAddr
  <2>. HIDE DEF ops
  <2>3. /\ state' \in HandshakeStates /\ required' \in 0..255 /\ loop' \in BOOLEAN
        /\ op' \in [Ops -> {"idle", "pending", "done"}]
        /\ buff' \in [Dirs -> Nat] /\ parsed' \in Nat
    BY <2>1, <2>2, ProceedType
  <2>. QED BY <2>3 DEF IInv, TypeOK, RequestAddr
<1>2. Conservation'
  BY BufferAssumption DEF IInv, TypeOK, HandshakeStates, Conservation, Unseen, ControlInv,
        Parsing, Forwarding, ReplySent, BytesInv, BytesOf, RequestAddr, Takes, Returns,
        InsufficientBuffer
<1>3. ControlInv'
  BY BufferAssumption DEF IInv, TypeOK, HandshakeStates, ControlInv, Parsing, Forwarding,
        ReplySent, RequestAddr, Takes, Returns, InsufficientBuffer
<1>4. BytesInv'
  BY BufferAssumption DEF IInv, TypeOK, HandshakeStates, BytesInv, BytesOf, ControlInv,
        Parsing, Forwarding, ReplySent, RequestAddr, Takes, Returns, InsufficientBuffer
<1>5. FillInv'
  BY BufferAssumption DEF IInv, TypeOK, HandshakeStates, FillInv, FillOf, ControlInv,
        Parsing, Forwarding, ReplySent, BytesInv, BytesOf, RequestAddr, Takes, Returns,
        InsufficientBuffer
<1>6. StreamInv'
  BY BufferAssumption DEF IInv, TypeOK, HandshakeStates, StreamInv, StreamOf, Undisturbed,
        ControlInv, Parsing, Forwarding, ReplySent, BytesInv, BytesOf, RequestAddr, Takes,
        Returns, InsufficientBuffer
<1>7. BusyInv'
  BY BufferAssumption DEF IInv, TypeOK, HandshakeStates, BusyInv, BusyOf, ControlInv,
        Parsing, Forwarding, ReplySent, RequestAddr, Takes, Returns, InsufficientBuffer
<1>8. DestInv'
  BY BufferAssumption DEF IInv, TypeOK, HandshakeStates, DestInv, ReplySent, ControlInv,
        Parsing, Forwarding, RequestAddr, Takes, Returns, InsufficientBuffer
<1>. QED BY <1>1, <1>2, <1>3, <1>4, <1>5, <1>6, <1>7, <1>8 DEF IInv

(* Proceed starts accepting and watching the client.                       *)
LEMMA RequestBindStep ==
    ASSUME IInv, RequestBind
    PROVE  IInv'
<1>1. TypeOK'
  <2>. DEFINE waiting == [op EXCEPT !["accept"] = "pending", !["wait"] = "pending"]
  <2>1. /\ waiting \in [Ops -> {"idle", "pending", "done"}]
        /\ op \in [Ops -> {"idle", "pending", "done"}]
        /\ {"WaitAccept", "Fail"} \subseteq HandshakeStates /\ 0 \in 0..255 /\ TypeOK
    BY DEF IInv, TypeOK, HandshakeStates
  <2>2. PICK t \in {"WaitAccept", "Fail"}, ops \in {op, waiting} :
           Takes("RequestBind") /\ Returns(t, 0, ops)
    BY DEF RequestBind
  <2>. HIDE DEF waiting
  <2>3. /\ state' \in HandshakeStates /\ required' \in 0..255 /\ loop' \in BOOLEAN
        /\ op' \in [Ops -> {"idle", "pending", "done"}]
        /\ buff' \in [Dirs -> Nat] /\ parsed' \in Nat
    BY <2>1, <2>2, ProceedType
  <2>. QED BY <2>3 DEF IInv, TypeOK, RequestBind
<1>2. Conservation'
  BY BufferAssumption DEF IInv, TypeOK, HandshakeStates, Conservation, Unseen, ControlInv,
        Parsing, Forwarding, ReplySent, BytesInv, BytesOf, RequestBind, Takes, Returns,
        InsufficientBuffer
<1>3. ControlInv'
  BY BufferAssumption DEF IInv, TypeOK, HandshakeStates, ControlInv, Parsing, Forwarding,
        ReplySent, RequestBind, Takes, Returns, InsufficientBuffer
<1>4. BytesInv'
  BY BufferAssumption DEF IInv, TypeOK, HandshakeStates, BytesInv, BytesOf, ControlInv,
        Parsing, Forwarding, ReplySent, RequestBind, Takes, Returns, InsufficientBuffer
<1>5. FillInv'
  BY BufferAssumption DEF IInv, TypeOK, HandshakeStates, FillInv, FillOf, ControlInv,
        Parsing, Forwarding, ReplySent, BytesInv, BytesOf, RequestBind, Takes, Returns,
        InsufficientBuffer
<1>6. StreamInv'
  BY BufferAssumption DEF IInv, TypeOK, HandshakeStates, StreamInv, StreamOf, Undisturbed,
        ControlInv, Parsing, Forwarding, ReplySent, BytesInv, BytesOf, RequestBind, Takes,
        Returns, InsufficientBuffer
<1>7. BusyInv'
  BY BufferAssumption DEF IInv, TypeOK, HandshakeStates, BusyInv, BusyOf, ControlInv,
        Parsing, Forwarding, ReplySent, RequestBind, Takes, Returns, InsufficientBuffer
<1>8. DestInv'
  BY BufferAssumption DEF IInv, TypeOK, HandshakeStates, DestInv, ReplySent, ControlInv,
        Parsing, Forwarding, RequestBind, Takes, Returns, InsufficientBuffer
<1>. QED BY <1>1, <1>2, <1>3, <1>4, <1>5, <1>6, <1>7, <1>8 DEF IInv

(* Proceed waits for more bytes, or gives up.                              *)
LEMMA ProceedStopsStep ==
    ASSUME IInv, ProceedStops
    PROVE  IInv'
<1>1. TypeOK'
  <2>1. [op EXCEPT !["handshake"] = "pending"] \in [Ops -> {"idle", "pending", "done"}]
    BY DEF IInv, TypeOK
  <2>2. op' \in [Ops -> {"idle", "pending", "done"}] /\ loop' = FALSE
    BY <2>1 DEF IInv, TypeOK, ProceedStops, Returns
  <2>3. state' \in HandshakeStates /\ required' \in 0..255
    BY DEF IInv, TypeOK, HandshakeStates, ProceedStops, Returns
  <2>. QED BY <2>2, <2>3 DEF IInv, TypeOK, ProceedStops, peerVars
<1>2. Conservation'
  BY BufferAssumption DEF IInv, TypeOK, HandshakeStates, Conservation, Unseen, ControlInv,
        Parsing, Forwarding, ReplySent, BytesInv, BytesOf, ProceedStops, Returns,
        InsufficientBuffer, peerVars
<1>3. ControlInv'
  BY BufferAssumption DEF IInv, TypeOK, HandshakeStates, ControlInv, Parsing, Forwarding,
        ReplySent, ProceedStops, Returns, InsufficientBuffer, peerVars
<1>4. BytesInv'
  BY BufferAssumption DEF IInv, TypeOK, HandshakeStates, BytesInv, BytesOf, ControlInv,
        Parsing, Forwarding, ReplySent, ProceedStops, Returns, InsufficientBuffer, peerVars
<1>5. FillInv'
  BY BufferAssumption DEF IInv, TypeOK, HandshakeStates, FillInv, FillOf, ControlInv,
        Parsing, Forwarding, ReplySent, BytesInv, BytesOf, ProceedStops, Returns,
        InsufficientBuffer, peerVars
<1>6. StreamInv'
  BY BufferAssumption DEF IInv, TypeOK, HandshakeStates, StreamInv, StreamOf, Undisturbed,
        ControlInv, Parsing, Forwarding, ReplySent, BytesInv, BytesOf, ProceedStops,
        Returns, InsufficientBuffer, peerVars
<1>7. BusyInv'
  BY BufferAssumption DEF IInv, TypeOK, HandshakeStates, BusyInv, BusyOf, ControlInv,
        Parsing, Forwarding, ReplySent, ProceedStops, Returns, InsufficientBuffer, peerVars
<1>8. DestInv'
  BY BufferAssumption DEF IInv, TypeOK, HandshakeStates, DestInv, ReplySent, ControlInv,
        Parsing, Forwarding, ProceedStops, Returns, InsufficientBuffer, peerVars
<1>. QED BY <1>1, <1>2, <1>3, <1>4, <1>5, <1>6, <1>7, <1>8 DEF IInv

(* The watch on the client fires, or was cancelled.                        *)
LEMMA WaitHandlerStep ==
    ASSUME IInv, WaitHandler
    PROVE  IInv'
<1>1. TypeOK'
  BY BufferAssumption DEF IInv, TypeOK, HandshakeStates, WaitHandler, Cancelled,
        CancelOutcome, peerVars
<1>2. Conservation'
  BY BufferAssumption DEF IInv, TypeOK, HandshakeStates, Conservation, Unseen, ControlInv,
        Parsing, Forwarding, ReplySent, BytesInv, BytesOf, WaitHandler, Cancelled,
        CancelOutcome, peerVars
<1>3. ControlInv'
  BY BufferAssumption DEF IInv, TypeOK, HandshakeStates, ControlInv, Parsing, Forwarding,
        ReplySent, WaitHandler, Cancelled, CancelOutcome, peerVars
<1>4. BytesInv'
  <2>1. \A o \in Ops \ {"accept", "wait"} : op'[o] = op[o] /\ outcome'[o] = outcome[o]
    BY DEF IInv, TypeOK, WaitHandler, Cancelled, CancelOutcome
  <2>2. op["wait"] # "idle" /\ bytes' = bytes /\ buff' = buff
    BY DEF WaitHandler
  <2>3. bytes["wait"] = 0 /\ (op'["accept"] = "idle" => op["accept"] = "idle")
    BY DEF IInv, TypeOK, BytesInv, BytesOf, WaitHandler, Cancelled
  <2>. QED BY <2>1, <2>2, <2>3 DEF IInv, BytesInv, BytesOf
<1>5. FillInv'
  BY BufferAssumption DEF IInv, TypeOK, HandshakeStates, FillInv, FillOf, ControlInv,
        Parsing, Forwarding, ReplySent, BytesInv, BytesOf, WaitHandler, Cancelled,
        CancelOutcome, peerVars
<1>6. StreamInv'
  BY BufferAssumption DEF IInv, TypeOK, HandshakeStates, StreamInv, StreamOf, Undisturbed,
        ControlInv, Parsing, Forwarding, ReplySent, BytesInv, BytesOf, WaitHandler,
        Cancelled, CancelOutcome, peerVars
<1>7. BusyInv'
  BY BufferAssumption DEF IInv, TypeOK, HandshakeStates, BusyInv, BusyOf, ControlInv,
        Parsing, Forwarding, ReplySent, WaitHandler, Cancelled, CancelOutcome, peerVars
<1>8. DestInv'
  BY BufferAssumption DEF IInv, TypeOK, HandshakeStates, DestInv, ReplySent, ControlInv,
        Parsing, Forwarding, WaitHandler, Cancelled, CancelOutcome, peerVars
<1>. QED BY <1>1, <1>2, <1>3, <1>4, <1>5, <1>6, <1>7, <1>8 DEF IInv

----------------------------------------------------------------------------
(* Forwarding.                                                             *)

(* What ForwardTraffic does to each operation.                             *)
LEMMA ForwardTrafficDoes ==
    ASSUME NEW ops, ops \in [Ops -> {"idle", "pending", "done"}], ForwardTraffic(ops)
    PROVE  /\ \A d \in Dirs :
                 /\ op'[ReadOp(d)] = IF StartsRead(d, ops) THEN "pending" ELSE ops[ReadOp(d)]
                 /\ op'[WriteOp(d)] = IF StartsWrite(d, ops) THEN "pending" ELSE ops[WriteOp(d)]
                 /\ bytes'[ReadOp(d)] = IF ops[ReadOp(d)] = "idle" THEN 0 ELSE bytes[ReadOp(d)]
                 /\ bytes'[WriteOp(d)] = IF ops[WriteOp(d)] # "idle" THEN bytes[WriteOp(d)]
                                         ELSE IF StartsWrite(d, ops) THEN buff'[d] ELSE 0
           /\ \A o \in {"handshake", "connect", "accept", "wait"} :
                 /\ op'[o] = ops[o]
                 /\ bytes'[o] = IF ops[o] = "idle" THEN 0 ELSE bytes[o]
           /\ op' \in [Ops -> {"idle", "pending", "done"}]
           /\ DOMAIN bytes' = Ops
           /\ bytes' = [o \in Ops |-> bytes'[o]]
<1>1. op' \in [Ops -> {"idle", "pending", "done"}] /\ bytes' = [o \in Ops |-> bytes'[o]]
  BY DEF ForwardTraffic
<1>2. \A d \in Dirs :
         /\ op'[ReadOp(d)] = IF StartsRead(d, ops) THEN "pending" ELSE ops[ReadOp(d)]
         /\ op'[WriteOp(d)] = IF StartsWrite(d, ops) THEN "pending" ELSE ops[WriteOp(d)]
  BY DEF ForwardTraffic, StartsRead, StartsWrite
<1>3. \A d \in Dirs :
         /\ bytes'[ReadOp(d)] = IF ops[ReadOp(d)] = "idle" THEN 0 ELSE bytes[ReadOp(d)]
         /\ bytes'[WriteOp(d)] = IF ops[WriteOp(d)] # "idle" THEN bytes[WriteOp(d)]
                                 ELSE IF StartsWrite(d, ops) THEN buff'[d] ELSE 0
  BY DEF ForwardTraffic
<1>4. \A o \in {"handshake", "connect", "accept", "wait"} :
         /\ op'[o] = ops[o]
         /\ bytes'[o] = IF ops[o] = "idle" THEN 0 ELSE bytes[o]
  BY DEF ForwardTraffic
<1>. QED BY <1>1, <1>2, <1>3, <1>4

(* A handler of one direction restarts only operations of that direction:  *)
(* what the other one could have outstanding is outstanding already.       *)
LEMMA ReadHandlerDoes ==
    ASSUME IInv, NEW d \in Dirs, ReadHandler(d)
    PROVE  /\ state = "Success"
           /\ op'[ReadOp(d)] = IF d \in readable' /\ d \in writable' /\ buff'[d] < kMaxBufferSize
                               THEN "pending" ELSE "idle"
           /\ op'[WriteOp(d)] = IF op[WriteOp(d)] = "idle" /\ d \in writable' /\ buff'[d] > 0
                                THEN "pending" ELSE op[WriteOp(d)]
           /\ bytes'[ReadOp(d)] = 0
           /\ bytes'[WriteOp(d)] = IF op[WriteOp(d)] = "idle" /\ d \in writable' /\ buff'[d] > 0
                                   THEN buff'[d] ELSE bytes[WriteOp(d)]
           /\ \A o \in Ops \ {ReadOp(d), WriteOp(d)} : op'[o] = op[o] /\ bytes'[o] = bytes[o]
           /\ op' \in [Ops -> {"idle", "pending", "done"}]
           /\ bytes' = [o \in Ops |-> bytes'[o]]
<1>. DEFINE ops == [op EXCEPT ![ReadOp(d)] = "idle"]
<1>1. ops \in [Ops -> {"idle", "pending", "done"}] /\ ForwardTraffic(ops)
  BY DEF IInv, TypeOK, ReadHandler
<1>2. ops[ReadOp(d)] = "idle" /\ \A o \in Ops \ {ReadOp(d)} : ops[o] = op[o]
  BY DEF IInv, TypeOK
<1>3. state = "Success"
  BY DEF IInv, ControlInv, Forwarding, ReadHandler
<1>. HIDE DEF ops
<1>4. /\ op'[ReadOp(d)] = IF d \in readable' /\ d \in writable' /\ buff'[d] < kMaxBufferSize
                          THEN "pending" ELSE "idle"
      /\ bytes'[ReadOp(d)] = 0
  BY <1>1, <1>2, ForwardTrafficDoes DEF StartsRead
<1>5. /\ op'[WriteOp(d)] = IF op[WriteOp(d)] = "idle" /\ d \in writable' /\ buff'[d] > 0
                           THEN "pending" ELSE op[WriteOp(d)]
      /\ bytes'[WriteOp(d)] = IF op[WriteOp(d)] = "idle" /\ d \in writable' /\ buff'[d] > 0
                              THEN buff'[d] ELSE bytes[WriteOp(d)]
  <2>1. ops[WriteOp(d)] = op[WriteOp(d)] /\ (op[WriteOp(d)] = "idle" => bytes[WriteOp(d)] = 0)
    BY <1>2 DEF IInv, BytesInv
  <2>. QED BY <1>1, <2>1, ForwardTrafficDoes DEF StartsWrite
<1>6. ASSUME NEW o \in {"handshake", "connect", "accept", "wait"}
      PROVE  op'[o] = op[o] /\ bytes'[o] = bytes[o]
  <2>1. ops[o] = op[o] /\ (op[o] = "idle" => bytes[o] = 0)
    BY <1>2 DEF IInv, BytesInv
  <2>. QED BY <1>1, <2>1, ForwardTrafficDoes
<1>7. ASSUME NEW e \in Dirs, e # d
      PROVE  /\ op'[ReadOp(e)] = op[ReadOp(e)] /\ bytes'[ReadOp(e)] = bytes[ReadOp(e)]
             /\ op'[WriteOp(e)] = op[WriteOp(e)] /\ bytes'[WriteOp(e)] = bytes[WriteOp(e)]
  <2>1. /\ ops[ReadOp(e)] = op[ReadOp(e)] /\ ops[WriteOp(e)] = op[WriteOp(e)]
        /\ buff'[e] = buff[e] /\ (e \in readable' <=> e \in readable) /\ writable' = writable
    BY <1>2, <1>7 DEF IInv, TypeOK, ReadHandler
  <2>2. ~StartsRead(e, ops) /\ ~StartsWrite(e, ops)
    BY <1>3, <2>1 DEF IInv, BusyInv, BusyOf, StartsRead, StartsWrite
  <2>3. /\ op[ReadOp(e)] = "idle" => bytes[ReadOp(e)] = 0
        /\ op[WriteOp(e)] = "idle" => bytes[WriteOp(e)] = 0
    BY DEF IInv, BytesInv
  <2>. QED BY <1>1, <2>1, <2>2, <2>3, ForwardTrafficDoes
<1>8. \A o \in Ops \ {ReadOp(d), WriteOp(d)} : op'[o] = op[o] /\ bytes'[o] = bytes[o]
  BY <1>6, <1>7
<1>9. op' \in [Ops -> {"idle", "pending", "done"}] /\ bytes' = [o \in Ops |-> bytes'[o]]
  BY <1>1, ForwardTrafficDoes
<1>. QED BY <1>3, <1>4, <1>5, <1>8, <1>9

(* ClientReadHandler and DestReadHandler keep the invariant.               *)
LEMMA ReadHandlerStep ==
    ASSUME IInv, NEW d \in Dirs, ReadHandler(d)
    PROVE  IInv'
<1>1. /\ buff[d] \in Nat /\ bytes[ReadOp(d)] \in Nat /\ op[ReadOp(d)] = "done" /\ d \in readable
      /\ buff'[d] = buff[d] + bytes[ReadOp(d)] /\ \A e \in Dirs : e # d => buff'[e] = buff[e]
      /\ buff' \in [Dirs -> Nat]
  BY DEF IInv, TypeOK, StreamInv, StreamOf, ReadHandler
<1>2. TypeOK'
  <2>1. \A o \in Ops : bytes'[o] \in Nat
    BY <1>1, ReadHandlerDoes DEF IInv, TypeOK
  <2>2. bytes' \in [Ops -> Nat]
    BY <2>1, ReadHandlerDoes
  <2>. QED BY <1>1, <2>2, ReadHandlerDoes DEF IInv, TypeOK, ReadHandler
<1>3. Conservation'
  <2>1. Unseen(ReadOp(d))' = 0 /\ Unseen(ReadOp(d)) = bytes[ReadOp(d)]
    BY <1>1, ReadHandlerDoes DEF Unseen
  <2>2. \A o \in Ops \ {ReadOp(d)} : Unseen(o)' = Unseen(o)
    BY <1>1, ReadHandlerDoes DEF Unseen, IInv, TypeOK
  <2>. QED BY <1>1, <2>1, <2>2 DEF IInv, TypeOK, Conservation, Unseen, ReadHandler
<1>4. ControlInv'
  BY <1>1, ReadHandlerDoes DEF IInv, ControlInv, Forwarding, ReplySent, ReadHandler
<1>a. \A e \in Dirs : e # d =>
         /\ \A o \in {ReadOp(e), WriteOp(e)} : op'[o] = op[o] /\ bytes'[o] = bytes[o]
         /\ e \in readable' <=> e \in readable
         /\ Sink(e) \in fin' <=> Sink(e) \in fin
  BY ReadHandlerDoes DEF IInv, TypeOK, ReadHandler
<1>b. /\ \A o \in {ReadOp(d), WriteOp(d)} : op[o] \in {"idle", "pending", "done"} /\ bytes[o] \in Nat
      /\ op[WriteOp(d)] # "idle" => buff[d] > 0 /\ bytes[WriteOp(d)] <= buff[d]
      /\ outcome[ReadOp(d)] # "ok" => bytes[ReadOp(d)] = 0
      /\ bytes[ReadOp(d)] <= ReadLimit
      /\ buff[d] < kMaxBufferSize
  BY <1>1, ReadHandlerDoes DEF IInv, TypeOK, BytesInv, BytesOf, FillInv, FillOf
<1>c. /\ d \in readable' <=> outcome[ReadOp(d)] = "ok"
      /\ Sink(d) \in fin' <=> Sink(d) \in fin \/ (outcome[ReadOp(d)] # "ok" /\ buff'[d] = 0)
      /\ writable' = writable /\ outcome' = outcome /\ end' = end /\ in' = in /\ cut' = cut
      /\ Sink(d) \notin fin
  BY <1>1 DEF IInv, TypeOK, StreamInv, StreamOf, ReadHandler
<1>5. BytesInv'
  <2>1. BytesOf(d)'
    <3>. HIDE DEF Dirs, Peers, Source, Sink, ReadOp, WriteOp, ReadOps, WriteOps, Ops
    <3>. QED BY <1>1, <1>b, <1>c, ReadHandlerDoes, BufferAssumption DEF BytesOf
  <2>2. \A e \in Dirs : e # d => BytesOf(e)'
    BY <1>1, <1>a DEF IInv, BytesInv, BytesOf, ReadHandler
  <2>3. \A o \in Ops : op'[o] = "idle" \/ o \in {"connect", "accept", "wait"} => bytes'[o] = 0
    BY <1>1, ReadHandlerDoes DEF IInv, TypeOK, BytesInv
  <2>. QED BY <2>1, <2>2, <2>3, ReadHandlerDoes DEF IInv, BytesInv, ReadHandler
<1>6. FillInv'
  <2>1. FillOf(d)'
    <3>. HIDE DEF Dirs, Peers, Source, Sink, ReadOp, WriteOp, ReadOps, WriteOps, Ops
    <3>. QED BY <1>1, <1>b, <1>c, ReadHandlerDoes, BufferAssumption DEF FillOf
  <2>2. \A e \in Dirs : e # d => FillOf(e)'
    BY <1>1, <1>a, ReadHandlerDoes DEF IInv, FillInv, FillOf
  <2>. QED BY <1>1, <2>1, <2>2, ReadHandlerDoes DEF IInv, FillInv, ControlInv, ReadHandler
<1>7. StreamInv'
  <2>1. StreamOf(d)
    BY DEF IInv, StreamInv
  <2>3. StreamOf(d)'
    <3>. HIDE DEF Dirs, Peers, Source, Sink, ReadOp, WriteOp, ReadOps, WriteOps, Ops
    <3>1. Undisturbed' <=> Undisturbed
      BY <1>c DEF Undisturbed
    <3>. QED BY <1>1, <1>b, <1>c, <2>1, <3>1, ReadHandlerDoes DEF StreamOf
  <2>2. \A e \in Dirs : e # d => StreamOf(e)'
    BY <1>1, <1>a DEF IInv, StreamInv, StreamOf, Undisturbed, ReadHandler
  <2>. QED BY <2>2, <2>3 DEF StreamInv
<1>8. BusyInv'
  <2>1. BusyOf(d)'
    BY <1>1, ReadHandlerDoes DEF IInv, TypeOK, BusyInv, BusyOf
  <2>2. \A e \in Dirs : e # d => BusyOf(e)'
    BY <1>1, <1>a, ReadHandlerDoes DEF IInv, BusyInv, BusyOf, ReadHandler
  <2>. QED BY <2>1, <2>2 DEF BusyInv
<1>9. DestInv'
  BY <1>1, ReadHandlerDoes DEF IInv, TypeOK, DestInv, ReplySent, ReadHandler
<1>. QED BY <1>2, <1>3, <1>4, <1>5, <1>6, <1>7, <1>8, <1>9 DEF IInv

(* What the handler of a write starts again.                               *)
LEMMA WriteHandlerDoes ==
    ASSUME IInv, NEW d \in Dirs, WriteHandler(d)
    PROVE  /\ state = "Success"
           /\ op'[WriteOp(d)] = IF d \in writable' /\ buff'[d] > 0 THEN "pending" ELSE "idle"
           /\ bytes'[WriteOp(d)] = IF d \in writable' /\ buff'[d] > 0 THEN buff'[d] ELSE 0
           /\ op'[ReadOp(d)] = IF /\ op[ReadOp(d)] = "idle" /\ d \in readable' /\ d \in writable'
                                  /\ buff'[d] < kMaxBufferSize
                               THEN "pending" ELSE op[ReadOp(d)]
           /\ bytes'[ReadOp(d)] = bytes[ReadOp(d)]
           /\ \A o \in Ops \ {ReadOp(d), WriteOp(d)} : op'[o] = op[o] /\ bytes'[o] = bytes[o]
           /\ op' \in [Ops -> {"idle", "pending", "done"}]
           /\ bytes' = [o \in Ops |-> bytes'[o]]
<1>. DEFINE ops == [op EXCEPT ![WriteOp(d)] = "idle"]
<1>1. ops \in [Ops -> {"idle", "pending", "done"}] /\ ForwardTraffic(ops)
  BY DEF IInv, TypeOK, WriteHandler
<1>2. ops[WriteOp(d)] = "idle" /\ \A o \in Ops \ {WriteOp(d)} : ops[o] = op[o]
  BY DEF IInv, TypeOK
<1>3. state = "Success"
  BY DEF IInv, ControlInv, Forwarding, WriteHandler
<1>. HIDE DEF ops
<1>4. /\ op'[WriteOp(d)] = IF d \in writable' /\ buff'[d] > 0 THEN "pending" ELSE "idle"
      /\ bytes'[WriteOp(d)] = IF d \in writable' /\ buff'[d] > 0 THEN buff'[d] ELSE 0
  BY <1>1, <1>2, ForwardTrafficDoes DEF StartsWrite
<1>5. /\ op'[ReadOp(d)] = IF /\ op[ReadOp(d)] = "idle" /\ d \in readable' /\ d \in writable'
                             /\ buff'[d] < kMaxBufferSize
                          THEN "pending" ELSE op[ReadOp(d)]
      /\ bytes'[ReadOp(d)] = bytes[ReadOp(d)]
  <2>1. ops[ReadOp(d)] = op[ReadOp(d)] /\ (op[ReadOp(d)] = "idle" => bytes[ReadOp(d)] = 0)
    BY <1>2 DEF IInv, BytesInv
  <2>. QED BY <1>1, <2>1, ForwardTrafficDoes DEF StartsRead
<1>6. ASSUME NEW o \in {"handshake", "connect", "accept", "wait"}
      PROVE  op'[o] = op[o] /\ bytes'[o] = bytes[o]
  <2>1. ops[o] = op[o] /\ (op[o] = "idle" => bytes[o] = 0)
    BY <1>2 DEF IInv, BytesInv
  <2>. QED BY <1>1, <2>1, ForwardTrafficDoes
<1>7. ASSUME NEW e \in Dirs, e # d
      PROVE  /\ op'[ReadOp(e)] = op[ReadOp(e)] /\ bytes'[ReadOp(e)] = bytes[ReadOp(e)]
             /\ op'[WriteOp(e)] = op[WriteOp(e)] /\ bytes'[WriteOp(e)] = bytes[WriteOp(e)]
  <2>1. /\ ops[ReadOp(e)] = op[ReadOp(e)] /\ ops[WriteOp(e)] = op[WriteOp(e)]
        /\ buff'[e] = buff[e] /\ readable' = readable /\ (e \in writable' <=> e \in writable)
    BY <1>2, <1>7 DEF IInv, TypeOK, WriteHandler
  <2>2. ~StartsRead(e, ops) /\ ~StartsWrite(e, ops)
    BY <1>3, <2>1 DEF IInv, BusyInv, BusyOf, StartsRead, StartsWrite
  <2>3. /\ op[ReadOp(e)] = "idle" => bytes[ReadOp(e)] = 0
        /\ op[WriteOp(e)] = "idle" => bytes[WriteOp(e)] = 0
    BY DEF IInv, BytesInv
  <2>. QED BY <1>1, <2>1, <2>2, <2>3, ForwardTrafficDoes
<1>8. \A o \in Ops \ {ReadOp(d), WriteOp(d)} : op'[o] = op[o] /\ bytes'[o] = bytes[o]
  BY <1>6, <1>7
<1>9. op' \in [Ops -> {"idle", "pending", "done"}] /\ bytes' = [o \in Ops |-> bytes'[o]]
  BY <1>1, ForwardTrafficDoes
<1>. QED BY <1>3, <1>4, <1>5, <1>8, <1>9

(* DestWriteHandler and ClientWriteHandler keep the invariant.             *)
LEMMA WriteHandlerStep ==
    ASSUME IInv, NEW d \in Dirs, WriteHandler(d)
    PROVE  IInv'
<1>1. /\ buff[d] \in Nat /\ bytes[WriteOp(d)] \in Nat /\ op[WriteOp(d)] = "done"
      /\ bytes[WriteOp(d)] <= buff[d]
      /\ buff'[d] = buff[d] - bytes[WriteOp(d)] /\ \A e \in Dirs : e # d => buff'[e] = buff[e]
      /\ buff' = [buff EXCEPT ![d] = buff[d] - bytes[WriteOp(d)]]
  BY DEF IInv, TypeOK, BytesInv, BytesOf, WriteHandler
<1>0. buff'[d] \in Nat /\ buff'[d] <= buff[d] /\ buff' \in [Dirs -> Nat]
  BY <1>1 DEF IInv, TypeOK
<1>2. TypeOK'
  <2>1. \A o \in Ops : bytes'[o] \in Nat
    BY <1>0, WriteHandlerDoes DEF IInv, TypeOK
  <2>2. bytes' \in [Ops -> Nat]
    BY <2>1, WriteHandlerDoes
  <2>. QED BY <1>0, <2>2, WriteHandlerDoes DEF IInv, TypeOK, WriteHandler
<1>3. Conservation'
  <2>1. Unseen(WriteOp(d))' = 0 /\ Unseen(WriteOp(d)) = bytes[WriteOp(d)]
    BY <1>1, WriteHandlerDoes DEF Unseen
  <2>2. \A o \in Ops \ {WriteOp(d)} : Unseen(o)' = Unseen(o)
    BY <1>1, WriteHandlerDoes DEF Unseen, IInv, TypeOK
  <2>. QED BY <1>1, <2>1, <2>2 DEF IInv, TypeOK, Conservation, Unseen, WriteHandler
<1>4. ControlInv'
  BY <1>1, WriteHandlerDoes DEF IInv, ControlInv, Forwarding, ReplySent, WriteHandler
<1>a. \A e \in Dirs : e # d =>
         /\ \A o \in {ReadOp(e), WriteOp(e)} : op'[o] = op[o] /\ bytes'[o] = bytes[o]
         /\ e \in writable' <=> e \in writable
         /\ Sink(e) \in fin' <=> Sink(e) \in fin
         /\ Source(e) \in cut' <=> Source(e) \in cut
  BY WriteHandlerDoes DEF IInv, TypeOK, WriteHandler
<1>b. /\ \A o \in {ReadOp(d), WriteOp(d)} : op[o] \in {"idle", "pending", "done"} /\ bytes[o] \in Nat
      /\ op[ReadOp(d)] # "idle" => buff[d] < kMaxBufferSize
      /\ op[ReadOp(d)] = "idle" => buff[d] < kMaxBufferSize + ReadLimit
      /\ op[ReadOp(d)] = "idle" => bytes[ReadOp(d)] = 0
      /\ BytesOf(d)
  BY WriteHandlerDoes DEF IInv, TypeOK, BytesInv, FillInv, FillOf
<1>c. /\ d \in writable' <=> d \in writable /\ outcome[WriteOp(d)] = "ok" /\ ~(d \notin readable /\ buff'[d] = 0)
      /\ Sink(d) \in fin' <=> Sink(d) \in fin \/ (d \notin readable /\ buff'[d] = 0)
      /\ Source(d) \in cut' <=> Source(d) \in cut \/ outcome[WriteOp(d)] # "ok"
      /\ readable' = readable /\ outcome' = outcome /\ end' = end /\ in' = in
  BY DEF IInv, TypeOK, WriteHandler
<1>5. BytesInv'
  <2>1. BytesOf(d)'
    <3>. HIDE DEF Dirs, Peers, Source, Sink, ReadOp, WriteOp, ReadOps, WriteOps, Ops
    <3>. QED BY <1>0, <1>1, <1>b, <1>c, WriteHandlerDoes, BufferAssumption DEF BytesOf
  <2>2. \A e \in Dirs : e # d => BytesOf(e)'
    BY <1>1, <1>a DEF IInv, BytesInv, BytesOf, WriteHandler
  <2>3. \A o \in Ops : op'[o] = "idle" \/ o \in {"connect", "accept", "wait"} => bytes'[o] = 0
    BY <1>1, <1>b, WriteHandlerDoes DEF IInv, TypeOK, BytesInv
  <2>. QED BY <2>1, <2>2, <2>3, WriteHandlerDoes DEF IInv, BytesInv, WriteHandler
<1>6. FillInv'
  <2>1. FillOf(d)'
    <3>. HIDE DEF Dirs, Peers, Source, Sink, ReadOp, WriteOp, ReadOps, WriteOps, Ops
    <3>. QED BY <1>0, <1>1, <1>b, <1>c, WriteHandlerDoes, BufferAssumption DEF FillOf
  <2>2. \A e \in Dirs : e # d => FillOf(e)'
    BY <1>1, <1>a, WriteHandlerDoes DEF IInv, FillInv, FillOf
  <2>. QED BY <1>1, <2>1, <2>2, WriteHandlerDoes DEF IInv, FillInv, ControlInv, WriteHandler
<1>7. StreamInv'
  <2>1. StreamOf(d) /\ buff[d] > 0
    BY <1>1, <1>b DEF IInv, StreamInv, BytesOf
  <2>3. StreamOf(d)'
    <3>. HIDE DEF Dirs, Peers, Source, Sink, ReadOp, WriteOp, ReadOps, WriteOps, Ops
    <3>1. Undisturbed' <=> Undisturbed
      BY <1>c DEF Undisturbed
    <3>. QED BY <1>0, <1>1, <1>b, <1>c, <2>1, <3>1, WriteHandlerDoes DEF StreamOf
  <2>2. \A e \in Dirs : e # d => StreamOf(e)'
    BY <1>1, <1>a, <1>c DEF IInv, StreamInv, StreamOf, Undisturbed
  <2>. QED BY <2>2, <2>3 DEF StreamInv
<1>8. BusyInv'
  <2>1. BusyOf(d)'
    BY <1>1, WriteHandlerDoes DEF IInv, TypeOK, BusyInv, BusyOf
  <2>2. \A e \in Dirs : e # d => BusyOf(e)'
    BY <1>1, <1>a, WriteHandlerDoes DEF IInv, BusyInv, BusyOf, WriteHandler
  <2>. QED BY <2>1, <2>2 DEF BusyInv
<1>9. DestInv'
  BY <1>1, WriteHandlerDoes DEF IInv, TypeOK, DestInv, ReplySent, WriteHandler
<1>. QED BY <1>2, <1>3, <1>4, <1>5, <1>6, <1>7, <1>8, <1>9 DEF IInv

(* Forwarding starts, from ConnectHandler or AcceptHandler, with empty     *)
(* hands: nothing but the watch on the client can still be outstanding.    *)
LEMMA ForwardingStarts ==
    ASSUME IInv, NEW ops, ops \in [Ops -> {"idle", "pending", "done"}],
           \A o \in Ops \ {"wait"} : ops[o] = "idle",
           \A o \in Ops \ {"connect", "accept", "wait"} : op[o] = "idle",
           ~loop, state \in {"WaitConnect", "WaitAccept"}, end["dest"] # "none",
           ForwardTraffic(ops), ConnectionSucceed,
           outcome' \in [Ops -> Outcomes],
           UNCHANGED <<required, loop, buff, readable, writable, end, in, fin, cut, parsed,
                       sent, delivered>>
    PROVE  IInv'
<1>. USE DEF Outcomes
<1>1. /\ buff["down"] = 0 /\ buff["up"] \in Nat /\ buff["up"] < ReadLimit
      /\ readable = Dirs /\ writable = Dirs /\ fin = {} /\ cut = {}
      /\ \A o \in Ops : bytes[o] = 0
  BY DEF IInv, TypeOK, ControlInv, FillInv, BytesInv
<1>2. \A d \in Dirs : /\ StartsRead(d, ops) <=> buff[d] < kMaxBufferSize
                      /\ StartsWrite(d, ops) <=> buff[d] > 0
  BY <1>1 DEF StartsRead, StartsWrite
<1>3. \A d \in Dirs : /\ op'[ReadOp(d)] = IF buff[d] < kMaxBufferSize THEN "pending" ELSE "idle"
                      /\ op'[WriteOp(d)] = IF buff[d] > 0 THEN "pending" ELSE "idle"
                      /\ bytes'[ReadOp(d)] = 0
                      /\ bytes'[WriteOp(d)] = IF buff[d] > 0 THEN buff[d] ELSE 0
  BY <1>2, ForwardTrafficDoes
<1>4. /\ op'["handshake"] = "idle" /\ op'["connect"] = "idle" /\ op'["accept"] = "idle"
      /\ \A o \in {"handshake", "connect", "accept", "wait"} : bytes'[o] = 0
      /\ op' \in [Ops -> {"idle", "pending", "done"}]
      /\ bytes' = [o \in Ops |-> bytes'[o]]
  BY <1>1, ForwardTrafficDoes
<1>5. TypeOK'
  <2>1. \A o \in Ops : bytes'[o] \in Nat
    BY <1>1, <1>3, <1>4 DEF IInv, TypeOK
  <2>2. bytes' \in [Ops -> Nat]
    BY <1>4, <2>1
  <2>. QED BY <1>4, <2>2 DEF IInv, TypeOK, HandshakeStates, ConnectionSucceed, CreateResp
<1>6. Conservation'
  <2>1. \A o \in Ops \ {"wait", "connect", "accept"} : Unseen(o) = 0 /\ Unseen(o)' = 0
    BY <1>3, <1>4 DEF Unseen
  <2>. QED BY <2>1 DEF IInv, TypeOK, Conservation
<1>7. ControlInv'
  BY <1>4 DEF IInv, ControlInv, ConnectionSucceed
<1>8. BytesInv'
  <2>1. \A d \in Dirs : BytesOf(d)'
    BY <1>1, <1>3, BufferAssumption DEF IInv, TypeOK, BytesOf
  <2>2. \A o \in Ops : op'[o] = "idle" \/ o \in {"connect", "accept", "wait"} => bytes'[o] = 0
    BY <1>3, <1>4
  <2>. QED BY <1>4, <2>1, <2>2, BufferAssumption DEF BytesInv
<1>9. FillInv'
  <2>1. \A d \in Dirs : FillOf(d)'
    BY <1>1, <1>3, BufferAssumption DEF IInv, TypeOK, FillOf
  <2>. QED BY <1>4, <2>1 DEF FillInv, ConnectionSucceed
<1>10. StreamInv'
  BY <1>1, <1>3 DEF StreamInv, StreamOf
<1>11. BusyInv'
  BY <1>3 DEF IInv, TypeOK, BusyInv, BusyOf
<1>12. DestInv'
  BY <1>4 DEF IInv, DestInv, ConnectionSucceed
<1>. QED BY <1>5, <1>6, <1>7, <1>8, <1>9, <1>10, <1>11, <1>12 DEF IInv

(* The destination was connected, or the session ends.                     *)
LEMMA ConnectHandlerStep ==
    ASSUME IInv, ConnectHandler
    PROVE  IInv'
<1>1. state = "WaitConnect" /\ (\A o \in Ops \ {"connect"} : op[o] = "idle") /\ ~loop
  BY DEF IInv, ControlInv, ConnectHandler
<1>2. CASE outcome["connect"] = "ok"
  <2>. DEFINE ops == [op EXCEPT !["connect"] = "idle"]
  <2>1. ops \in [Ops -> {"idle", "pending", "done"}] /\ \A o \in Ops : ops[o] = "idle"
    BY <1>1 DEF IInv, TypeOK
  <2>2. ForwardTraffic(ops) /\ ConnectionSucceed
    BY <1>2 DEF ConnectHandler
  <2>3. end["dest"] # "none" /\ outcome' \in [Ops -> Outcomes]
    BY <1>2 DEF IInv, TypeOK, DestInv, ConnectHandler, Outcomes
  <2>. HIDE DEF ops
  <2>. QED BY <1>1, <2>1, <2>2, <2>3, ForwardingStarts DEF ConnectHandler
<1>3. CASE outcome["connect"] # "ok"
  <2>1. /\ op' = [op EXCEPT !["connect"] = "idle"]
        /\ UNCHANGED <<state, required, loop, buff, readable, writable, outcome, bytes, peerVars>>
    BY <1>3 DEF ConnectHandler, peerVars
  <2>2. TypeOK' /\ Conservation' /\ ControlInv'
    BY <1>1, <2>1 DEF IInv, TypeOK, Conservation, Unseen, ControlInv, Forwarding, ReplySent, peerVars
  <2>3. BytesInv' /\ FillInv' /\ BusyInv'
    BY <1>1, <2>1 DEF IInv, TypeOK, BytesInv, BytesOf, FillInv, FillOf, BusyInv, BusyOf, peerVars
  <2>4. StreamInv' /\ DestInv'
    BY <1>1, <1>3, <2>1 DEF IInv, TypeOK, StreamInv, StreamOf, Undisturbed, DestInv, ReplySent, peerVars
  <2>. QED BY <2>2, <2>3, <2>4 DEF IInv
<1>. QED BY <1>2, <1>3

(* An inbound connection was accepted, or the session ends.                *)
LEMMA AcceptHandlerStep ==
    ASSUME IInv, AcceptHandler
    PROVE  IInv'
<1>. DEFINE ops == Cancelled("wait", [op EXCEPT !["accept"] = "idle"])
<1>1. /\ state \in {"WaitAccept", "Fail"} /\ (\A o \in Ops \ {"accept", "wait"} : op[o] = "idle")
      /\ ~loop /\ op["accept"] = "done"
  BY DEF IInv, ControlInv, AcceptHandler
<1>2. /\ ops \in [Ops -> {"idle", "pending", "done"}]
      /\ \A o \in Ops \ {"wait"} : ops[o] = "idle"
      /\ ops["wait"] = "idle" <=> op["wait"] = "idle"
  BY <1>1 DEF IInv, TypeOK, Cancelled
<1>3. outcome' \in [Ops -> Outcomes] /\ \A o \in Ops \ {"wait"} : outcome'[o] = outcome[o]
  BY DEF IInv, TypeOK, AcceptHandler, CancelOutcome, Outcomes
<1>4. CASE outcome["accept"] = "ok" /\ state = "WaitAccept"
  <2>1. ForwardTraffic(ops) /\ ConnectionSucceed
    BY <1>4 DEF AcceptHandler
  <2>2. end["dest"] # "none"
    BY <1>1, <1>4 DEF IInv, DestInv
  <2>. HIDE DEF ops
  <2>. QED BY <1>1, <1>2, <1>3, <1>4, <2>1, <2>2, ForwardingStarts DEF AcceptHandler
<1>5. CASE outcome["accept"] # "ok" \/ state # "WaitAccept"
  <2>1. /\ op' = ops
        /\ state' = state
        /\ UNCHANGED <<required, loop, buff, readable, writable, bytes, peerVars>>
    BY <1>1, <1>5 DEF AcceptHandler, peerVars
  <2>. HIDE DEF ops
  <2>2. TypeOK' /\ Conservation'
    BY <1>1, <1>2, <1>3, <2>1 DEF IInv, TypeOK, Conservation, Unseen, Outcomes, peerVars
  <2>3. ControlInv'
    BY <1>1, <1>2, <2>1 DEF IInv, ControlInv, Forwarding, ReplySent, peerVars
  <2>4. BytesInv' /\ FillInv' /\ BusyInv'
    BY <1>1, <1>2, <2>1 DEF IInv, TypeOK, BytesInv, BytesOf, FillInv, FillOf, BusyInv, BusyOf, peerVars
  <2>5. StreamInv'
    BY <1>1, <1>2, <1>3, <2>1 DEF IInv, TypeOK, StreamInv, StreamOf, Undisturbed, peerVars
  <2>6. DestInv'
    BY <1>1, <1>2, <1>3, <1>5, <2>1 DEF IInv, DestInv, ControlInv, ReplySent, peerVars
  <2>. QED BY <2>2, <2>3, <2>4, <2>5, <2>6 DEF IInv
<1>. QED BY <1>4, <1>5

----------------------------------------------------------------------------
(* The theorems.                                                           *)

(* A new session satisfies the invariant.                                  *)
LEMMA InitInv ==
    ASSUME Init
    PROVE  IInv
<1>1. 2 \in 0..255
  OBVIOUS
<1>2. TypeOK
  BY <1>1 DEF Init, TypeOK, HandshakeStates
<1>3. Conservation /\ ControlInv
  BY DEF Init, Conservation, Unseen, ControlInv, Parsing, Forwarding
<1>4. BytesInv /\ FillInv
  BY BufferAssumption DEF Init, BytesInv, BytesOf, FillInv
<1>5. StreamInv /\ BusyInv /\ DestInv
  BY DEF Init, StreamInv, StreamOf, Undisturbed, BusyInv, DestInv
<1>. QED BY <1>2, <1>3, <1>4, <1>5 DEF IInv

(* IInv holds in every state of every session, whatever the order in which *)
(* the kernel completes operations and the strand runs their handlers, for *)
(* every buffer limit, read size and amount of traffic.                    *)
THEOREM Invariance == Spec => []IInv
<1>1. ASSUME IInv, [Next]_vars
      PROVE  IInv'
  <2>1. CASE Handlers
    BY <1>1, <2>1, HandshakeHandlerStep, ParseStep, RequestAddrStep, RequestBindStep,
       ProceedStopsStep, ConnectHandlerStep, AcceptHandlerStep, WaitHandlerStep,
       ReadHandlerStep, WriteHandlerStep
       DEF Handlers, ClientReadHandler, DestReadHandler, ClientWriteHandler, DestWriteHandler
  <2>2. CASE Kernel
    BY <1>1, <2>2, HandshakeReadCompletesStep, ReadCompletesStep, WriteCompletesStep,
       ConnectCompletesStep, WaitCompletesStep DEF Kernel
  <2>3. CASE PeersMove
    BY <1>1, <2>3, AcceptCompletesStep, PeerSendsStep, PeerEndsStep DEF PeersMove
  <2>4. CASE UNCHANGED vars
    <3>. USE <1>1, <2>4 DEF IInv, vars, bridgeVars, peerVars
    <3>1. TypeOK' /\ Conservation'
      BY DEF TypeOK, Conservation, Unseen
    <3>2. ControlInv' /\ BytesInv'
      BY DEF ControlInv, ReplySent, BytesInv, BytesOf
    <3>3. FillInv' /\ StreamInv'
      BY DEF FillInv, FillOf, StreamInv, StreamOf, Undisturbed
    <3>4. BusyInv' /\ DestInv'
      BY DEF BusyInv, BusyOf, DestInv, ReplySent
    <3>. QED BY <3>1, <3>2, <3>3, <3>4
  <2>. QED BY <1>1, <2>1, <2>2, <2>3, <2>4 DEF Next
<1>. QED BY <1>1, InitInv, PTL DEF Spec

(* Type correctness of the session, among it that no counter and no buffer *)
(* goes below zero (Takes, WriteHandler).                                  *)
THEOREM TypeCorrect == Spec => []TypeOK
<1>1. IInv => TypeOK
  BY DEF IInv
<1>. QED BY <1>1, Invariance, PTL

(* No byte of a stream is lost, invented or forwarded twice by the reads   *)
(* and writes of proxy_bridge.cc, in either direction.                     *)
THEOREM BytesConserved == Spec => []Conservation
<1>1. IInv => Conservation
  BY DEF IInv
<1>. QED BY <1>1, Invariance, PTL

(* Where the bridge has passed the end of a stream on, the source has      *)
(* ended it and nothing of it is left between the two peers.               *)
LEMMA EndIsLast ==
    ASSUME IInv, NEW d \in Dirs, Sink(d) \in fin, Undisturbed
    PROVE  end[Source(d)] = "fin" /\ delivered[d] = Traffic(d)
<1>1. /\ d \notin readable /\ buff[d] = 0 /\ op[ReadOp(d)] = "idle" /\ state = "Success"
      /\ end[Source(d)] = "fin" /\ in[Source(d)] = 0
  BY DEF IInv, StreamInv, StreamOf, ControlInv
<1>2. op["handshake"] = "idle" /\ op[WriteOp(d)] = "idle"
  BY <1>1 DEF IInv, TypeOK, BytesInv, BytesOf, ControlInv, Parsing
<1>. QED BY <1>1, <1>2 DEF IInv, TypeOK, Conservation, Unseen, Traffic

(* The bridge shuts down sending to a peer only after the other peer ended *)
(* its stream and its last byte was handed over.                           *)
THEOREM FinAfterData == Spec => []FinFollowsData
<1>1. IInv => FinFollowsData
  BY EndIsLast DEF FinFollowsData
<1>. QED BY <1>1, Invariance, PTL

(* A forwarding session that has no operation left, and is therefore       *)
(* destroyed, has passed on everything both peers sent, and both ends.     *)
THEOREM EndsCorrectly == Spec => []EndsWhenDone
<1>1. ASSUME IInv, state = "Success", ~Alive, Undisturbed, NEW d \in Dirs
      PROVE  Sink(d) \in fin
  <2>1. op[ReadOp(d)] = "idle" /\ op[WriteOp(d)] = "idle" /\ BusyOf(d) /\ StreamOf(d)
    BY <1>1 DEF IInv, Alive, BusyInv, StreamInv
  <2>2. buff[d] \in Nat /\ kMaxBufferSize > 0
    BY <1>1, BufferAssumption DEF IInv, TypeOK
  <2>. QED BY <1>1, <2>1, <2>2 DEF BusyOf, StreamOf
<1>2. IInv => EndsWhenDone
  BY <1>1, EndIsLast DEF EndsWhenDone
<1>. QED BY <1>2, Invariance, PTL

(* No write is outstanding on a socket that was shut down for sending.     *)
THEOREM WritesPrecedeFin == Spec => []NoWriteAfterFin
<1>1. IInv => NoWriteAfterFin
  BY DEF IInv, TypeOK, NoWriteAfterFin, StreamInv, StreamOf, BytesInv, BytesOf
<1>. QED BY <1>1, Invariance, PTL

(* Back pressure: a buffer exceeds kMaxBufferSize by less than one read.   *)
THEOREM BuffersAreBounded == Spec => []BufferBounded
<1>1. ASSUME IInv, state = "Success", NEW d \in Dirs
      PROVE  buff[d] + Unseen(ReadOp(d)) < kMaxBufferSize + ReadLimit
  <2>1. FillOf(d) /\ BytesOf(d) /\ buff[d] \in Nat /\ bytes[ReadOp(d)] \in Nat
    BY <1>1 DEF IInv, TypeOK, FillInv, BytesInv
  <2>. QED BY <2>1, BufferAssumption DEF FillOf, BytesOf, Unseen
<1>2. IInv => BufferBounded
  BY <1>1 DEF BufferBounded
<1>. QED BY <1>2, Invariance, PTL

(* An inbound connection accepted for a BIND request is never dropped in   *)
(* favour of the cancellation that raced with it.                          *)
THEOREM AcceptedServed == Spec => []AcceptedIsServed
<1>1. IInv => AcceptedIsServed
  BY DEF IInv, AcceptedIsServed, DestInv
<1>. QED BY <1>1, Invariance, PTL

----------------------------------------------------------------------------
(* The traffic buffer.                                                     *)

USE DEF Null

(* What is assumed of the sizes.                                           *)
LEMMA CapacityNat == Capacity \in Nat /\ Capacity > 0 /\ MaxBlocks \in Nat
  BY TrafficAssumption

(* The numbers of the blocks.                                              *)
LEMMA BlocksAre == \A k : k \in Blocks <=> k \in Nat /\ 1 <= k /\ k <= MaxBlocks
  BY CapacityNat DEF Blocks

(* The types, as the provers need them.                                    *)
LEMMA Typed ==
    ASSUME BufferTypeOK
    PROVE  /\ head_ \in Nat /\ end_ \in Nat /\ tail_ \in Nat
           /\ head_ <= MaxBlocks /\ end_ <= MaxBlocks /\ tail_ <= MaxBlocks
           /\ block_cnt_ \in Int /\ data_size_ \in Int
           /\ received \in Nat /\ Len(wire) \in Nat /\ Committed \in Int /\ Drained \in Int
           /\ \A k \in Blocks : /\ k \in Nat /\ offset[k] \in Nat /\ len[k] \in Nat /\ base[k] \in Int
                                /\ space[k].from \in Nat /\ space[k].size \in Nat
                                /\ view[k].from \in Nat /\ view[k].size \in Nat
<1>1. \A k \in Blocks : /\ k \in Nat /\ offset[k] \in Nat /\ len[k] \in Nat /\ base[k] \in Int
                                /\ space[k].from \in Nat /\ space[k].size \in Nat
                                /\ view[k].from \in Nat /\ view[k].size \in Nat
    BY BlocksAre DEF BufferTypeOK
<1>2. /\ head_ \in Nat /\ end_ \in Nat /\ tail_ \in Nat
           /\ head_ <= MaxBlocks /\ end_ <= MaxBlocks /\ tail_ <= MaxBlocks
           /\ block_cnt_ \in Int /\ data_size_ \in Int
    BY CapacityNat DEF BufferTypeOK
<1>3. received \in Nat /\ Len(wire) \in Nat /\ fill.total \in Nat /\ take.total \in Nat
    BY DEF BufferTypeOK
<1> QED BY <1>1, <1>2, <1>3 DEF Committed, Drained

(* The same for the cursors and the call.                                  *)
LEMMA Cursors ==
    ASSUME BufferTypeOK
    PROVE  /\ fill.block \in Nat /\ fill.block <= MaxBlocks /\ fill.n \in Nat
           /\ fill.total \in Nat
           /\ take.block \in Nat /\ take.block <= MaxBlocks /\ take.n \in Nat
           /\ take.total \in Nat
           /\ call.block \in Nat /\ call.block <= MaxBlocks /\ call.rem \in Nat
           /\ call.size \in Nat
           /\ CommittedNow \in Int /\ DrainedNow \in Int
           /\ fill.block # Null => fill.block \in Blocks
           /\ take.block # Null => take.block \in Blocks
           /\ call.block # Null => call.block \in Blocks
<1>1. /\ fill.block \in Nat /\ fill.block <= MaxBlocks /\ fill.n \in Nat /\ fill.total \in Nat
      /\ take.block \in Nat /\ take.block <= MaxBlocks /\ take.n \in Nat /\ take.total \in Nat
      /\ call.block \in Nat /\ call.block <= MaxBlocks /\ call.rem \in Nat /\ call.size \in Nat
    BY CapacityNat DEF BufferTypeOK
<1>2. Committed \in Int /\ Drained \in Int
    BY Typed
<1>3. CommittedNow \in Int
    BY <1>1, <1>2 DEF CommittedNow
<1>4. DrainedNow \in Int
    BY <1>1, <1>2 DEF DrainedNow
<1> QED BY <1>1, <1>3, <1>4, BlocksAre

(* The chain goes from head_ to tail_.                                     *)
LEMMA ChainIs ==
    ASSUME BufferTypeOK, NEW k
    PROVE  k \in Chain <=> k \in Nat /\ head_ # 0 /\ head_ <= k /\ k <= tail_
<1>1. k \in Chain <=> k \in Blocks /\ head_ # 0 /\ head_ <= k /\ k <= tail_
    BY DEF Chain, InChain
<1>2. head_ \in Nat /\ tail_ \in Nat /\ tail_ <= MaxBlocks /\ MaxBlocks \in Nat
    BY Typed, CapacityNat
<1>3. k \in Blocks <=> k \in Nat /\ 1 <= k /\ k <= MaxBlocks
    BY BlocksAre
<1> QED BY <1>1, <1>2, <1>3

(* What leaves the chain alone.                                            *)
LEMMA ChainSame ==
    ASSUME ChainInv, PlaceInv, CountInv, UNCHANGED <<chainVars, base>>,
           CommittedNow' = CommittedNow, DrainedNow' = DrainedNow,
           call.op = "drain" => call'.op = "drain"
    PROVE  ChainInv' /\ PlaceInv' /\ CountInv'
<1>1. Chain' = Chain
    BY DEF Chain, InChain, chainVars
<1>2. ChainInv'
    BY <1>1 DEF ChainInv, chainVars
<1>3. PlaceInv'
    BY <1>1 DEF PlaceInv, chainVars
<1>4. CountInv'
    BY DEF CountInv, chainVars
<1> QED BY <1>2, <1>3, <1>4

(* What leaves the memory alone.                                           *)
LEMMA MemSame ==
    ASSUME MemInv, Chain' = Chain, UNCHANGED <<offset, base, mem, received>>
    PROVE  MemInv'
  BY DEF MemInv

(* What leaves the reserved space alone.                                   *)
LEMMA SpaceSame ==
    ASSUME SpaceInv, Chain' = Chain, UNCHANGED <<base, reserved_, fill, space, received>>,
           call'.op # "reserve", call.op # "reserve", call'.op = "commit" => reserved_
    PROVE  SpaceInv'
<1>1. Committed' = Committed
    BY DEF Committed
<1> QED BY <1>1 DEF SpaceInv, Contiguous

(* What leaves the peeked data alone, though more may be committed.        *)
LEMMA ViewSame ==
    ASSUME ViewInv, BufferTypeOK, UNCHANGED <<chainVars, base, peeked_, take, view, wire>>,
           Committed' \in Int, Committed' >= Committed,
           call.op = "drain" => call'.op = "drain", call'.op = "drain" => peeked_
    PROVE  ViewInv'
<1>1. Chain' = Chain
    BY DEF Chain, InChain, chainVars
<1>2. \A k \in Blocks : /\ view[k].from \in Nat /\ view[k].size \in Nat /\ base[k] \in Int
                        /\ Committed \in Int
    BY Typed
<1>3. CASE call'.op = "drain"
    BY <1>3 DEF ViewInv
<1>4. CASE call'.op # "drain"
    BY <1>1, <1>2, <1>4 DEF ViewInv, Contiguous, chainVars
<1> QED BY <1>3, <1>4

(* The chain depends on head_ and tail_ alone.                             *)
LEMMA SameChain ==
    ASSUME UNCHANGED chainVars
    PROVE  Chain' = Chain
  BY DEF Chain, InChain, chainVars

(* Where space begins.                                                     *)
LEMMA StepperPlace ==
    ASSUME BufferTypeOK, ChainInv, PlaceInv, call.op # "drain"
    PROVE  /\ SpaceStepper # Null => /\ SpaceStepper \in Chain
                                     /\ end_ <= SpaceStepper /\ SpaceStepper <= end_ + 1
                                     /\ base[SpaceStepper] + offset[SpaceStepper] + len[SpaceStepper]
                                          = CommittedNow
                                     /\ offset[SpaceStepper] + len[SpaceStepper] < Capacity
           /\ SpaceStepper = Null =>
                 \/ head_ = Null /\ end_ = Null
                 \/ /\ head_ # Null /\ end_ = tail_ /\ end_ \in Chain
                    /\ offset[end_] + len[end_] = Capacity
<1> USE CapacityNat
<1>0. /\ head_ \in Nat /\ end_ \in Nat /\ tail_ \in Nat
      /\ (head_ = Null => end_ = Null) /\ head_ <= end_
      /\ (head_ # Null => end_ <= tail_)
    BY Typed DEF ChainInv
<1>1. CASE end_ = Null
    BY <1>0, <1>1 DEF SpaceStepper
<1>2. CASE end_ # Null
    <2>1. end_ \in Chain /\ head_ # Null
        BY <1>0, <1>2, ChainIs
    <2>2. /\ base[end_] + offset[end_] + len[end_] = CommittedNow
          /\ offset[end_] + len[end_] <= Capacity
          /\ offset[end_] \in Nat /\ len[end_] \in Nat /\ base[end_] \in Int
        BY <2>1, Typed DEF PlaceInv, ChainInv, Chain
    <2>3. CASE offset[end_] + len[end_] < Capacity
        <3>0. SpaceLen(end_) # 0
            BY <2>2, <2>3 DEF SpaceLen
        <3>1. SpaceStepper = end_
            BY <3>0 DEF SpaceStepper
        <3> QED BY <1>0, <2>1, <2>2, <2>3, <3>1, <1>2
    <2>4. CASE offset[end_] + len[end_] = Capacity /\ end_ = tail_
        <3>1. SpaceStepper = Null
            BY <1>0, <1>2, <2>2, <2>4 DEF SpaceStepper, SpaceLen, next
        <3> QED BY <2>1, <2>2, <2>4, <3>1
    <2>5. CASE offset[end_] + len[end_] = Capacity /\ end_ < tail_
        <3>1. SpaceStepper = end_ + 1
            BY <1>2, <2>2, <2>5 DEF SpaceStepper, SpaceLen, next
        <3>2. end_ + 1 \in Chain
            BY <2>1, <2>5, <1>0, ChainIs
        <3>3. offset[end_ + 1] = 0 /\ len[end_ + 1] = 0
            BY <1>0, <3>2 DEF ChainInv
        <3>4. base[end_ + 1] = base[end_] + Capacity
            BY <2>1, <2>5 DEF PlaceInv
        <3>5. base[SpaceStepper] + offset[SpaceStepper] + len[SpaceStepper] = CommittedNow
            BY <1>0, <2>2, <2>5, <3>1, <3>3, <3>4
        <3> QED BY <1>0, <3>1, <3>2, <3>3, <3>5
    <2> QED BY <1>0, <2>1, <2>2, <2>3, <2>4, <2>5
<1> QED BY <1>1, <1>2

(* Reserve starts: nothing is reserved yet.                                *)
LEMMA ReserveKeeps ==
    ASSUME BufferInv, NEW size \in ReserveSizes, NEW exact \in BOOLEAN, Reserve(size, exact)
    PROVE  BufferInv'
<1> USE DEF BufferInv
<1>0. /\ size \in Nat /\ size > 0 /\ call.op = "none" /\ ~reserved_
      /\ call' = [op |-> "reserve", size |-> size, rem |-> size, block |-> SpaceStepper,
                  exact |-> exact]
    BY TrafficAssumption DEF Reserve
<1>1. fill' = fill /\ \A k \in Blocks : space[k].size = 0 /\ space'[k].size = 0
    BY DEF Reserve, SpaceInv, NoBuffer
<1>2. SpaceStepper \in 0..MaxBlocks
    BY CapacityNat DEF SpaceStepper, next, BufferTypeOK, Null
<1>3. BufferTypeOK'
    <2>1. space' \in [Blocks -> [from : Nat, size : Nat]]
        BY DEF Reserve, NoBuffer
    <2>2. /\ UNCHANGED <<head_, end_, tail_, block_cnt_, offset, len, data_size_, peeked_, mem,
                         view, take, received, wire, base>>
          /\ reserved_' = TRUE
        BY DEF Reserve, chainVars
    <2>3. call' \in [op : {"none", "reserve", "commit", "drain"}, size : Nat, rem : Nat,
                 block : 0..MaxBlocks, exact : BOOLEAN]
        BY <1>0, <1>2
    <2> QED BY <1>1, <2>1, <2>2, <2>3 DEF BufferTypeOK
<1>4. /\ Committed' = Committed /\ Drained' = Drained /\ CommittedNow' = CommittedNow
      /\ DrainedNow' = DrainedNow
    BY <1>0, <1>1 DEF Reserve, Committed, Drained, CommittedNow, DrainedNow
<1>5. ChainInv' /\ PlaceInv' /\ CountInv'
    BY <1>0, <1>4, ChainSame DEF Reserve
<1>6. SizeInv'
    BY <1>4 DEF SizeInv, Reserve
<1>7. MemInv'
    BY MemSame, SameChain DEF Reserve, chainVars
<1>8. SpaceInv'
    BY <1>0, <1>1 DEF SpaceInv, Reserve, NoCursor, Null
<1>9. ReserveInv'
    <2>1. SpaceStepper' = SpaceStepper
        BY DEF Reserve, SpaceStepper, SpaceLen, next, chainVars
    <2>2. fill' = NoCursor /\ tail_' = tail_ /\ tail_ + size <= MaxBlocks
        BY DEF Reserve, chainVars
    <2> QED BY <1>0, <1>1, <2>1, <2>2, CapacityNat DEF ReserveInv, NoCursor, Null, BufferTypeOK
<1>10. CommitInv' /\ DrainInv'
    BY <1>0 DEF CommitInv, DrainInv
<1>11. ViewInv'
    <2>1. Committed' \in Int /\ Committed' >= Committed
        BY <1>4, Typed
    <2> QED BY <1>0, <2>1, ViewSame DEF Reserve
<1>12. CallInv'
    BY <1>0, StepperPlace, SameChain DEF CallInv, Reserve
<1> QED BY <1>12, <1>3, <1>5, <1>6, <1>7, <1>8, <1>9, <1>10, <1>11

(* A new block follows the last one, or starts the chain where the data    *)
(* ends.                                                                   *)
LEMMA AppendKeeps ==
    ASSUME BufferInv, AppendNewBlock
    PROVE  BufferInv'
<1> DEFINE new == tail_ + 1
<1>i. /\ BufferTypeOK /\ ChainInv /\ PlaceInv /\ CountInv /\ SizeInv /\ MemInv
      /\ SpaceInv /\ CallInv /\ ReserveInv /\ CommitInv /\ ViewInv /\ DrainInv
    BY DEF BufferInv
<1>0. /\ call.op = "reserve" /\ call.block = Null
      /\ call' = [call EXCEPT !.block = new]
      /\ tail_' = new
      /\ offset' = [offset EXCEPT ![new] = 0]
      /\ len' = [len EXCEPT ![new] = 0]
      /\ base' = [base EXCEPT ![new] = IF head_ = Null THEN received ELSE base[tail_] + Capacity]
      /\ UNCHANGED <<data_size_, reserved_, peeked_, mem, space, fill, view, take, received, wire>>
    BY DEF AppendNewBlock, ioVars
<1>t. /\ head_ \in Nat /\ end_ \in Nat /\ tail_ \in Nat /\ Capacity \in Nat /\ Capacity > 0
      /\ tail_ <= MaxBlocks /\ MaxBlocks \in Nat /\ received \in Nat
      /\ call.rem \in Nat /\ fill.block \in Nat /\ fill.block <= MaxBlocks /\ call.size \in Nat
      /\ take.block \in Nat /\ block_cnt_ \in Int
    BY <1>i, Typed, Cursors, CapacityNat
<1>b. \A k \in Blocks : /\ k \in Nat /\ offset[k] \in Nat /\ len[k] \in Nat /\ base[k] \in Int
                        /\ space[k].from \in Nat /\ space[k].size \in Nat
                        /\ view[k].from \in Nat /\ view[k].size \in Nat
    BY <1>i, Typed
<1>c. /\ call'.op = "reserve" /\ call'.block = new /\ call'.rem = call.rem
      /\ call'.size = call.size
    BY <1>i, <1>0 DEF BufferTypeOK
<1>r. /\ fill.n = 0 /\ fill.total = 0 /\ call.rem > 0 /\ tail_ + call.rem <= MaxBlocks
      /\ fill.block = Null => call.block = SpaceStepper /\ \A k \in Blocks : space[k].size = 0
      /\ fill.block # Null =>
              /\ end_ <= tail_ /\ fill.block <= tail_
              /\ space[tail_].size > 0 /\ space[tail_].from + space[tail_].size = Capacity
              /\ \A k \in Blocks : k > tail_ => space[k].size = 0
    BY <1>i, <1>0 DEF ReserveInv
<1>1. new \in Blocks /\ new \in Nat /\ new > 0 /\ new <= MaxBlocks
    BY <1>r, <1>t, BlocksAre
<1>2. BufferTypeOK'
    <2>1. /\ head_' \in 0..MaxBlocks /\ end_' \in 0..MaxBlocks /\ block_cnt_' \in Int
          /\ tail_' \in 0..MaxBlocks
        <3>1. new \in 0..MaxBlocks
            BY <1>1, <1>t
        <3>2. head_' \in {head_, new} /\ end_' \in {end_, new} /\ block_cnt_' = block_cnt_ + 1
            BY DEF AppendNewBlock
        <3>3. head_ \in 0..MaxBlocks /\ end_ \in 0..MaxBlocks /\ block_cnt_' \in Int
            BY <1>t, <1>i, <3>2 DEF BufferTypeOK
        <3> HIDE DEF new
        <3> QED BY <1>0, <3>1, <3>2, <3>3
    <2>2. offset' \in [Blocks -> Nat] /\ len' \in [Blocks -> Nat]
        BY <1>0, <1>i DEF BufferTypeOK
    <2>3. base' \in [Blocks -> Int]
        <3>1. head_ # Null => base[tail_] \in Int
            <4>1. head_ # Null => tail_ \in Nat /\ 1 <= tail_ /\ tail_ <= MaxBlocks
                BY <1>i, <1>t DEF ChainInv
            <4> QED BY <4>1, <1>b, BlocksAre
        <3>2. (IF head_ = Null THEN received ELSE base[tail_] + Capacity) \in Int
            BY <1>t, <3>1
        <3> QED BY <1>i, <1>0, <3>2 DEF BufferTypeOK
    <2>4. call' \in [op : {"none", "reserve", "commit", "drain"}, size : Nat, rem : Nat,
                     block : 0..MaxBlocks, exact : BOOLEAN]
        <3>1. new \in 0..MaxBlocks
            BY <1>1, <1>t
        <3> HIDE DEF new
        <3> QED BY <1>i, <1>0, <3>1 DEF BufferTypeOK
    <2> QED BY <1>i, <1>0, <2>1, <2>2, <2>3, <2>4 DEF BufferTypeOK
<1>3. /\ Committed' = Committed /\ Drained' = Drained /\ CommittedNow' = CommittedNow
      /\ DrainedNow' = DrainedNow
    BY <1>0, <1>c DEF Committed, Drained, CommittedNow, DrainedNow
<1>4. SizeInv'
    BY <1>i, <1>0, <1>3 DEF SizeInv
<1>5. CommitInv' /\ DrainInv'
    BY <1>c DEF CommitInv, DrainInv
<1>6. Committed = received /\ CommittedNow = received
    BY <1>0, <1>r, <1>t DEF Committed, CommittedNow
<1>8. /\ \A k \in Blocks : k # new => offset'[k] = offset[k] /\ len'[k] = len[k] /\ base'[k] = base[k]
      /\ offset'[new] = 0 /\ len'[new] = 0
      /\ base'[new] = IF head_ = Null THEN received ELSE base[tail_] + Capacity
    BY <1>i, <1>0, <1>1 DEF BufferTypeOK
<1> HIDE DEF new
<1>9. CASE head_ = Null
    <2>1. /\ head_' = new /\ end_' = new /\ base'[new] = received
          /\ end_ = Null /\ block_cnt_' = 1 /\ DrainedNow = received
        BY <1>i, <1>0, <1>6, <1>8, <1>9 DEF AppendNewBlock, ChainInv, PlaceInv, CountInv, new
    <2>2. Chain = {} /\ Chain' = {new}
        <3>1. Chain = {}
            BY <1>9 DEF Chain, InChain
        <3>2. \A k \in Blocks : InChain(k)' <=> k = new
            BY <1>0, <1>1, <1>b, <2>1 DEF InChain
        <3> QED BY <1>1, <3>1, <3>2 DEF Chain
    <2>3. ChainInv'
        BY <1>0, <1>1, <1>8, <1>c, <1>t, <2>1, <2>2 DEF ChainInv
    <2>4. PlaceInv'
        BY <1>0, <1>1, <1>3, <1>6, <1>8, <1>t, <2>1, <2>2 DEF PlaceInv
    <2>5. CountInv'
        BY <1>0, <1>1, <1>8, <1>t, <2>1 DEF CountInv
    <2>6. MemInv'
        BY <1>0, <1>t, <2>1, <2>2 DEF MemInv, Cells
    <2>7. \A k \in Blocks : space[k].size = 0 /\ view[k].size = 0
        BY <1>i, <1>0, <1>b, <2>2 DEF SpaceInv, ViewInv
    <2>8. fill.block = Null
        BY <1>i, <1>t, <2>7, BlocksAre DEF SpaceInv
    <2>9. SpaceInv'
        BY <1>i, <1>0, <1>c, <2>7, <2>8 DEF SpaceInv
    <2>10. ViewInv'
        <3>1. take.block # Null =>
              /\ take.n <= view[take.block].size
              /\ ~(view[take.block].size > 0)
              /\ \A k \in Blocks : k > take.block => Contiguous(view, k)
            <4>1. take.block # Null => take.block \in Blocks /\ view[take.block].size = 0
                BY <1>i, <2>7, Cursors
            <4> QED BY <1>i, <1>0, <4>1 DEF ViewInv
        <3>2. \A k \in Blocks : ~(view[k].size > 0)
            BY <2>7
        <3> QED BY <1>i, <1>0, <1>c, <3>1, <3>2 DEF ViewInv, Contiguous
    <2>11. SpaceStepper' = new
        <3>1. Capacity - offset'[new] - len'[new] = Capacity
            BY <1>8, <1>t
        <3> QED BY <1>t, <2>1, <3>1 DEF SpaceStepper, SpaceLen
    <2>12. ReserveInv'
        BY <1>0, <1>1, <1>c, <1>r, <1>t, <2>8, <2>11 DEF ReserveInv, new
    <2>13. CallInv'
        BY <1>c, <2>2 DEF CallInv
    <2> QED BY <1>2, <1>4, <1>5, <2>3, <2>4, <2>5, <2>6, <2>9, <2>10, <2>12, <2>13 DEF BufferInv
<1>10. CASE head_ # Null
    <2>1. /\ head_' = head_ /\ end_' = end_ /\ base'[new] = base[tail_] + Capacity
          /\ block_cnt_' = block_cnt_ + 1 /\ end_ # Null /\ end_ <= tail_ /\ head_ <= end_
          /\ head_ <= tail_
        BY <1>i, <1>0, <1>8, <1>10 DEF AppendNewBlock, ChainInv
    <2>2. /\ Chain' = Chain \cup {new} /\ new \notin Chain /\ tail_ \in Chain
          /\ head_ \in Chain /\ end_ \in Chain
        <3>1. \A k : k \in Chain <=> k \in Nat /\ head_ <= k /\ k <= tail_
            BY <1>i, <1>10, ChainIs
        <3>2. \A k \in Blocks : InChain(k)' <=> k \in Nat /\ head_ <= k /\ k <= tail_ + 1
            BY <1>0, <1>10, <1>b, <2>1 DEF InChain, new
        <3>3. Chain' \subseteq Chain \cup {new}
            BY <1>t, <3>1, <3>2 DEF Chain, new
        <3>4. Chain \subseteq Chain'
            BY <1>t, <3>1, <3>2 DEF Chain, new
        <3>5. new \in Chain'
            BY <1>t, <1>1, <2>1, <3>2 DEF Chain, new
        <3>6. new \notin Chain /\ tail_ \in Chain /\ head_ \in Chain /\ end_ \in Chain
            BY <1>t, <2>1, <3>1 DEF new
        <3> QED BY <3>3, <3>4, <3>5, <3>6
    <2>3. /\ \A k \in Chain : k < new /\ k \in Blocks /\ k # new /\ base[k] \in Int /\ k \in Nat
          /\ \A k \in Chain : head_ <= k /\ k <= tail_
        BY <1>b, <1>t DEF Chain, InChain, new
    <2>4. ChainInv'
        BY <1>i, <1>0, <1>1, <1>8, <1>c, <1>t, <1>10, <2>1, <2>2, <2>3 DEF ChainInv, new
    <2>5. PlaceInv'
        <3>1. ASSUME NEW k \in Chain', k < tail_' PROVE base'[k + 1] = base'[k] + Capacity
            <4>1. CASE k = tail_
                BY <1>0, <1>t, <1>8, <2>1, <2>2, <2>3, <4>1 DEF new
            <4>2. CASE k # tail_
                <5>1. k \in Chain /\ k \in Nat /\ k < tail_
                    BY <3>1, <4>2, <1>0, <1>t, <2>2, <2>3 DEF new
                <5>2. k + 1 \in Chain
                    BY <5>1, <1>i, <1>t, <1>10, ChainIs, <2>3
                <5> QED BY <5>1, <5>2, <1>i, <1>8, <2>3 DEF PlaceInv
            <4> QED BY <4>1, <4>2
        <3>2. ASSUME NEW k \in Chain', NEW m \in Chain', k < m PROVE base'[k] + Capacity <= base'[m]
            <4>1. k \in Chain /\ base'[k] = base[k] /\ base[k] \in Int
                BY <3>2, <1>1, <1>8, <2>2, <2>3
            <4>2. CASE m \in Chain
                BY <4>1, <4>2, <3>2, <1>i, <1>8, <2>3 DEF PlaceInv
            <4>3. CASE m = new
                <5>1. k = tail_ \/ base[k] + Capacity <= base[tail_]
                    BY <4>1, <1>i, <2>2, <2>3, <1>t DEF PlaceInv
                <5> QED BY <5>1, <4>1, <4>3, <2>1, <1>t, <2>2, <2>3
            <4> QED BY <2>2, <4>2, <4>3
        <3>3. base'[head_] + offset'[head_] = DrainedNow
            BY <1>i, <1>8, <1>10, <2>2, <2>3 DEF PlaceInv
        <3>4. base'[end_] + offset'[end_] + len'[end_] = CommittedNow
            BY <1>i, <1>8, <2>2, <2>3 DEF PlaceInv
        <3> QED BY <1>3, <1>10, <1>t, <2>1, <3>1, <3>2, <3>3, <3>4 DEF PlaceInv
    <2>6. CountInv'
        BY <1>i, <1>0, <1>t, <1>8, <1>10, <2>1, <2>2, <2>3 DEF CountInv
    <2>7. MemInv'
        <3>1. SUFFICES ASSUME NEW k \in Chain', NEW j \in Cells, offset'[k] <= j, base'[k] + j < received
                       PROVE  mem[k][j] = Stream[base'[k] + j + 1]
            BY <1>0 DEF MemInv
        <3>2. CASE k = new
            <4>1. base[tail_] + Capacity >= received
                <5>1. /\ base[end_] + offset[end_] + len[end_] = received
                      /\ offset[end_] + len[end_] <= Capacity
                    BY <1>i, <1>6, <2>2 DEF PlaceInv, ChainInv
                <5>2. end_ = tail_ \/ base[end_] + Capacity <= base[tail_]
                    BY <1>i, <1>t, <2>1, <2>2 DEF PlaceInv
                <5> QED BY <5>1, <5>2, <1>b, <1>t, <2>2, <2>3
            <4> QED BY <3>1, <3>2, <4>1, <2>1, <2>2, <2>3, <1>t DEF Cells
        <3>3. CASE k # new
            BY <3>1, <3>3, <1>i, <1>8, <2>2, <2>3 DEF MemInv
        <3> QED BY <3>2, <3>3
    <2>8. SpaceInv'
        <3>1. \A k \in Blocks : space[k].size > 0 => k # new /\ k \in Chain
            BY <1>i, <1>b, <2>2 DEF SpaceInv
        <3>2. \A k \in Blocks : space[k].size > 0 =>
                  /\ k \in Chain' /\ space[k].from + space[k].size <= Capacity
                  /\ base'[k] + space[k].from >= Committed
            BY <1>i, <1>8, <2>2, <3>1 DEF SpaceInv
        <3>3. fill.block # Null =>
                /\ space[fill.block].size > 0
                /\ fill.n <= space[fill.block].size
                /\ base'[fill.block] + space[fill.block].from + fill.n = received
                /\ \A k \in Blocks : k > fill.block => Contiguous(space, k)
            BY <1>i, <1>t, <1>8, <3>1, BlocksAre DEF SpaceInv
        <3> QED BY <1>i, <1>0, <1>3, <1>c, <3>2, <3>3 DEF SpaceInv, Contiguous
    <2>9. ViewInv'
        <3>1. \A k \in Blocks : view[k].size > 0 => k # new /\ k \in Chain
            BY <1>i, <1>0, <1>b, <2>2 DEF ViewInv
        <3>2. \A k \in Blocks : view[k].size > 0 =>
              /\ k \in Chain' /\ take.block # Null
              /\ view[k].from = offset'[k] /\ view[k].size <= len'[k]
              /\ base'[k] + view[k].from + view[k].size <= Committed
            BY <1>i, <1>0, <1>8, <2>2, <3>1 DEF ViewInv
        <3>3. take.block # Null =>
              /\ take.n <= view[take.block].size
              /\ view[take.block].size > 0 =>
                    base'[take.block] + view[take.block].from + take.n = Len(wire)
              /\ \A k \in Blocks : k > take.block => Contiguous(view, k)
            BY <1>i, <1>0, <1>t, <1>8, <3>1, BlocksAre, Cursors DEF ViewInv
        <3> QED BY <1>i, <1>0, <1>3, <1>c, <3>2, <3>3 DEF ViewInv, Contiguous
    <2>10. fill.block = Null => SpaceStepper' = new
        <3>1. SUFFICES ASSUME fill.block = Null PROVE SpaceStepper' = new
            OBVIOUS
        <3>2. end_ = tail_ /\ offset[end_] + len[end_] = Capacity
            BY <3>1, <1>i, <1>0, <1>r, <1>10, StepperPlace
        <3>3. SpaceLen(end_)' = 0
            BY <3>2, <1>8, <1>b, <1>t, <2>1, <2>2, <2>3 DEF SpaceLen
        <3>4. next(end_)' = new
            BY <3>2, <1>0, <1>t, <2>1 DEF next, new
        <3> QED BY <2>1, <3>3, <3>4 DEF SpaceStepper
    <2>11. ReserveInv'
        <3>1. call'.block # Null /\ call'.block - 1 = tail_
            BY <1>1, <1>c, <1>t DEF new
        <3>2. fill.block # Null => \A k \in Blocks : k > tail_ => space[k].size = 0
            BY <1>r
        <3> QED BY <1>0, <1>c, <1>r, <1>t, <2>1, <2>10, <3>1, <3>2 DEF ReserveInv, new
    <2>12. CallInv'
        BY <1>c, <2>2 DEF CallInv
    <2> QED BY <1>2, <1>4, <1>5, <2>4, <2>5, <2>6, <2>7, <2>8, <2>9, <2>11, <2>12 DEF BufferInv
<1> QED BY <1>9, <1>10

(* A turn of Reserve adds a buffer behind the data and the buffers before  *)
(* it.                                                                     *)
LEMMA ReserveStepKeeps ==
    ASSUME BufferInv, ReserveStep
    PROVE  BufferInv'
<1> DEFINE k == call.block
           n == IF call.exact THEN Least(call.rem, SpaceLen(k)) ELSE SpaceLen(k)
           at == offset[k] + len[k]
<1>i. /\ BufferTypeOK /\ ChainInv /\ PlaceInv /\ CountInv /\ SizeInv /\ MemInv
      /\ SpaceInv /\ CallInv /\ ReserveInv /\ CommitInv /\ ViewInv /\ DrainInv
    BY DEF BufferInv
<1>0. /\ call.op = "reserve" /\ k # Null
      /\ space' = [space EXCEPT ![k] = [from |-> at, size |-> n]]
      /\ fill' = IF fill.block = Null THEN [fill EXCEPT !.block = k] ELSE fill
      /\ call' = IF n < call.rem THEN [call EXCEPT !.rem = @ - n, !.block = next(k)] ELSE NoCall
      /\ UNCHANGED <<chainVars, data_size_, reserved_, peeked_, mem, view, take, received, wire, base>>
    BY DEF ReserveStep
<1>t. /\ head_ \in Nat /\ end_ \in Nat /\ tail_ \in Nat /\ Capacity \in Nat /\ Capacity > 0
      /\ tail_ <= MaxBlocks /\ MaxBlocks \in Nat /\ received \in Nat
      /\ call.rem \in Nat /\ fill.block \in Nat /\ k \in Nat /\ k \in Blocks
    BY <1>i, <1>0, Typed, Cursors, CapacityNat
<1>b. \A b \in Blocks : /\ b \in Nat /\ offset[b] \in Nat /\ len[b] \in Nat /\ base[b] \in Int
                        /\ space[b].from \in Nat /\ space[b].size \in Nat
    BY <1>i, Typed
<1>r. /\ fill.n = 0 /\ fill.total = 0 /\ call.rem > 0 /\ tail_ + call.rem <= MaxBlocks + 1
      /\ fill.block = Null => k = SpaceStepper /\ \A b \in Blocks : space[b].size = 0
      /\ fill.block # Null =>
              /\ end_ <= k - 1 /\ fill.block <= k - 1 /\ k <= tail_
              /\ space[k - 1].size > 0 /\ space[k - 1].from + space[k - 1].size = Capacity
              /\ \A b \in Blocks : b > k - 1 => space[b].size = 0
    BY <1>i, <1>0 DEF ReserveInv
<1>6. Committed = received /\ CommittedNow = received
    BY <1>0, <1>r, <1>t DEF Committed, CommittedNow
<1>1. /\ k \in Chain /\ end_ <= k /\ k <= tail_ /\ at < Capacity /\ base[k] + at >= received
      /\ fill.block = Null => base[k] + at = received
      /\ fill.block # Null => at = 0
    <2>1. CASE fill.block = Null
        <3>1. /\ k \in Chain /\ end_ <= k /\ at < Capacity
              /\ base[k] + offset[k] + len[k] = received
            BY <1>i, <1>0, <1>6, <1>r, <2>1, StepperPlace
        <3> QED BY <1>b, <1>t, <2>1, <3>1 DEF Chain, InChain
    <2>2. CASE fill.block # Null
        <3>1. fill.block \in Chain
            BY <1>i, <2>2, Cursors DEF SpaceInv
        <3>2. head_ # Null /\ head_ <= end_ /\ end_ # Null
            BY <1>i, <1>0, <3>1 DEF Chain, InChain, ChainInv
        <3>3. k \in Chain /\ end_ \in Chain /\ end_ < k /\ head_ < k
            BY <1>i, <1>r, <1>t, <2>2, <3>2, ChainIs
        <3>4. offset[k] = 0 /\ len[k] = 0
            BY <1>i, <3>3 DEF ChainInv
        <3>5. /\ base[end_] + offset[end_] + len[end_] = received
              /\ offset[end_] + len[end_] <= Capacity
            BY <1>i, <1>6, <3>3 DEF PlaceInv, ChainInv
        <3>6. base[end_] + Capacity <= base[k]
            BY <1>i, <3>3 DEF PlaceInv
        <3>7. end_ \in Blocks
            BY <3>3 DEF Chain
        <3> QED BY <1>b, <1>r, <1>t, <2>2, <3>3, <3>4, <3>5, <3>6, <3>7
    <2> QED BY <2>1, <2>2
<1>2. /\ n \in Nat /\ n > 0 /\ at + n <= Capacity /\ at \in Nat
      /\ n < call.rem => at + n = Capacity
    <2>1. SpaceLen(k) = Capacity - at /\ SpaceLen(k) \in Nat /\ SpaceLen(k) > 0 /\ at \in Nat
        BY <1>1, <1>b, <1>t DEF SpaceLen
    <2> QED BY <2>1, <1>r, <1>t DEF Least
<1>3. /\ \A b \in Blocks : b # k => space'[b] = space[b]
      /\ space'[k].from = at /\ space'[k].size = n
    BY <1>i, <1>0, <1>t DEF BufferTypeOK
<1>4. /\ fill'.n = 0 /\ fill'.total = 0
      /\ fill'.block = IF fill.block = Null THEN k ELSE fill.block
      /\ fill' \in [block : 0..MaxBlocks, n : Nat, total : Nat]
    <2>1. k \in 0..MaxBlocks
        BY <1>i DEF BufferTypeOK
    <2> HIDE DEF k
    <2> QED BY <1>i, <1>0, <1>r, <2>1 DEF BufferTypeOK
<1>5. /\ next(k) = IF k < tail_ THEN k + 1 ELSE Null
      /\ next(k) \in 0..MaxBlocks
    BY <1>t DEF next
<1>7. /\ n < call.rem => /\ call'.op = "reserve" /\ call'.rem = call.rem - n
                         /\ call'.rem \in Nat /\ call'.rem > 0
                         /\ call'.block = next(k)
      /\ ~(n < call.rem) => call'.op = "none"
      /\ call' \in [op : {"none", "reserve", "commit", "drain"}, size : Nat, rem : Nat,
                    block : 0..MaxBlocks, exact : BOOLEAN]
    <2>1. CASE n < call.rem
        <3>1. call.rem - n \in Nat /\ call.rem - n > 0
            BY <1>2, <1>t, <2>1
        <3> HIDE DEF n, k
        <3> QED BY <1>i, <1>0, <1>5, <2>1, <3>1 DEF BufferTypeOK
    <2>2. CASE ~(n < call.rem)
        BY <1>0, <2>2, <1>t DEF NoCall
    <2> QED BY <2>1, <2>2
<1> HIDE DEF n, at
<1>8. BufferTypeOK'
    <2>1. space' \in [Blocks -> [from : Nat, size : Nat]]
        <3> HIDE DEF k
        <3> QED BY <1>i, <1>0, <1>2 DEF BufferTypeOK
    <2> QED BY <1>i, <1>0, <1>4, <1>7, <2>1 DEF BufferTypeOK, chainVars
<1>9. call'.op \in {"none", "reserve"}
    BY <1>7
<1>10. /\ Committed' = Committed /\ Drained' = Drained /\ CommittedNow' = CommittedNow
       /\ DrainedNow' = DrainedNow /\ Chain' = Chain /\ Committed \in Int
    <2>1. Chain' = Chain
        BY <1>0, SameChain
    <2>2. Committed' = Committed /\ Drained' = Drained /\ Committed \in Int /\ Drained \in Int
        BY <1>0, <1>4, <1>r, <1>i, Typed DEF Committed, Drained
    <2> QED BY <1>0, <1>9, <2>1, <2>2 DEF CommittedNow, DrainedNow
<1>11. ChainInv' /\ PlaceInv' /\ CountInv'
    BY <1>i, <1>0, <1>10, ChainSame
<1>12. SizeInv'
    BY <1>i, <1>0, <1>10 DEF SizeInv
<1>13. MemInv'
    BY <1>i, <1>0, <1>10, MemSame DEF chainVars
<1>14. ViewInv'
    <2>1. Committed' \in Int /\ Committed' >= Committed
        BY <1>10
    <2> QED BY <1>i, <1>0, <1>9, <2>1, ViewSame
<1>15. CommitInv' /\ DrainInv'
    BY <1>9 DEF CommitInv, DrainInv
<1>16. SpaceInv'
    <2>1. reserved_
        BY <1>i, <1>0 DEF SpaceInv
    <2>2. fill'.block # Null
        BY <1>4, <1>0
    <2>3. ASSUME NEW b \in Blocks, space'[b].size > 0
          PROVE  /\ b \in Chain /\ space'[b].from + space'[b].size <= Capacity
                 /\ base[b] + space'[b].from >= Committed
        <3>1. CASE b = k
            BY <1>1, <1>2, <1>3, <1>6, <3>1
        <3>2. CASE b # k
            BY <1>i, <1>3, <2>3, <3>2 DEF SpaceInv
        <3> QED BY <3>1, <3>2
    <2>4. /\ space'[fill'.block].size > 0
          /\ fill'.n <= space'[fill'.block].size
          /\ base[fill'.block] + space'[fill'.block].from + fill'.n = received
        <3>1. CASE fill.block = Null
            BY <1>1, <1>2, <1>3, <1>4, <1>b, <1>t, <3>1
        <3>2. CASE fill.block # Null
            <4>1. fill.block \in Blocks /\ fill.block # k
                BY <1>i, <1>r, <1>t, <3>2, Cursors
            <4>2. /\ space[fill.block].size > 0
                  /\ base[fill.block] + space[fill.block].from + fill.n = received
                BY <1>i, <3>2 DEF SpaceInv
            <4> QED BY <1>3, <1>4, <1>b, <1>r, <3>2, <4>1, <4>2
        <3> QED BY <3>1, <3>2
    <2>5. ASSUME NEW b \in Blocks, b > fill'.block
          PROVE  Contiguous(space', b)
        <3>1. CASE b > k
            <4>1. space'[b].size = 0
                BY <1>3, <1>b, <1>r, <1>t, <3>1
            <4> QED BY <4>1 DEF Contiguous
        <3>2. CASE b = k
            <4>1. fill.block # Null /\ k - 1 \in Blocks /\ k - 1 # k
                BY <1>4, <1>r, <1>t, <2>5, <3>2, BlocksAre
            <4> QED BY <1>1, <1>3, <1>r, <3>2, <4>1 DEF Contiguous
        <3>3. CASE b < k
            <4>1. fill.block # Null /\ b > fill.block
                BY <1>4, <1>b, <1>t, <2>5, <3>3
            <4>2. Contiguous(space, b)
                BY <1>i, <4>1 DEF SpaceInv
            <4>3. b # k /\ b - 1 # k /\ (b > 1 => b - 1 \in Blocks)
                BY <1>b, <1>t, <3>3, BlocksAre
            <4> QED BY <1>3, <4>2, <4>3 DEF Contiguous
        <3> QED BY <1>b, <1>t, <3>1, <3>2, <3>3
    <2>6. \A b \in Blocks : b > fill'.block => Contiguous(space, b)'
        BY <2>5 DEF Contiguous
    <2> QED BY <1>0, <1>10, <2>1, <2>2, <2>3, <2>4, <2>6 DEF SpaceInv
<1>17. ReserveInv'
    <2>1. SUFFICES ASSUME n < call.rem PROVE ReserveInv'
        BY <1>7 DEF ReserveInv
    <2>2. tail_' = tail_ /\ end_' = end_ /\ fill'.block # Null /\ fill'.block <= k
        BY <1>0, <1>4, <1>r, <1>t DEF chainVars
    <2>3. tail_ + call'.rem <= MaxBlocks
        BY <1>2, <1>7, <1>r, <1>t, <2>1
    <2>4. \A b \in Blocks : b > k => space'[b].size = 0
        BY <1>3, <1>b, <1>r, <1>t
    <2>5. space'[k].size > 0 /\ space'[k].from + space'[k].size = Capacity
        BY <1>2, <1>3, <2>1
    <2>6. (IF call'.block = Null THEN tail_ ELSE call'.block - 1) = k /\ call'.block <= tail_
        BY <1>1, <1>5, <1>7, <1>t, <2>1
    <2> HIDE DEF k
    <2>7. tail_ + call'.rem <= (IF call'.block = Null THEN MaxBlocks ELSE MaxBlocks + 1)
        BY <1>7, <1>t, <2>1, <2>3
    <2> QED BY <1>1, <1>4, <1>7, <2>1, <2>2, <2>4, <2>5, <2>6, <2>7 DEF ReserveInv
<1>18. CallInv'
    <2>1. CASE n < call.rem
        <3>1. next(k) # Null => next(k) = k + 1 /\ k < tail_ /\ head_ # Null /\ head_ <= k
            BY <1>1, <1>5 DEF Chain, InChain
        <3>2. next(k) # Null => next(k) \in Chain
            BY <1>i, <1>t, <3>1, ChainIs
        <3> HIDE DEF k
        <3> QED BY <1>7, <1>10, <2>1, <3>2 DEF CallInv
    <2>2. CASE ~(n < call.rem)
        BY <1>0, <2>2 DEF CallInv, NoCall
    <2> QED BY <2>1, <2>2
<1> QED BY <1>8, <1>11, <1>12, <1>13, <1>14, <1>15, <1>16, <1>17, <1>18 DEF BufferInv

(* The cell that the kernel fills next is the one of the next byte.        *)
LEMMA FillPlace ==
    ASSUME BufferInv, reserved_, call.op # "reserve", InBuffer(space, Cursor(space, fill))
    PROVE  LET at == Cursor(space, fill) IN
           /\ at \in [block : 0..MaxBlocks, n : Nat, total : Nat]
           /\ at.block \in Chain /\ at.total = fill.total /\ fill.block <= at.block
           /\ space[at.block].from + at.n \in Cells
           /\ base[at.block] + space[at.block].from + at.n = received
<1> DEFINE at == Cursor(space, fill)
<1>i. BufferTypeOK /\ SpaceInv /\ PlaceInv
    BY DEF BufferInv
<1>1. /\ fill.block # Null /\ fill.block \in Blocks /\ fill.block \in Nat /\ fill.n \in Nat
      /\ fill.block <= MaxBlocks
      /\ Capacity \in Nat /\ MaxBlocks \in Nat /\ received \in Nat /\ head_ \in Nat
      /\ tail_ \in Nat
    BY <1>i, Cursors, Typed, CapacityNat DEF SpaceInv
<1>b. \A b \in Blocks : /\ b \in Nat /\ base[b] \in Int
                        /\ space[b].from \in Nat /\ space[b].size \in Nat
    BY <1>i, Typed
<1>2. /\ at.block \in Blocks /\ at.n < space[at.block].size
    BY DEF InBuffer
<1>3. /\ space[fill.block].size > 0 /\ fill.n <= space[fill.block].size
      /\ base[fill.block] + space[fill.block].from + fill.n = received
      /\ \A b \in Blocks : b > fill.block => Contiguous(space, b)
      /\ \A b \in Blocks : space[b].size > 0 => b \in Chain /\ space[b].from + space[b].size <= Capacity
    BY <1>i, <1>1 DEF SpaceInv
<1>4. CASE fill.n < space[fill.block].size
    <2>1. at = fill
        BY <1>4 DEF Cursor
    <2>2. fill \in [block : 0..MaxBlocks, n : Nat, total : Nat] /\ fill.block \in Chain
        BY <1>i, <1>1, <1>3 DEF BufferTypeOK
    <2>3. space[fill.block].from + fill.n \in Cells
        BY <1>1, <1>3, <1>4, <1>b DEF Cells
    <2> HIDE DEF at
    <2> QED BY <1>1, <1>3, <2>1, <2>2, <2>3 DEF at
<1>5. CASE ~(fill.n < space[fill.block].size)
    <2>1. at = [fill EXCEPT !.block = fill.block + 1, !.n = 0]
        BY <1>5 DEF Cursor
    <2>2. at.block = fill.block + 1 /\ at.n = 0 /\ at.total = fill.total
        BY <1>i, <2>1 DEF BufferTypeOK
    <2> HIDE DEF at
    <2>3. /\ at.block \in 0..MaxBlocks /\ at.block - 1 = fill.block /\ at.block > 1
          /\ at.block > fill.block
        BY <1>1, <1>2, <2>2, BlocksAre
    <2>4. at \in [block : 0..MaxBlocks, n : Nat, total : Nat]
        <3>1. fill.block + 1 \in 0..MaxBlocks
            BY <2>2, <2>3
        <3> QED BY <1>i, <2>1, <3>1 DEF BufferTypeOK
    <2>5. space[at.block].size > 0
        BY <1>2, <1>b, <2>2
    <2>6. space[at.block].from = 0 /\ space[fill.block].from + space[fill.block].size = Capacity
        BY <1>2, <1>3, <2>3, <2>5 DEF Contiguous
    <2>7. at.block \in Chain /\ fill.block \in Chain
        BY <1>1, <1>2, <1>3, <2>5
    <2>8. base[at.block] = base[fill.block] + Capacity
        <3>1. fill.block < tail_
            BY <1>1, <2>2, <2>7, ChainIs, <1>i
        <3> QED BY <1>i, <2>2, <2>7, <3>1 DEF PlaceInv
    <2>9. fill.n = space[fill.block].size
        BY <1>1, <1>3, <1>5, <1>b
    <2>10. base[at.block] + space[at.block].from + at.n = received
        BY <1>1, <1>2, <1>3, <1>b, <2>2, <2>6, <2>8, <2>9
    <2>11. space[at.block].from + at.n \in Cells
        BY <1>1, <1>2, <1>3, <1>b, <2>2, <2>5, <2>6 DEF Cells
    <2> QED BY <1>1, <2>2, <2>3, <2>4, <2>7, <2>10, <2>11 DEF at
<1> QED BY <1>4, <1>5

(* A byte read goes to its place, and no other byte is touched.            *)
LEMMA ReadByteKeeps ==
    ASSUME BufferInv, ReadByte
    PROVE  BufferInv'
<1> DEFINE at == Cursor(space, fill)
           cell == space[at.block].from + at.n
<1>i. /\ BufferTypeOK /\ ChainInv /\ PlaceInv /\ CountInv /\ SizeInv /\ MemInv
      /\ SpaceInv /\ CallInv /\ ReserveInv /\ CommitInv /\ ViewInv /\ DrainInv
    BY DEF BufferInv
<1>0. /\ reserved_ /\ call.op \notin {"reserve", "commit"}
      /\ received < Len(Stream) /\ InBuffer(space, at)
      /\ mem' = [mem EXCEPT ![at.block][cell] = Stream[received + 1]]
      /\ fill' = Advance(at)
      /\ received' = received + 1
      /\ UNCHANGED <<chainVars, data_size_, reserved_, peeked_, call, space, view, take, wire, base>>
    BY DEF ReadByte
<1>1. /\ at \in [block : 0..MaxBlocks, n : Nat, total : Nat]
      /\ at.block \in Chain /\ at.total = fill.total /\ fill.block <= at.block
      /\ cell \in Cells
      /\ base[at.block] + space[at.block].from + at.n = received
    BY <1>0, FillPlace
<1>2. at.block \in Blocks /\ at.n < space[at.block].size
    BY <1>0 DEF InBuffer
<1>p. cell = space[at.block].from + at.n
    OBVIOUS
<1> HIDE DEF at, cell
<1>t. /\ Capacity \in Nat /\ Capacity > 0 /\ MaxBlocks \in Nat /\ received \in Nat
      /\ fill.block \in Nat /\ fill.total \in Nat
      /\ at.n \in Nat /\ at.total \in Nat /\ at.block \in Nat /\ cell \in Nat /\ cell < Capacity
    BY <1>i, <1>1, Typed, Cursors, CapacityNat DEF Cells
<1>b. \A b \in Blocks : /\ b \in Nat /\ offset[b] \in Nat /\ len[b] \in Nat /\ base[b] \in Int
                        /\ space[b].from \in Nat /\ space[b].size \in Nat
    BY <1>i, Typed
<1>3. /\ fill'.block = at.block /\ fill'.n = at.n + 1 /\ fill'.total = at.total + 1
      /\ fill' \in [block : 0..MaxBlocks, n : Nat, total : Nat]
    <2>1. at.n + 1 \in Nat /\ at.total + 1 \in Nat
        BY <1>t
    <2> QED BY <1>0, <1>1, <2>1 DEF Advance
<1>4. Stream[received + 1] \in Bytes /\ received + 1 \in 0..Len(Stream)
    BY <1>0, <1>t, TrafficAssumption
<1>5. /\ mem' \in [Blocks -> [Cells -> Bytes \cup {Unset}]]
      /\ mem'[at.block][cell] = Stream[received + 1]
      /\ \A b \in Blocks, j \in Cells : b # at.block \/ j # cell => mem'[b][j] = mem[b][j]
    BY <1>i, <1>0, <1>1, <1>2, <1>4 DEF BufferTypeOK
<1>6. BufferTypeOK'
    BY <1>i, <1>0, <1>3, <1>4, <1>5 DEF BufferTypeOK, chainVars
<1>7. /\ Committed' = Committed /\ Drained' = Drained /\ Chain' = Chain
      /\ CommittedNow' = CommittedNow /\ DrainedNow' = DrainedNow
    <2>1. Committed' = Committed
        <3>1. received' = received + 1 /\ fill'.total = fill.total + 1
            BY <1>0, <1>1, <1>3
        <3>2. received \in Nat /\ fill.total \in Nat
            BY <1>t
        <3> QED BY <3>1, <3>2 DEF Committed
    <2> QED BY <1>0, <2>1, SameChain DEF Drained, CommittedNow, DrainedNow
<1>8. ChainInv' /\ PlaceInv' /\ CountInv'
    BY <1>i, <1>0, <1>7, ChainSame
<1>9. SizeInv'
    BY <1>i, <1>0, <1>7 DEF SizeInv
<1>10. MemInv'
    <2>1. SUFFICES ASSUME NEW b \in Chain, NEW j \in Cells, offset[b] <= j, base[b] + j < received + 1
                   PROVE  mem'[b][j] = Stream[base[b] + j + 1]
        BY <1>0, <1>7 DEF MemInv, chainVars
    <2>2. b \in Blocks /\ j \in Nat /\ j < Capacity /\ b \in Nat
        BY <1>t, <1>b DEF Chain, Cells
    <2>3. CASE b = at.block /\ j = cell
        <3>1. base[b] + j = received
            BY <1>1, <1>2, <1>b, <1>t, <1>p, <2>3
        <3> QED BY <1>5, <2>3, <3>1
    <2>4. CASE b # at.block \/ j # cell
        <3>1. base[at.block] + cell = received /\ base[at.block] \in Int /\ base[b] \in Int
            BY <1>1, <1>2, <1>b, <1>t, <1>p, <2>2
        <3>2. base[b] + j < received
            <4>1. CASE b = at.block
                BY <1>t, <2>1, <2>2, <2>4, <3>1, <4>1
            <4>2. CASE b < at.block
                <5>1. base[b] + Capacity <= base[at.block]
                    BY <1>i, <1>1, <4>2 DEF PlaceInv
                <5> QED BY <1>t, <2>2, <3>1, <5>1
            <4>3. CASE b > at.block
                <5>1. base[at.block] + Capacity <= base[b]
                    BY <1>i, <1>1, <1>t, <2>2, <4>3 DEF PlaceInv
                <5> QED BY <1>t, <2>1, <2>2, <3>1, <5>1
            <4> QED BY <1>t, <2>2, <4>1, <4>2, <4>3
        <3>3. mem[b][j] = Stream[base[b] + j + 1]
            BY <1>i, <2>1, <3>2 DEF MemInv
        <3> QED BY <1>5, <2>2, <2>4, <3>3
    <2> QED BY <2>3, <2>4
<1>11. SpaceInv'
    <2>1. /\ space[at.block].size > 0 /\ fill'.n <= space[at.block].size
          /\ base[at.block] + space[at.block].from + fill'.n = received + 1
        BY <1>1, <1>2, <1>3, <1>b, <1>t
    <2>2. \A b \in Blocks : b > at.block => Contiguous(space, b)
        <3>1. fill.block # Null
            BY <1>i, <1>0 DEF SpaceInv
        <3> QED BY <1>i, <1>1, <1>b, <1>t, <3>1 DEF SpaceInv
    <2>3. \A b \in Blocks : space[b].size > 0 => /\ b \in Chain /\ space[b].from + space[b].size <= Capacity
                                                 /\ base[b] + space[b].from >= Committed
        BY <1>i DEF SpaceInv
    <2>4. at.block # Null
        BY <1>2, BlocksAre
    <2> QED BY <1>0, <1>3, <1>7, <2>1, <2>2, <2>3, <2>4 DEF SpaceInv, Contiguous
<1>12. CallInv' /\ ReserveInv' /\ CommitInv' /\ DrainInv'
    BY <1>i, <1>0, <1>7 DEF CallInv, ReserveInv, CommitInv, DrainInv
<1>13. ViewInv'
    <2>1. Committed' \in Int /\ Committed' >= Committed
        BY <1>i, <1>7, Typed
    <2>2. call'.op = "drain" => peeked_
        BY <1>i, <1>0 DEF ViewInv
    <2> QED BY <1>i, <1>0, <2>1, <2>2, ViewSame
<1> QED BY <1>6, <1>8, <1>9, <1>10, <1>11, <1>12, <1>13 DEF BufferInv

(* What has been reserved is beyond the data, so that space begins there.  *)
LEMMA SpaceIsThere ==
    ASSUME BufferInv, reserved_, call.op = "none"
    PROVE  SpaceStepper # Null
<1>i. BufferTypeOK /\ SpaceInv /\ PlaceInv /\ ChainInv
    BY DEF BufferInv
<1>1. fill.block # Null /\ fill.block \in Blocks
    BY <1>i, Cursors DEF SpaceInv
<1>2. /\ fill.block \in Chain /\ space[fill.block].size > 0
      /\ space[fill.block].from + space[fill.block].size <= Capacity
      /\ base[fill.block] + space[fill.block].from >= Committed
    BY <1>i, <1>1 DEF SpaceInv
<1>3. SUFFICES ASSUME SpaceStepper = Null PROVE FALSE
    OBVIOUS
<1>4. /\ head_ # Null /\ end_ = tail_ /\ end_ \in Chain
      /\ offset[end_] + len[end_] = Capacity
    BY <1>i, <1>2, <1>3, StepperPlace DEF Chain, InChain
<1>5. base[end_] + offset[end_] + len[end_] = Committed
    BY <1>i, <1>4, Typed DEF PlaceInv, CommittedNow
<1>t. /\ Capacity \in Nat /\ Committed \in Int /\ base[fill.block] \in Int
      /\ space[fill.block].from \in Nat
      /\ space[fill.block].size \in Nat /\ base[end_] \in Int /\ offset[end_] \in Nat
      /\ len[end_] \in Nat
      /\ fill.block \in Nat /\ end_ \in Nat
    BY <1>i, <1>1, <1>4, CapacityNat, Typed, Cursors DEF Chain
<1>6. fill.block = end_ \/ base[fill.block] + Capacity <= base[end_]
    <2>1. fill.block <= end_
        BY <1>2, <1>4 DEF Chain, InChain
    <2> QED BY <1>i, <1>2, <1>4, <1>t, <2>1 DEF PlaceInv
<1> QED BY <1>2, <1>4, <1>5, <1>6, <1>t

(* Commit starts where the kernel started to read.                         *)
LEMMA CommitCallKeeps ==
    ASSUME BufferInv, CommitCall
    PROVE  BufferInv'
<1>i. /\ BufferTypeOK /\ ChainInv /\ PlaceInv /\ CountInv /\ SizeInv /\ MemInv
      /\ SpaceInv /\ CallInv /\ ReserveInv /\ CommitInv /\ ViewInv /\ DrainInv
    BY DEF BufferInv
<1>0. /\ call.op = "none" /\ reserved_
      /\ call' = [op |-> "commit", size |-> fill.total, rem |-> fill.total, block |-> SpaceStepper,
                  exact |-> FALSE]
      /\ UNCHANGED <<chainVars, data_size_, reserved_, peeked_, mem, ioVars, base>>
    BY DEF CommitCall
<1>1. /\ SpaceStepper \in Chain /\ end_ <= SpaceStepper /\ SpaceStepper <= end_ + 1
      /\ base[SpaceStepper] + offset[SpaceStepper] + len[SpaceStepper] = CommittedNow
      /\ offset[SpaceStepper] + len[SpaceStepper] < Capacity
    BY <1>i, <1>0, SpaceIsThere, StepperPlace
<1>2. SpaceStepper \in 0..MaxBlocks
    BY <1>1, BlocksAre, CapacityNat DEF Chain
<1>3. /\ Committed' = Committed /\ Drained' = Drained /\ Chain' = Chain
      /\ CommittedNow' = CommittedNow /\ DrainedNow' = DrainedNow /\ Committed \in Int
    <2>1. /\ Committed' = Committed /\ Committed \in Int /\ Drained' = Drained
          /\ fill.total \in Nat
        BY <1>i, <1>0, Typed, Cursors DEF Committed, Drained, ioVars
    <2>2. fill.total - fill.total = 0
        BY <2>1
    <2> QED BY <1>0, <2>1, <2>2, SameChain DEF CommittedNow, DrainedNow
<1>4. BufferTypeOK'
    <2>1. call' \in [op : {"none", "reserve", "commit", "drain"}, size : Nat, rem : Nat,
                     block : 0..MaxBlocks, exact : BOOLEAN]
        BY <1>i, <1>0, <1>2, Cursors
    <2> QED BY <1>i, <1>0, <2>1 DEF BufferTypeOK, chainVars, ioVars
<1>5. ChainInv' /\ PlaceInv' /\ CountInv'
    BY <1>i, <1>0, <1>3, ChainSame
<1>6. SizeInv' /\ DrainInv' /\ ReserveInv'
    BY <1>i, <1>0, <1>3 DEF SizeInv, DrainInv, ReserveInv, ioVars
<1>7. MemInv'
    BY <1>i, <1>0, <1>3, MemSame DEF chainVars, ioVars
<1>8. SpaceInv'
    BY <1>i, <1>0, <1>3, SpaceSame DEF ioVars
<1>9. ViewInv'
    <2>1. Committed' \in Int /\ Committed' >= Committed
        BY <1>3
    <2> QED BY <1>i, <1>0, <2>1, ViewSame DEF ioVars
<1>10. CommitInv'
    <2>1. fill.total <= fill.total
        BY <1>i, Cursors
    <2>2. /\ UNCHANGED <<base, offset, len, end_, fill>>
          /\ call'.size = fill.total /\ call'.rem = fill.total /\ call'.block = SpaceStepper
        BY <1>0 DEF chainVars, ioVars
    <2> QED BY <1>1, <1>3, <2>1, <2>2 DEF CommitInv
<1>11. CallInv'
    BY <1>0, <1>1, <1>3 DEF CallInv
<1> QED BY <1>4, <1>5, <1>6, <1>7, <1>8, <1>9, <1>10, <1>11 DEF BufferInv

(* A turn of Commit: a block is left only when it is full, and while       *)
(* bytes are left the kernel has read into a later one.                    *)
LEMMA CommitStepKeeps ==
    ASSUME BufferInv, CommitStep
    PROVE  BufferInv'
<1> DEFINE k == call.block
           n == Least(call.rem, SpaceLen(k))
<1>i. /\ BufferTypeOK /\ ChainInv /\ PlaceInv /\ CountInv /\ SizeInv /\ MemInv
      /\ SpaceInv /\ CallInv /\ ReserveInv /\ CommitInv /\ ViewInv /\ DrainInv
    BY DEF BufferInv
<1>0. /\ call.op = "commit" /\ call.rem > 0 /\ k # Null
      /\ end_' = k
      /\ len' = [len EXCEPT ![k] = @ + n]
      /\ call' = [call EXCEPT !.rem = @ - n, !.block = next(k)]
      /\ UNCHANGED <<head_, tail_, block_cnt_, offset, data_size_, reserved_, peeked_, mem, ioVars, base>>
    BY DEF CommitStep
<1>t. /\ head_ \in Nat /\ end_ \in Nat /\ tail_ \in Nat /\ Capacity \in Nat /\ Capacity > 0
      /\ tail_ <= MaxBlocks /\ MaxBlocks \in Nat /\ received \in Nat
      /\ call.rem \in Nat /\ call.size \in Nat /\ fill.block \in Nat /\ fill.n \in Nat
      /\ fill.total \in Nat /\ k \in Nat /\ k \in Blocks
      /\ Committed \in Int /\ CommittedNow \in Int
    BY <1>i, <1>0, Typed, Cursors, CapacityNat
<1>b. \A b \in Blocks : /\ b \in Nat /\ offset[b] \in Nat /\ len[b] \in Nat /\ base[b] \in Int
                        /\ space[b].from \in Nat /\ space[b].size \in Nat
                        /\ view[b].size \in Nat
    BY <1>i, Typed
<1>1. /\ k \in Chain /\ end_ <= k /\ k <= end_ + 1 /\ head_ <= k /\ k <= tail_ /\ head_ # Null
      /\ base[k] + offset[k] + len[k] = CommittedNow
      /\ call.size = fill.total /\ call.rem <= call.size
      /\ head_ <= end_ /\ end_ # Null /\ end_ \in Chain
    <2>1. /\ k \in Chain /\ end_ <= k /\ k <= end_ + 1
          /\ base[k] + offset[k] + len[k] = CommittedNow
          /\ call.size = fill.total /\ call.rem <= call.size
        BY <1>i, <1>0 DEF CommitInv
    <2>2. head_ <= k /\ k <= tail_ /\ head_ # Null
        BY <2>1 DEF Chain, InChain
    <2>3. head_ <= end_ /\ end_ # Null
        BY <1>i, <1>0, <2>2 DEF ChainInv
    <2>4. end_ \in Chain
        BY <1>i, <1>t, <2>1, <2>2, <2>3, ChainIs
    <2> QED BY <2>1, <2>2, <2>3, <2>4
<1>2. /\ n \in Nat /\ n <= call.rem /\ offset[k] + len[k] + n <= Capacity
      /\ n < call.rem => offset[k] + len[k] + n = Capacity
    <2>1. offset[k] + len[k] <= Capacity
        BY <1>i, <1>1 DEF ChainInv
    <2>2. SpaceLen(k) = Capacity - (offset[k] + len[k]) /\ SpaceLen(k) \in Nat
        BY <1>b, <1>t, <2>1 DEF SpaceLen
    <2> QED BY <1>b, <1>t, <2>2 DEF Least
<1>n. n = Least(call.rem, SpaceLen(k))
    OBVIOUS
<1> HIDE DEF n
<1>3. /\ len' \in [Blocks -> Nat] /\ len'[k] = len[k] + n
      /\ \A b \in Blocks : b # k => len'[b] = len[b]
    <2>1. len[k] + n \in Nat
        BY <1>2, <1>b, <1>t
    <2> QED BY <1>i, <1>0, <1>t, <2>1 DEF BufferTypeOK
<1>4. /\ next(k) = IF k < tail_ THEN k + 1 ELSE Null
      /\ next(k) \in 0..MaxBlocks
    BY <1>t DEF next
<1>5. /\ call'.op = "commit" /\ call'.rem = call.rem - n /\ call'.size = call.size
      /\ call'.block = next(k)
      /\ call'.rem \in Nat
      /\ call' \in [op : {"none", "reserve", "commit", "drain"}, size : Nat, rem : Nat,
                    block : 0..MaxBlocks, exact : BOOLEAN]
    <2>1. call.rem - n \in Nat
        BY <1>2, <1>t
    <2> HIDE DEF k
    <2> QED BY <1>i, <1>0, <1>4, <2>1 DEF BufferTypeOK
<1>6. BufferTypeOK'
    <2>1. end_' \in 0..MaxBlocks
        BY <1>i, <1>0 DEF BufferTypeOK
    <2> HIDE DEF k
    <2> QED BY <1>i, <1>0, <1>3, <1>5, <2>1 DEF BufferTypeOK, ioVars
<1>7. /\ Committed' = Committed /\ Drained' = Drained /\ DrainedNow' = DrainedNow
      /\ CommittedNow' = CommittedNow + n /\ CommittedNow = Committed + (call.size - call.rem)
      /\ Chain' = Chain
    <2>1. Committed' = Committed /\ Drained' = Drained /\ Chain' = Chain
        BY <1>0 DEF Committed, Drained, Chain, InChain, ioVars
    <2>2. CommittedNow = Committed + (call.size - call.rem)
        BY <1>0 DEF CommittedNow
    <2>3. CommittedNow' = Committed + (call.size - (call.rem - n))
        BY <1>5, <2>1 DEF CommittedNow
    <2>4. DrainedNow' = DrainedNow
        BY <1>0, <1>5, <2>1 DEF DrainedNow
    <2> QED BY <1>2, <1>t, <2>1, <2>2, <2>3, <2>4
<1>8. /\ \A b \in Chain : b \in Blocks /\ b \in Nat
      /\ \A b \in Chain : b # k => len'[b] = len[b]
    BY <1>3, <1>b DEF Chain
<1>9. k # end_ => offset[end_] + len[end_] = Capacity
    <2>1. SUFFICES ASSUME k # end_ PROVE offset[end_] + len[end_] = Capacity
        OBVIOUS
    <2>2. k = end_ + 1 /\ end_ < tail_ /\ k > head_
        BY <1>1, <1>t, <2>1
    <2>3. offset[k] = 0 /\ len[k] = 0
        BY <1>i, <1>1, <1>t, <2>2 DEF ChainInv
    <2>4. base[k] = base[end_] + Capacity
        BY <1>i, <1>1, <2>2 DEF PlaceInv
    <2>5. base[end_] + offset[end_] + len[end_] = CommittedNow
        BY <1>i, <1>1 DEF PlaceInv
    <2> QED BY <1>1, <1>8, <1>b, <1>t, <2>3, <2>4, <2>5
<1>10. ChainInv'
    <2>1. ASSUME NEW b \in Chain
          PROVE  /\ offset[b] < Capacity /\ offset[b] + len'[b] <= Capacity
                 /\ b > head_ => offset[b] = 0
                 /\ b < k => offset[b] + len'[b] = Capacity
                 /\ b > k => len'[b] = 0
        <3>1. /\ offset[b] < Capacity /\ offset[b] + len[b] <= Capacity
              /\ b > head_ => offset[b] = 0
              /\ b < end_ => offset[b] + len[b] = Capacity
              /\ b > end_ => len[b] = 0
            BY <1>i DEF ChainInv
        <3>2. CASE b = k
            BY <1>2, <1>3, <1>b, <1>t, <3>1, <3>2
        <3>3. CASE b # k
            BY <1>1, <1>8, <1>9, <1>t, <3>1, <3>3
        <3> QED BY <3>2, <3>3
    <2>2. head_ <= tail_
        BY <1>1, <1>t
    <2> QED BY <1>0, <1>1, <1>5, <1>7, <1>t, <2>1, <2>2 DEF ChainInv
<1>11. PlaceInv'
    <2>1. base[k] + offset[k] + len'[k] = CommittedNow'
        BY <1>1, <1>2, <1>3, <1>7, <1>b, <1>t
    <2>2. ~(head_ = Null \/ head_ = k + 1)
        BY <1>1, <1>t
    <2>3. /\ \A b \in Chain : b < tail_ => base[b + 1] = base[b] + Capacity
          /\ \A b, m \in Chain : b < m => base[b] + Capacity <= base[m]
          /\ head_ # Null => base[head_] + offset[head_] = DrainedNow
        BY <1>i DEF PlaceInv
    <2> HIDE DEF k
    <2> QED BY <1>0, <1>7, <2>1, <2>2, <2>3 DEF PlaceInv
<1>12. CountInv' /\ SizeInv' /\ DrainInv' /\ ReserveInv'
    BY <1>i, <1>0, <1>5, <1>7 DEF CountInv, SizeInv, DrainInv, ReserveInv, ioVars
<1>13. MemInv'
    BY <1>i, <1>0, <1>7, MemSame DEF ioVars
<1>14. SpaceInv'
    <2>1. reserved_
        BY <1>i, <1>0 DEF SpaceInv
    <2> QED BY <1>i, <1>0, <1>5, <1>7, <2>1, SpaceSame DEF ioVars
<1>15. ViewInv'
    <2>1. \A b \in Blocks : view[b].size <= len[b] => view[b].size <= len'[b]
        BY <1>2, <1>3, <1>b, <1>t
    <2> QED BY <1>i, <1>0, <1>5, <1>7, <2>1 DEF ViewInv, Contiguous, ioVars
<1>16. CommitInv'
    <2>1. call'.size = fill.total /\ call'.rem <= call'.size /\ fill' = fill
        BY <1>0, <1>1, <1>2, <1>5, <1>t DEF ioVars
    <2>2. SUFFICES ASSUME call'.rem > 0
                   PROVE  /\ next(k) \in Chain /\ k <= next(k) /\ next(k) <= k + 1
                          /\ base[next(k)] + offset[next(k)] + len'[next(k)] = CommittedNow'
                          /\ offset[next(k)] + len'[next(k)] < Capacity
        <3> HIDE DEF k
        <3> QED BY <1>0, <1>5, <1>7, <2>1 DEF CommitInv
    <2>3. offset[k] + len[k] + n = Capacity /\ CommittedNow' < received
        <3>1. n < call.rem
            BY <1>2, <1>5, <1>t, <2>2
        <3>2. Committed = received - fill.total
            BY DEF Committed
        <3> QED BY <1>1, <1>2, <1>7, <1>t, <3>1, <3>2
    <2>4. base[k] + Capacity = CommittedNow'
        BY <1>1, <1>2, <1>7, <1>b, <1>t, <2>3
    <2>5. /\ fill.block \in Chain /\ fill.block \in Blocks
          /\ fill.n <= space[fill.block].size
          /\ space[fill.block].from + space[fill.block].size <= Capacity
          /\ base[fill.block] + space[fill.block].from + fill.n = received
        <3>1. reserved_
            BY <1>i, <1>0 DEF SpaceInv
        <3>2. fill.block # Null /\ fill.block \in Blocks
            BY <1>i, <1>0, <3>1, Cursors DEF SpaceInv
        <3> QED BY <1>i, <3>2 DEF SpaceInv
    <2>6. k < fill.block /\ fill.block <= tail_
        <3>1. ~(fill.block = k)
            BY <1>b, <1>t, <2>3, <2>4, <2>5
        <3>2. ~(fill.block < k)
            <4>1. SUFFICES ASSUME fill.block < k PROVE FALSE
                OBVIOUS
            <4>2. base[fill.block] + Capacity <= base[k]
                BY <1>i, <1>1, <2>5, <4>1 DEF PlaceInv
            <4> QED BY <1>b, <1>t, <2>3, <2>4, <2>5, <4>2
        <3>3. fill.block <= tail_
            BY <2>5 DEF Chain, InChain
        <3> QED BY <1>t, <3>1, <3>2, <3>3
    <2>7. k < tail_ /\ next(k) = k + 1
        BY <1>4, <1>t, <2>6
    <2>8. k + 1 \in Chain
        BY <1>i, <1>1, <1>t, <2>7, ChainIs
    <2>9. offset[k + 1] = 0 /\ len'[k + 1] = 0
        <3>1. offset[k + 1] = 0 /\ len[k + 1] = 0
            BY <1>i, <1>1, <1>t, <2>8 DEF ChainInv
        <3> QED BY <1>8, <1>t, <2>8, <3>1
    <2>10. base[k + 1] = base[k] + Capacity
        BY <1>i, <1>1, <2>7 DEF PlaceInv
    <2>11. base[k + 1] \in Int
        BY <1>b, <2>8 DEF Chain
    <2> QED BY <1>t, <2>4, <2>7, <2>8, <2>9, <2>10, <2>11
<1>17. CallInv'
    <2>1. next(k) # Null => next(k) = k + 1 /\ k < tail_
        BY <1>4
    <2>2. next(k) # Null => next(k) \in Chain
        BY <1>i, <1>1, <1>t, <2>1, ChainIs
    <2> HIDE DEF k
    <2> QED BY <1>5, <1>7, <2>2 DEF CallInv
<1> QED BY <1>6, <1>10, <1>11, <1>12, <1>13, <1>14, <1>15, <1>16, <1>17 DEF BufferInv

(* Commit returns: all that was read is committed.                         *)
LEMMA CommitReturnsKeeps ==
    ASSUME BufferInv, CommitReturns
    PROVE  BufferInv'
<1>i. /\ BufferTypeOK /\ ChainInv /\ PlaceInv /\ CountInv /\ SizeInv /\ MemInv
      /\ SpaceInv /\ CallInv /\ ReserveInv /\ CommitInv /\ ViewInv /\ DrainInv
    BY DEF BufferInv
<1>0. /\ call.op = "commit" /\ call.rem = 0
      /\ data_size_' = data_size_ + call.size
      /\ reserved_' = FALSE
      /\ call' = NoCall
      /\ space' = [k \in Blocks |-> NoBuffer]
      /\ fill' = NoCursor
      /\ UNCHANGED <<chainVars, peeked_, mem, view, take, received, wire, base>>
    BY DEF CommitReturns
<1>t. /\ received \in Nat /\ call.size \in Nat /\ fill.total \in Nat /\ data_size_ \in Int
      /\ Committed \in Int /\ Drained \in Int /\ take.total \in Nat /\ MaxBlocks \in Nat
    BY <1>i, Typed, Cursors, CapacityNat
<1>1. call.size = fill.total
    BY <1>i, <1>0 DEF CommitInv
<1>2. /\ Committed = received - fill.total /\ Committed' = received /\ CommittedNow = received
      /\ CommittedNow' = received /\ Drained' = Drained /\ DrainedNow' = DrainedNow
    <2>1. Committed = received - fill.total /\ Committed' = received
        BY <1>0, <1>t DEF Committed, NoCursor
    <2>2. CommittedNow = received /\ CommittedNow' = received
        BY <1>0, <1>1, <1>t, <2>1 DEF CommittedNow, NoCall
    <2>3. Drained' = Drained /\ DrainedNow' = DrainedNow
        BY <1>0 DEF Drained, DrainedNow, NoCall
    <2> QED BY <2>1, <2>2, <2>3
<1>3. call'.op = "none" /\ Chain' = Chain
    BY <1>0, SameChain DEF NoCall
<1>4. BufferTypeOK'
    <2>1. space' \in [Blocks -> [from : Nat, size : Nat]]
        BY <1>0 DEF NoBuffer
    <2>2. fill' \in [block : 0..MaxBlocks, n : Nat, total : Nat]
        BY <1>0, <1>t DEF NoCursor
    <2>3. call' \in [op : {"none", "reserve", "commit", "drain"}, size : Nat, rem : Nat,
                     block : 0..MaxBlocks, exact : BOOLEAN]
        BY <1>0, <1>t DEF NoCall
    <2>4. data_size_' \in Int
        BY <1>0, <1>t
    <2> QED BY <1>i, <1>0, <2>1, <2>2, <2>3, <2>4 DEF BufferTypeOK, chainVars
<1>5. ChainInv' /\ PlaceInv' /\ CountInv'
    BY <1>i, <1>0, <1>2, ChainSame
<1>6. SizeInv'
    BY <1>i, <1>0, <1>1, <1>2, <1>t DEF SizeInv
<1>7. MemInv'
    BY <1>i, <1>0, <1>3, MemSame DEF chainVars
<1>8. SpaceInv'
    BY <1>0, <1>3 DEF SpaceInv, NoBuffer, NoCursor
<1>9. ViewInv'
    <2>1. Committed' \in Int /\ Committed' >= Committed
        BY <1>2, <1>t
    <2> QED BY <1>i, <1>0, <1>3, <2>1, ViewSame
<1>10. CallInv' /\ ReserveInv' /\ CommitInv' /\ DrainInv'
    BY <1>0, <1>3 DEF CallInv, ReserveInv, CommitInv, DrainInv, NoCall
<1> QED BY <1>4, <1>5, <1>6, <1>7, <1>8, <1>9, <1>10 DEF BufferInv

(* Peek shows the committed data, and no more.                             *)
LEMMA PeekKeeps ==
    ASSUME BufferInv, Peek
    PROVE  BufferInv'
<1>i. /\ BufferTypeOK /\ ChainInv /\ PlaceInv /\ CountInv /\ SizeInv /\ MemInv
      /\ SpaceInv /\ CallInv /\ ReserveInv /\ CommitInv /\ ViewInv /\ DrainInv
    BY DEF BufferInv
<1> DEFINE Seen(k) == head_ # Null /\ k \in head_..tail_ /\ \A i \in head_..k : len[i] > 0
<1>0. /\ call.op = "none" /\ ~peeked_
      /\ peeked_' = TRUE
      /\ view' = [k \in Blocks |-> IF Seen(k) THEN [from |-> offset[k], size |-> len[k]] ELSE NoBuffer]
      /\ take' = [block |-> head_, n |-> 0, total |-> 0]
      /\ UNCHANGED <<chainVars, data_size_, reserved_, mem, call, space, fill, received, wire, base>>
    BY DEF Peek
<1>t. /\ head_ \in Nat /\ end_ \in Nat /\ tail_ \in Nat /\ tail_ <= MaxBlocks
      /\ Capacity \in Nat
      /\ MaxBlocks \in Nat /\ Len(wire) \in Nat /\ Committed \in Int /\ Drained \in Int
      /\ data_size_ \in Int
    BY <1>i, Typed, CapacityNat
<1>b. \A b \in Blocks : /\ b \in Nat /\ offset[b] \in Nat /\ len[b] \in Nat /\ base[b] \in Int
    BY <1>i, Typed
<1>1. take = NoCursor /\ take.total = 0 /\ take'.total = 0 /\ take'.block = head_ /\ take'.n = 0
    BY <1>i, <1>0 DEF ViewInv, NoCursor
<1>2. /\ Committed' = Committed /\ Drained' = Drained /\ Chain' = Chain
      /\ CommittedNow' = CommittedNow /\ DrainedNow' = DrainedNow
      /\ CommittedNow = Committed /\ DrainedNow = Len(wire)
    <2>1. Committed' = Committed /\ Drained' = Drained /\ Drained = Len(wire)
        BY <1>0, <1>1, <1>t DEF Committed, Drained
    <2> QED BY <1>0, <1>t, <2>1, SameChain DEF CommittedNow, DrainedNow
<1>3. BufferTypeOK'
    <2>1. take' \in [block : 0..MaxBlocks, n : Nat, total : Nat]
        BY <1>i, <1>0 DEF BufferTypeOK
    <2>2. view' \in [Blocks -> [from : Nat, size : Nat]]
        <3>1. \A k \in Blocks : [from |-> offset[k], size |-> len[k]] \in [from : Nat, size : Nat]
            BY <1>b
        <3>2. NoBuffer \in [from : Nat, size : Nat]
            BY DEF NoBuffer
        <3> HIDE DEF Seen
        <3> QED BY <1>0, <3>1, <3>2
    <2> QED BY <1>i, <1>0, <2>1, <2>2 DEF BufferTypeOK, chainVars
<1>4. ChainInv' /\ PlaceInv' /\ CountInv'
    BY <1>i, <1>0, <1>2, ChainSame
<1>5. SizeInv' /\ CallInv' /\ ReserveInv' /\ CommitInv' /\ DrainInv'
    BY <1>i, <1>0, <1>1, <1>2 DEF SizeInv, CallInv, ReserveInv, CommitInv, DrainInv
<1>6. MemInv'
    BY <1>i, <1>0, <1>2, MemSame DEF chainVars
<1>7. SpaceInv'
    BY <1>i, <1>0, <1>2, SpaceSame
<1>8. ASSUME NEW k \in Blocks, view'[k].size > 0
      PROVE  Seen(k) /\ view'[k].from = offset[k] /\ view'[k].size = len[k]
    <2>1. CASE Seen(k)
        BY <1>0, <2>1
    <2>2. CASE ~Seen(k)
        <3>1. view'[k] = NoBuffer
            BY <1>0, <2>2
        <3> QED BY <3>1, <1>8 DEF NoBuffer
    <2> QED BY <2>1, <2>2
<1>9. ASSUME NEW k \in Blocks, Seen(k)
      PROVE  /\ k \in Chain /\ k <= end_ /\ len[k] > 0 /\ head_ <= k
             /\ base[k] + offset[k] + len[k] <= Committed
    <2>1. k \in Nat /\ head_ <= k /\ k <= tail_ /\ head_ # Null /\ len[k] > 0
        BY <1>9, <1>t, <1>b
    <2>2. k \in Chain
        BY <1>i, <2>1, ChainIs
    <2>3. k <= end_ /\ end_ <= tail_ /\ end_ # Null
        BY <1>i, <1>t, <1>b, <2>1, <2>2 DEF ChainInv
    <2>4. end_ \in Chain /\ head_ <= end_
        BY <1>i, <1>t, <2>1, <2>3, ChainIs
    <2>5. base[end_] + offset[end_] + len[end_] = Committed
        BY <1>i, <1>2, <2>4 DEF PlaceInv
    <2>6. k = end_ \/ base[k] + Capacity <= base[end_]
        BY <1>i, <1>t, <2>1, <2>2, <2>3, <2>4 DEF PlaceInv
    <2>7. offset[k] + len[k] <= Capacity
        BY <1>i, <2>2 DEF ChainInv
    <2>8. end_ \in Blocks
        BY <2>4 DEF Chain
    <2>9. base[k] + offset[k] + len[k] <= Committed
        <3>1. CASE k = end_
            BY <1>t, <2>5, <3>1
        <3>2. CASE base[k] + Capacity <= base[end_]
            <4>1. /\ base[k] \in Int /\ offset[k] \in Nat /\ len[k] \in Nat
                  /\ base[end_] \in Int /\ offset[end_] \in Nat /\ len[end_] \in Nat
                BY <1>b, <2>8
            <4>2. Capacity \in Nat /\ Committed \in Int
                BY <1>t
            <4>3. base[end_] <= Committed
                BY <2>5, <4>1, <4>2
            <4>4. base[k] + offset[k] + len[k] <= base[k] + Capacity
                BY <2>7, <4>1, <4>2
            <4> QED BY <3>2, <4>1, <4>2, <4>3, <4>4
        <3> QED BY <2>6, <3>1, <3>2
    <2> QED BY <2>1, <2>2, <2>3, <2>9
<1>10. ViewInv'
    <2>1. call'.op # "drain" /\ peeked_'
        BY <1>0
    <2>2. ASSUME NEW k \in Blocks, view'[k].size > 0
          PROVE  /\ k \in Chain /\ take'.block # Null
                 /\ view'[k].from = offset[k] /\ view'[k].size <= len[k]
                 /\ base[k] + view'[k].from + view'[k].size <= Committed
        <3>1. Seen(k) /\ view'[k].from = offset[k] /\ view'[k].size = len[k]
            BY <1>8, <2>2
        <3>2. /\ k \in Chain /\ base[k] + offset[k] + len[k] <= Committed
            BY <1>9, <3>1
        <3> QED BY <1>1, <1>b, <3>1, <3>2
    <2>3. ASSUME head_ # Null
          PROVE  /\ take'.n <= view'[head_].size
                 /\ view'[head_].size > 0 => base[head_] + view'[head_].from + take'.n = Len(wire)
        <3>0. head_ \in Blocks /\ head_ \in Chain
            BY <1>i, <1>t, <2>3, ChainIs DEF Chain, ChainInv
        <3>1. view'[head_].size \in Nat
            BY <1>3, <3>0 DEF BufferTypeOK
        <3>2. base[head_] + offset[head_] = Len(wire)
            BY <1>i, <1>2, <2>3 DEF PlaceInv
        <3>3. view'[head_].size > 0 => view'[head_].from = offset[head_]
            BY <1>8, <3>0
        <3> QED BY <1>1, <1>b, <1>t, <3>0, <3>1, <3>2, <3>3
    <2>4. ASSUME NEW k \in Blocks, head_ # Null, k > head_, view'[k].size > 0
          PROVE  /\ view'[k].from = 0 /\ view'[k - 1].size > 0
                 /\ view'[k - 1].from + view'[k - 1].size = Capacity
        <3>1. Seen(k) /\ view'[k].from = offset[k] /\ k \in Chain /\ k <= end_
            BY <1>8, <1>9, <2>4
        <3>2. offset[k] = 0
            BY <1>i, <2>4, <3>1 DEF ChainInv
        <3>3. /\ k - 1 \in Blocks /\ k - 1 \in Chain /\ k - 1 < end_ /\ head_ <= k - 1
              /\ k - 1 <= tail_
            <4>1. k \in Nat /\ k <= tail_ /\ k - 1 \in Nat
                BY <1>b, <1>t, <2>4, <3>1
            <4>2. k - 1 < end_ /\ head_ <= k - 1 /\ k - 1 <= tail_
                BY <1>t, <2>4, <3>1, <4>1
            <4> QED BY <1>i, <2>4, <4>1, <4>2, ChainIs DEF Chain
        <3>4. Seen(k - 1)
            BY <1>b, <1>t, <2>4, <3>1, <3>3
        <3>5. view'[k - 1] = [from |-> offset[k - 1], size |-> len[k - 1]]
            BY <1>0, <3>3, <3>4
        <3>6. len[k - 1] > 0 /\ offset[k - 1] + len[k - 1] = Capacity
            BY <1>9, <1>i, <3>3, <3>4 DEF ChainInv
        <3> QED BY <3>1, <3>2, <3>5, <3>6
    <2> HIDE DEF Seen
    <2>5. \A k \in Blocks : head_ # Null /\ k > head_ => Contiguous(view, k)'
        BY <2>4 DEF Contiguous
    <2> QED BY <1>0, <1>1, <1>2, <2>1, <2>2, <2>3, <2>5 DEF ViewInv, chainVars
<1> QED BY <1>3, <1>4, <1>5, <1>6, <1>7, <1>10 DEF BufferInv

(* The cell that the kernel takes next holds the next byte.                *)
LEMMA TakePlace ==
    ASSUME BufferInv, call.op # "drain", take.block # Null, InBuffer(view, Cursor(view, take))
    PROVE  LET at == Cursor(view, take) IN
           /\ at \in [block : 0..MaxBlocks, n : Nat, total : Nat]
           /\ at.block \in Chain /\ at.total = take.total /\ take.block <= at.block
           /\ view[at.block].from + at.n \in Cells
           /\ base[at.block] + view[at.block].from + at.n = Len(wire)
           /\ Len(wire) < Committed
           /\ mem[at.block][view[at.block].from + at.n] = Stream[Len(wire) + 1]
<1> DEFINE at == Cursor(view, take)
<1>i. BufferTypeOK /\ ViewInv /\ PlaceInv /\ ChainInv /\ MemInv
    BY DEF BufferInv
<1>1. /\ take.block \in Blocks /\ take.block \in Nat /\ take.n \in Nat
      /\ take.block <= MaxBlocks /\ fill.total \in Nat
      /\ Capacity \in Nat /\ MaxBlocks \in Nat /\ received \in Nat /\ head_ \in Nat
      /\ tail_ \in Nat
      /\ Len(wire) \in Nat /\ Committed \in Int
    BY <1>i, Cursors, Typed, CapacityNat
<1>b. \A b \in Blocks : /\ b \in Nat /\ base[b] \in Int /\ offset[b] \in Nat /\ len[b] \in Nat
                        /\ view[b].from \in Nat /\ view[b].size \in Nat
    BY <1>i, Typed
<1>2. at.block \in Blocks /\ at.n < view[at.block].size
    BY DEF InBuffer
<1>3. /\ take.n <= view[take.block].size
      /\ view[take.block].size > 0 => base[take.block] + view[take.block].from + take.n = Len(wire)
      /\ \A b \in Blocks : b > take.block => Contiguous(view, b)
      /\ \A b \in Blocks : view[b].size > 0 =>
            /\ b \in Chain
            /\ view[b].from = offset[b] /\ view[b].size <= len[b]
            /\ base[b] + view[b].from + view[b].size <= Committed
    BY <1>i, <1>1 DEF ViewInv
<1>4. /\ at \in [block : 0..MaxBlocks, n : Nat, total : Nat]
      /\ at.total = take.total /\ take.block <= at.block
      /\ base[at.block] + view[at.block].from + at.n = Len(wire)
    <2>1. CASE take.n < view[take.block].size
        <3>1. at = take
            BY <2>1 DEF Cursor
        <3> HIDE DEF at
        <3>2. take \in [block : 0..MaxBlocks, n : Nat, total : Nat]
            BY <1>i DEF BufferTypeOK
        <3>3. view[take.block].size \in Nat
            BY <1>1, <1>b
        <3>4. view[take.block].size > 0
            BY <1>1, <2>1, <3>3
        <3> QED BY <1>1, <1>3, <3>1, <3>2, <3>4
    <2>2. CASE ~(take.n < view[take.block].size)
        <3>1. at = [take EXCEPT !.block = take.block + 1, !.n = 0]
            BY <2>2 DEF Cursor
        <3>2. at.block = take.block + 1 /\ at.n = 0 /\ at.total = take.total
            BY <1>i, <3>1 DEF BufferTypeOK
        <3> HIDE DEF at
        <3>3. /\ at.block \in 0..MaxBlocks /\ at.block - 1 = take.block /\ at.block > 1
              /\ at.block > take.block
            BY <1>1, <1>2, <3>2, BlocksAre
        <3>4. at \in [block : 0..MaxBlocks, n : Nat, total : Nat]
            <4>1. take.block + 1 \in 0..MaxBlocks
                BY <3>2, <3>3
            <4> QED BY <1>i, <3>1, <4>1 DEF BufferTypeOK
        <3>5. view[at.block].size > 0
            BY <1>2, <1>b, <3>2
        <3>6. /\ view[at.block].from = 0 /\ view[take.block].size > 0
              /\ view[take.block].from + view[take.block].size = Capacity
            BY <1>2, <1>3, <3>3, <3>5 DEF Contiguous
        <3>7. at.block \in Chain /\ take.block \in Chain
            BY <1>1, <1>2, <1>3, <3>5, <3>6
        <3>8. base[at.block] = base[take.block] + Capacity
            <4>1. take.block < tail_
                BY <1>1, <3>2, <3>7, ChainIs, <1>i
            <4> QED BY <1>i, <3>2, <3>7, <4>1 DEF PlaceInv
        <3>9. take.n = view[take.block].size
            BY <1>1, <1>3, <2>2, <1>b
        <3>10. base[at.block] + view[at.block].from + at.n = Len(wire)
            <4>1. /\ base[take.block] \in Int /\ view[take.block].from \in Nat
                  /\ view[take.block].size \in Nat
                BY <1>1, <1>b
            <4>2. base[take.block] + view[take.block].from + take.n = Len(wire)
                BY <1>3, <3>6
            <4>3. base[take.block] + Capacity = Len(wire) /\ Capacity \in Nat
                <5>1. view[take.block].from + take.n = Capacity
                    BY <3>6, <3>9
                <5>2. Capacity \in Nat /\ take.n \in Nat
                    BY <1>1
                <5>3. base[take.block] + (view[take.block].from + take.n) = Len(wire)
                    <6>1. base[take.block] + (view[take.block].from + take.n)
                            = base[take.block] + view[take.block].from + take.n
                        BY <4>1, <5>2
                    <6> QED BY <4>2, <6>1
                <5> QED BY <5>1, <5>2, <5>3
            <4> QED BY <3>2, <3>6, <3>8, <4>1, <4>3
        <3> QED BY <1>1, <3>2, <3>3, <3>4, <3>10
    <2> QED BY <2>1, <2>2
<1>p. at = Cursor(view, take)
    OBVIOUS
<1> HIDE DEF at
<1>5. at.n \in Nat /\ view[at.block].size > 0
    BY <1>2, <1>4, <1>b
<1>6. /\ at.block \in Chain /\ view[at.block].from = offset[at.block]
      /\ view[at.block].size <= len[at.block]
      /\ base[at.block] + view[at.block].from + view[at.block].size <= Committed
    BY <1>2, <1>3, <1>5
<1>7. offset[at.block] + len[at.block] <= Capacity
    BY <1>i, <1>6 DEF ChainInv
<1>8. view[at.block].from + at.n \in Cells /\ Len(wire) < Committed /\ Len(wire) < received
    <2>1. view[at.block].from + at.n \in Cells
        <3>1. /\ view[at.block].from \in Nat /\ view[at.block].size \in Nat
              /\ offset[at.block] \in Nat /\ len[at.block] \in Nat
            BY <1>2, <1>b
        <3>2. view[at.block].from + at.n < Capacity
            <4>1. Capacity \in Nat /\ at.n \in Nat /\ at.n < view[at.block].size
                BY <1>1, <1>2, <1>5
            <4>2. view[at.block].from + view[at.block].size <= offset[at.block] + len[at.block]
                BY <1>6, <3>1
            <4> QED BY <1>7, <3>1, <4>1, <4>2
        <3>3. view[at.block].from + at.n \in Nat /\ Capacity \in Nat
            BY <1>1, <1>5, <3>1
        <3> QED BY <3>2, <3>3 DEF Cells
    <2>2. Len(wire) < Committed
        <3>1. base[at.block] \in Int /\ view[at.block].from \in Nat /\ view[at.block].size \in Nat
            BY <1>2, <1>b
        <3>2. /\ at.n \in Nat /\ at.n < view[at.block].size /\ Committed \in Int
              /\ base[at.block] + view[at.block].from + at.n = Len(wire)
              /\ base[at.block] + view[at.block].from + view[at.block].size <= Committed
            BY <1>1, <1>2, <1>4, <1>5, <1>6
        <3>3. base[at.block] + view[at.block].from + at.n < Committed
            BY <3>1, <3>2
        <3> QED BY <3>2, <3>3
    <2>3. Committed <= received
        BY <1>1 DEF Committed
    <2> QED BY <1>1, <2>1, <2>2, <2>3
<1>9. mem[at.block][view[at.block].from + at.n] = Stream[Len(wire) + 1]
    <2> DEFINE j == view[at.block].from + at.n
    <2>1. j \in Cells /\ offset[at.block] <= j /\ base[at.block] + j = Len(wire)
        BY <1>2, <1>4, <1>5, <1>6, <1>8, <1>b
    <2> HIDE DEF j
    <2>2. mem[at.block][j] = Stream[base[at.block] + j + 1]
        BY <1>i, <1>6, <1>8, <2>1 DEF MemInv
    <2> QED BY <2>1, <2>2 DEF j
<1> QED BY <1>4, <1>6, <1>8, <1>9, <1>p

(* A byte written is the next one of the stream.                           *)
LEMMA WriteByteKeeps ==
    ASSUME BufferInv, WriteByte
    PROVE  BufferInv'
<1> DEFINE at == Cursor(view, take)
<1>i. /\ BufferTypeOK /\ ChainInv /\ PlaceInv /\ CountInv /\ SizeInv /\ MemInv
      /\ SpaceInv /\ CallInv /\ ReserveInv /\ CommitInv /\ ViewInv /\ DrainInv
    BY DEF BufferInv
<1>0. /\ peeked_ /\ call.op # "drain" /\ take.block # Null /\ InBuffer(view, at)
      /\ wire' = Append(wire, mem[at.block][view[at.block].from + at.n])
      /\ take' = Advance(at)
      /\ UNCHANGED <<chainVars, data_size_, reserved_, peeked_, mem, call, space, fill, view, received, base>>
    BY DEF WriteByte
<1>1. /\ at \in [block : 0..MaxBlocks, n : Nat, total : Nat]
      /\ at.block \in Chain /\ at.total = take.total /\ take.block <= at.block
      /\ base[at.block] + view[at.block].from + at.n = Len(wire)
      /\ Len(wire) < Committed
      /\ mem[at.block][view[at.block].from + at.n] = Stream[Len(wire) + 1]
    BY <1>0, TakePlace
<1>2. at.block \in Blocks /\ at.n < view[at.block].size
    BY <1>0 DEF InBuffer
<1> HIDE DEF at
<1>t. /\ Len(wire) \in Nat /\ received \in Nat /\ fill.total \in Nat /\ take.total \in Nat
      /\ at.n \in Nat /\ at.total \in Nat /\ at.block \in Nat /\ take.block \in Nat
      /\ Committed \in Int /\ Drained \in Int /\ data_size_ \in Int
    BY <1>i, <1>1, Typed, Cursors
<1>b. \A b \in Blocks : b \in Nat /\ base[b] \in Int /\ view[b].from \in Nat /\ view[b].size \in Nat
    BY <1>i, Typed
<1>3. /\ take'.block = at.block /\ take'.n = at.n + 1 /\ take'.total = at.total + 1
      /\ take' \in [block : 0..MaxBlocks, n : Nat, total : Nat]
    <2>1. at.n + 1 \in Nat /\ at.total + 1 \in Nat
        BY <1>t
    <2> QED BY <1>0, <1>1, <2>1 DEF Advance
<1>4. wire' \in Seq(Bytes) /\ Len(wire') = Len(wire) + 1
    <2>1. Committed <= received /\ received \in 0..Len(Stream)
        <3>1. received \in Nat /\ fill.total \in Nat
            BY <1>t
        <3>2. Committed <= received
            BY <3>1 DEF Committed
        <3> QED BY <1>i, <3>2 DEF BufferTypeOK
    <2>2. Len(wire) + 1 \in 1..Len(Stream)
        BY <1>1, <1>t, <2>1, TrafficAssumption
    <2>3. Stream[Len(wire) + 1] \in Bytes
        BY <2>2, TrafficAssumption
    <2>4. wire' = Append(wire, Stream[Len(wire) + 1]) /\ wire \in Seq(Bytes)
        BY <1>i, <1>0, <1>1 DEF BufferTypeOK
    <2> QED BY <2>3, <2>4
<1>5. BufferTypeOK'
    BY <1>i, <1>0, <1>3, <1>4 DEF BufferTypeOK, chainVars
<1>6. /\ Committed' = Committed /\ Drained' = Drained /\ Chain' = Chain
      /\ CommittedNow' = CommittedNow /\ DrainedNow' = DrainedNow
    <2>1. Drained' = Drained
        <3>1. Len(wire') = Len(wire) + 1 /\ take'.total = take.total + 1
            BY <1>1, <1>3, <1>4
        <3>2. Len(wire) \in Nat /\ take.total \in Nat
            BY <1>t
        <3>3. Drained' = (Len(wire) + 1) - (take.total + 1)
            BY <3>1 DEF Drained
        <3> QED BY <3>2, <3>3 DEF Drained
    <2> QED BY <1>0, <2>1, SameChain DEF Committed, CommittedNow, DrainedNow
<1>7. ChainInv' /\ PlaceInv' /\ CountInv'
    BY <1>i, <1>0, <1>6, ChainSame
<1>8. SizeInv'
    <2>1. data_size_ = Committed - Drained /\ Drained = Len(wire) - take.total
        BY <1>i DEF SizeInv, Drained
    <2>2. take'.total <= data_size_
        <3>1. take'.total = take.total + 1 /\ Len(wire) < Committed
            BY <1>1, <1>3
        <3>2. Len(wire) \in Nat /\ take.total \in Nat /\ Committed \in Int
            BY <1>t
        <3>3. data_size_ = Committed - (Len(wire) - take.total)
            BY <2>1
        <3>4. take.total + 1 <= Committed - (Len(wire) - take.total)
            BY <3>1, <3>2
        <3> QED BY <3>1, <3>3, <3>4
    <2> QED BY <1>0, <1>6, <2>1, <2>2 DEF SizeInv
<1>9. MemInv'
    BY <1>i, <1>0, <1>6, MemSame DEF chainVars
<1>10. SpaceInv' /\ CallInv' /\ ReserveInv' /\ CommitInv' /\ DrainInv'
    <2>1. ReserveInv' /\ CommitInv' /\ DrainInv'
        <3>1. SpaceStepper' = SpaceStepper
            BY <1>0 DEF SpaceStepper, SpaceLen, next, chainVars
        <3> QED BY <1>i, <1>0, <1>6, <3>1 DEF ReserveInv, CommitInv, DrainInv, chainVars
    <2>2. SpaceInv'
        BY <1>i, <1>0, <1>6 DEF SpaceInv, Contiguous
    <2>3. CallInv'
        BY <1>i, <1>0, <1>6 DEF CallInv
    <2> QED BY <2>1, <2>2, <2>3
<1>11. ViewInv'
    <2>1. \A b \in Blocks : b > at.block => Contiguous(view, b)
        BY <1>i, <1>0, <1>1, <1>b, <1>t DEF ViewInv
    <2>2. take'.n <= view[at.block].size
        BY <1>2, <1>3, <1>b, <1>t
    <2>3. base[at.block] + view[at.block].from + take'.n = Len(wire')
        <3>1. base[at.block] \in Int /\ view[at.block].from \in Nat
            BY <1>2, <1>b
        <3>2. /\ Len(wire) \in Nat /\ at.n \in Nat
              /\ base[at.block] + view[at.block].from + at.n = Len(wire)
            BY <1>1, <1>t
        <3>3. base[at.block] + view[at.block].from + (at.n + 1) = Len(wire) + 1
            BY <3>1, <3>2
        <3> QED BY <1>3, <1>4, <3>3
    <2>4. at.block # Null
        BY <1>2, BlocksAre
    <2> QED BY <1>i, <1>0, <1>3, <1>6, <2>1, <2>2, <2>3, <2>4 DEF ViewInv, Contiguous, chainVars
<1> QED BY <1>5, <1>7, <1>8, <1>9, <1>10, <1>11 DEF BufferInv

(* Drain starts.                                                           *)
LEMMA DrainCallKeeps ==
    ASSUME BufferInv, DrainCall
    PROVE  BufferInv'
<1>i. /\ BufferTypeOK /\ ChainInv /\ PlaceInv /\ CountInv /\ SizeInv /\ MemInv
      /\ SpaceInv /\ CallInv /\ ReserveInv /\ CommitInv /\ ViewInv /\ DrainInv
    BY DEF BufferInv
<1>0. /\ call.op = "none" /\ peeked_
      /\ call' = [op |-> "drain", size |-> take.total, rem |-> take.total, block |-> Null,
                  exact |-> FALSE]
      /\ UNCHANGED <<chainVars, data_size_, reserved_, peeked_, mem, ioVars, base>>
    BY DEF DrainCall
<1>t. take.total \in Nat /\ MaxBlocks \in Nat /\ Committed \in Int /\ Drained \in Int
    BY <1>i, Cursors, CapacityNat, Typed
<1>1. /\ Committed' = Committed /\ Drained' = Drained /\ Chain' = Chain
      /\ CommittedNow' = CommittedNow /\ DrainedNow' = DrainedNow
    <2>1. Committed' = Committed /\ Drained' = Drained /\ take.total - take.total = 0
        BY <1>0, <1>t DEF Committed, Drained, ioVars
    <2> QED BY <1>0, <1>t, <2>1, SameChain DEF CommittedNow, DrainedNow
<1>2. BufferTypeOK'
    <2>1. call' \in [op : {"none", "reserve", "commit", "drain"}, size : Nat, rem : Nat,
                     block : 0..MaxBlocks, exact : BOOLEAN]
        BY <1>0, <1>t
    <2> QED BY <1>i, <1>0, <2>1 DEF BufferTypeOK, chainVars, ioVars
<1>3. ChainInv' /\ PlaceInv' /\ CountInv'
    BY <1>i, <1>0, <1>1, ChainSame
<1>4. SizeInv' /\ CallInv' /\ ReserveInv' /\ CommitInv' /\ DrainInv'
    BY <1>i, <1>0, <1>1, <1>t DEF SizeInv, CallInv, ReserveInv, CommitInv, DrainInv, ioVars
<1>5. MemInv'
    BY <1>i, <1>0, <1>1, MemSame DEF chainVars, ioVars
<1>6. SpaceInv'
    BY <1>i, <1>0, <1>1, SpaceSame DEF ioVars
<1>7. ViewInv'
    BY <1>i, <1>0 DEF ViewInv, ioVars
<1> QED BY <1>2, <1>3, <1>4, <1>5, <1>6, <1>7 DEF BufferInv

(* While bytes are left to drain, the first block has some.                *)
LEMMA DataIsThere ==
    ASSUME BufferInv, call.op = "drain", call.rem > 0
    PROVE  head_ # Null /\ head_ \in Chain /\ head_ <= end_ /\ end_ \in Chain /\ len[head_] > 0
<1>i. BufferTypeOK /\ ChainInv /\ PlaceInv /\ SizeInv /\ DrainInv
    BY DEF BufferInv
<1>t. /\ head_ \in Nat /\ end_ \in Nat /\ tail_ \in Nat /\ Capacity \in Nat
      /\ Committed \in Int /\ Drained \in Int /\ call.rem \in Nat /\ call.size \in Nat
      /\ take.total \in Nat /\ data_size_ \in Int
    BY <1>i, Typed, Cursors, CapacityNat
<1>1. DrainedNow < CommittedNow
    <2>1. CommittedNow = Committed /\ DrainedNow = Drained + (call.size - call.rem)
        BY <1>t DEF CommittedNow, DrainedNow
    <2>2. call.size = take.total /\ take.total <= data_size_ /\ data_size_ = Committed - Drained
        BY <1>i DEF SizeInv, DrainInv
    <2> QED BY <1>t, <2>1, <2>2
<1>2. CommittedNow \in Int /\ DrainedNow \in Int
    BY <1>i, Cursors
<1>3. head_ # Null /\ head_ # end_ + 1
    BY <1>i, <1>1, <1>2 DEF PlaceInv
<1>4. head_ <= tail_ /\ end_ # Null /\ end_ <= tail_ /\ head_ <= end_
    BY <1>i, <1>3, <1>t DEF ChainInv
<1>5. head_ \in Chain /\ end_ \in Chain
    BY <1>i, <1>3, <1>4, <1>t, ChainIs
<1>b. /\ base[head_] \in Int /\ offset[head_] \in Nat /\ len[head_] \in Nat
    BY <1>i, <1>5, Typed DEF Chain
<1>6. len[head_] > 0
    <2>1. CASE head_ = end_
        <3>1. /\ base[head_] + offset[head_] = DrainedNow
              /\ base[head_] + offset[head_] + len[head_] = CommittedNow
            BY <1>i, <1>3, <1>5, <2>1 DEF PlaceInv
        <3> QED BY <1>1, <1>2, <1>b, <3>1
    <2>2. CASE head_ < end_
        <3>1. offset[head_] < Capacity /\ offset[head_] + len[head_] = Capacity
            BY <1>i, <1>5, <2>2 DEF ChainInv
        <3> QED BY <1>b, <1>t, <3>1
    <2> QED BY <1>4, <1>t, <2>1, <2>2
<1> QED BY <1>3, <1>4, <1>5, <1>6

(* For the count of blocks.                                                *)
LEMMA OneBlock ==
    ASSUME NEW n \in Int, NEW c \in Nat, c > 0, n * c = c
    PROVE  n = 1
<1>1. ~(n >= 2)
    <2>1. ASSUME n >= 2 PROVE n * c >= 2 * c
        BY <2>1
    <2> QED BY <2>1
<1>2. ~(n <= 0)
    <2>1. ASSUME n <= 0 PROVE n * c <= 0
        BY <2>1
    <2> QED BY <2>1
<1> QED BY <1>1, <1>2

(* A turn of Drain: a block that is given back has no reserved space,      *)
(* since that begins behind the data.                                      *)
LEMMA DrainStepKeeps ==
    ASSUME BufferInv, DrainStep
    PROVE  BufferInv'
<1> DEFINE n == Least(len[head_], call.rem)
<1>i. /\ BufferTypeOK /\ ChainInv /\ PlaceInv /\ CountInv /\ SizeInv /\ MemInv
      /\ SpaceInv /\ CallInv /\ ReserveInv /\ CommitInv /\ ViewInv /\ DrainInv
    BY DEF BufferInv
<1>0. /\ call.op = "drain" /\ call.rem > 0
      /\ offset' = [offset EXCEPT ![head_] = @ + n]
      /\ len' = [len EXCEPT ![head_] = @ - n]
      /\ call' = [call EXCEPT !.rem = @ - n]
      /\ IF len'[head_] = 0 /\ offset'[head_] = Capacity
         THEN head_' = next(head_) /\ block_cnt_' = block_cnt_ - 1
         ELSE UNCHANGED <<head_, block_cnt_>>
      /\ UNCHANGED <<end_, tail_, data_size_, reserved_, peeked_, mem, ioVars, base>>
    BY DEF DrainStep
<1>1. head_ # Null /\ head_ \in Chain /\ head_ <= end_ /\ end_ \in Chain /\ len[head_] > 0
    BY <1>0, DataIsThere
<1>t. /\ head_ \in Nat /\ end_ \in Nat /\ tail_ \in Nat /\ Capacity \in Nat /\ Capacity > 0
      /\ tail_ <= MaxBlocks /\ MaxBlocks \in Nat /\ received \in Nat
      /\ call.rem \in Nat /\ call.size \in Nat /\ head_ \in Blocks /\ block_cnt_ \in Int
      /\ Committed \in Int /\ Drained \in Int /\ CommittedNow \in Int /\ DrainedNow \in Int
      /\ base[head_] \in Int /\ offset[head_] \in Nat /\ len[head_] \in Nat
      /\ take.total \in Nat
    BY <1>i, <1>1, Typed, Cursors, CapacityNat DEF Chain
<1>b. \A b \in Blocks : /\ b \in Nat /\ offset[b] \in Nat /\ len[b] \in Nat /\ base[b] \in Int
                        /\ space[b].from \in Nat /\ space[b].size \in Nat
    BY <1>i, Typed
<1>2. /\ n \in Nat /\ n > 0 /\ n <= call.rem /\ n <= len[head_]
      /\ len[head_] - n \in Nat /\ offset[head_] + n \in Nat /\ call.rem - n \in Nat
    <2>1. /\ n \in Nat /\ n > 0 /\ n <= call.rem /\ n <= len[head_]
        BY <1>0, <1>1, <1>t DEF Least
    <2> HIDE DEF n
    <2> QED BY <1>t, <2>1
<1> HIDE DEF n
<1>3. /\ offset' \in [Blocks -> Nat] /\ len' \in [Blocks -> Nat]
      /\ offset'[head_] = offset[head_] + n /\ len'[head_] = len[head_] - n
      /\ \A b \in Blocks : b # head_ => offset'[b] = offset[b] /\ len'[b] = len[b]
    BY <1>i, <1>0, <1>2, <1>t DEF BufferTypeOK
<1>4. /\ call'.op = "drain" /\ call'.rem = call.rem - n /\ call'.size = call.size
      /\ call' \in [op : {"none", "reserve", "commit", "drain"}, size : Nat, rem : Nat,
                    block : 0..MaxBlocks, exact : BOOLEAN]
    BY <1>i, <1>0, <1>2 DEF BufferTypeOK
<1>5. /\ Committed' = Committed /\ Drained' = Drained /\ CommittedNow' = CommittedNow
      /\ CommittedNow = Committed
      /\ DrainedNow' = DrainedNow + n /\ DrainedNow = Drained + (call.size - call.rem)
    <2>1. Committed' = Committed /\ Drained' = Drained
        BY <1>0 DEF Committed, Drained, ioVars
    <2>2. CommittedNow' = CommittedNow /\ CommittedNow = Committed
        BY <1>0, <1>4, <1>t, <2>1 DEF CommittedNow
    <2>3. /\ DrainedNow = Drained + (call.size - call.rem)
          /\ DrainedNow' = Drained + (call.size - (call.rem - n))
        BY <1>0, <1>4, <2>1 DEF DrainedNow
    <2> QED BY <1>2, <1>t, <2>1, <2>2, <2>3
<1>6. DrainedNow' <= Committed
    <2>1. call.size = take.total /\ take.total <= data_size_ /\ data_size_ = Committed - Drained
        BY <1>i, <1>0 DEF SizeInv, DrainInv
    <2> QED BY <1>2, <1>5, <1>t, <2>1
<1>7. SizeInv' /\ CallInv' /\ ReserveInv' /\ CommitInv' /\ DrainInv'
    <2>1. call'.rem <= call.size
        <3>1. call.rem <= call.size
            BY <1>i, <1>0 DEF DrainInv
        <3> QED BY <1>2, <1>4, <1>t, <3>1
    <2> QED
        BY <1>i, <1>0, <1>4, <1>5, <2>1
           DEF SizeInv, CallInv, ReserveInv, CommitInv, DrainInv, ioVars
<1>8. ViewInv'
    BY <1>i, <1>0, <1>4 DEF ViewInv, ioVars
<1>9. /\ offset[head_] + len[head_] <= Capacity /\ base[head_] + offset[head_] = DrainedNow
      /\ offset'[head_] + len'[head_] = offset[head_] + len[head_]
      /\ base[head_] + offset'[head_] = DrainedNow'
    <2>1. offset[head_] + len[head_] <= Capacity /\ base[head_] + offset[head_] = DrainedNow
        BY <1>i, <1>1 DEF ChainInv, PlaceInv
    <2> QED BY <1>2, <1>3, <1>5, <1>t, <2>1
<1>10. CASE ~(len'[head_] = 0 /\ offset'[head_] = Capacity)
    <2>1. /\ head_' = head_ /\ block_cnt_' = block_cnt_ /\ end_' = end_ /\ tail_' = tail_
          /\ base' = base
        BY <1>0, <1>10
    <2>2. Chain' = Chain
        BY <2>1 DEF Chain, InChain
    <2>3. BufferTypeOK'
        BY <1>i, <1>0, <1>3, <1>4, <2>1 DEF BufferTypeOK, ioVars
    <2>4. offset'[head_] < Capacity
        BY <1>2, <1>3, <1>9, <1>10, <1>t
    <2>5. ChainInv'
        <3>1. ASSUME NEW b \in Chain
              PROVE  /\ offset'[b] < Capacity /\ offset'[b] + len'[b] <= Capacity
                     /\ b > head_ => offset'[b] = 0
                     /\ b < end_ => offset'[b] + len'[b] = Capacity
                     /\ b > end_ => len'[b] = 0
            <4>1. /\ offset[b] < Capacity /\ offset[b] + len[b] <= Capacity
                  /\ b > head_ => offset[b] = 0
                  /\ b < end_ => offset[b] + len[b] = Capacity
                  /\ b > end_ => len[b] = 0
                BY <1>i DEF ChainInv
            <4>2. CASE b = head_
                BY <1>1, <1>9, <1>t, <2>4, <4>1, <4>2
            <4>3. CASE b # head_
                BY <1>3, <4>1, <4>3 DEF Chain
            <4> QED BY <4>2, <4>3
        <3>2. head_ <= tail_ /\ end_ # Null /\ end_ <= tail_ /\ head_ <= end_ + 1
            BY <1>i, <1>1 DEF ChainInv
        <3> QED BY <1>4, <2>1, <2>2, <3>1, <3>2 DEF ChainInv
    <2>6. PlaceInv'
        <3>1. base[end_] + offset'[end_] + len'[end_] = CommittedNow
            <4>1. base[end_] + offset[end_] + len[end_] = CommittedNow
                BY <1>i, <1>1 DEF PlaceInv
            <4>2. CASE end_ = head_
                <5>1. /\ offset'[head_] \in Nat /\ len'[head_] \in Nat
                    BY <1>3, <1>t
                <5> QED BY <1>9, <1>t, <4>1, <4>2, <5>1
            <4>3. CASE end_ # head_
                BY <1>1, <1>3, <4>1, <4>3 DEF Chain
            <4> QED BY <4>2, <4>3
        <3>2. ~(head_ = Null \/ head_ = end_ + 1)
            BY <1>1, <1>t
        <3>3. /\ \A b \in Chain : b < tail_ => base[b + 1] = base[b] + Capacity
              /\ \A b, m \in Chain : b < m => base[b] + Capacity <= base[m]
            BY <1>i DEF PlaceInv
        <3> QED BY <1>5, <1>9, <2>1, <2>2, <3>1, <3>2, <3>3 DEF PlaceInv
    <2>7. CountInv'
        BY <1>i, <2>1 DEF CountInv
    <2>8. MemInv'
        <3>1. SUFFICES ASSUME NEW b \in Chain, NEW j \in Cells, offset'[b] <= j, base[b] + j < received
                       PROVE  mem[b][j] = Stream[base[b] + j + 1]
            BY <1>0, <2>2 DEF MemInv, ioVars
        <3>2. offset[b] <= j
            <4>1. b \in Blocks /\ j \in Nat
                BY <1>t DEF Chain, Cells
            <4>2. CASE b = head_
                BY <1>2, <1>3, <1>t, <3>1, <4>1, <4>2
            <4>3. CASE b # head_
                BY <1>3, <3>1, <4>1, <4>3
            <4> QED BY <4>2, <4>3
        <3> QED BY <1>i, <3>1, <3>2 DEF MemInv
    <2>9. SpaceInv'
        BY <1>i, <1>0, <1>4, <2>2, SpaceSame DEF ioVars
    <2> QED BY <1>7, <1>8, <2>3, <2>5, <2>6, <2>7, <2>8, <2>9 DEF BufferInv
<1>11. CASE len'[head_] = 0 /\ offset'[head_] = Capacity
    <2>1. /\ head_' = next(head_) /\ block_cnt_' = block_cnt_ - 1
          /\ end_' = end_ /\ tail_' = tail_ /\ base' = base
        BY <1>0, <1>11
    <2>2. offset[head_] + len[head_] = Capacity /\ base[head_] + Capacity = DrainedNow'
        BY <1>9, <1>11, <1>t
    <2>3. next(head_) \in 0..MaxBlocks /\ next(head_) = IF head_ < tail_ THEN head_ + 1 ELSE Null
        BY <1>t DEF next
    <2>4. BufferTypeOK'
        <3>1. block_cnt_' \in Int
            BY <1>t, <2>1
        <3> QED BY <1>i, <1>0, <1>3, <1>4, <2>1, <2>3, <3>1 DEF BufferTypeOK, ioVars
    <2>5. \A b \in Blocks : space[b].size > 0 => b # head_
        <3>1. SUFFICES ASSUME space[head_].size > 0 PROVE FALSE
            OBVIOUS
        <3>2. /\ base[head_] + space[head_].from >= Committed
              /\ space[head_].from + space[head_].size <= Capacity
            BY <1>i, <1>t, <3>1 DEF SpaceInv
        <3>3. space[head_].from \in Nat /\ space[head_].size \in Nat
            BY <1>b, <1>t
        <3>4. base[head_] + Capacity <= Committed
            BY <1>6, <2>2
        <3> QED BY <1>t, <3>1, <3>2, <3>3, <3>4
    <2>6. /\ head_ <= tail_ /\ end_ # Null /\ end_ <= tail_
        BY <1>i, <1>1 DEF ChainInv
    <2>7. /\ Chain' = Chain \ {head_}
          /\ \A b \in Chain' : b \in Chain /\ b # head_ /\ b > head_ /\ b \in Blocks
        <3>1. ASSUME NEW b \in Blocks
              PROVE  InChain(b)' <=> InChain(b) /\ b # head_
            <4>1. CASE head_ < tail_
                BY <1>1, <1>b, <1>t, <2>1, <2>3, <4>1 DEF InChain
            <4>2. CASE head_ = tail_
                BY <1>1, <1>b, <1>t, <2>1, <2>3, <4>2 DEF InChain
            <4> QED BY <1>t, <2>6, <4>1, <4>2
        <3>2. Chain' = Chain \ {head_}
            BY <3>1 DEF Chain
        <3>3. \A b \in Chain : b \in Blocks /\ b >= head_ /\ b \in Nat
            BY <1>b, <1>t DEF Chain, InChain
        <3> QED BY <1>t, <3>2, <3>3
    <2>8. ChainInv'
        <3>1. ASSUME NEW b \in Chain'
              PROVE  /\ offset'[b] < Capacity /\ offset'[b] + len'[b] <= Capacity
                     /\ offset'[b] = 0
                     /\ b < end_ => offset'[b] + len'[b] = Capacity
                     /\ b > end_ => len'[b] = 0
            <4>1. b \in Chain /\ b # head_ /\ b > head_ /\ b \in Blocks
                BY <2>7
            <4> QED BY <1>i, <1>3, <4>1 DEF ChainInv
        <3>2. head_' <= tail_
            BY <1>t, <2>1, <2>3
        <3>3. head_' # Null => head_' <= end_ + 1
            BY <1>1, <1>t, <2>1, <2>3
        <3> QED BY <1>4, <2>1, <2>6, <3>1, <3>2, <3>3 DEF ChainInv
    <2>9. PlaceInv'
        <3>1. /\ \A b \in Chain' : b < tail_ => base[b + 1] = base[b] + Capacity
              /\ \A b, m \in Chain' : b < m => base[b] + Capacity <= base[m]
            BY <1>i, <2>7 DEF PlaceInv
        <3>2. end_ \in Chain' => base[end_] + offset'[end_] + len'[end_] = CommittedNow
            BY <1>i, <1>3, <2>7 DEF PlaceInv
        <3>3. head_' # Null => base[head_'] + offset'[head_'] = DrainedNow'
            <4>1. SUFFICES ASSUME head_' # Null PROVE base[head_'] + offset'[head_'] = DrainedNow'
                OBVIOUS
            <4>2. head_' = head_ + 1 /\ head_ < tail_
                BY <2>1, <2>3, <4>1
            <4>3. base[head_ + 1] = base[head_] + Capacity
                BY <1>i, <1>1, <4>2 DEF PlaceInv
            <4>4. head_ + 1 \in Chain
                BY <1>i, <1>1, <1>t, <4>2, ChainIs
            <4>5. offset[head_ + 1] = 0 /\ offset'[head_ + 1] = offset[head_ + 1]
                BY <1>i, <1>3, <1>t, <4>4 DEF ChainInv, Chain
            <4>6. DrainedNow' \in Int
                BY <1>2, <1>5, <1>t
            <4> QED BY <1>t, <2>2, <4>2, <4>3, <4>5, <4>6
        <3>4. head_' = Null \/ head_' = end_ + 1 => DrainedNow' = CommittedNow
            <4>1. SUFFICES ASSUME head_' = Null \/ head_' = end_ + 1 PROVE DrainedNow' = CommittedNow
                OBVIOUS
            <4>2. head_ = end_
                BY <1>1, <1>t, <2>1, <2>3, <2>6, <4>1
            <4>3. base[end_] + offset[end_] + len[end_] = CommittedNow
                BY <1>i, <1>1 DEF PlaceInv
            <4> QED BY <1>t, <2>2, <4>2, <4>3
        <3> QED BY <1>5, <2>1, <3>1, <3>2, <3>3, <3>4 DEF PlaceInv
    <2>10. CountInv'
        <3>0. base[tail_] + Capacity = base[head_] + block_cnt_ * Capacity
            BY <1>i, <1>1 DEF CountInv
        <3>1. CASE head_ < tail_
            <4>1. /\ base[head_ + 1] = base[head_] + Capacity /\ head_' = head_ + 1
                  /\ head_' # Null
                BY <1>i, <1>1, <1>t, <2>1, <2>3, <3>1 DEF PlaceInv
            <4>2. tail_ \in Chain
                BY <1>i, <1>1, <1>t, <2>6, ChainIs
            <4>3. base[tail_] \in Int
                BY <1>b, <4>2 DEF Chain
            <4>4. block_cnt_ * Capacity = (block_cnt_ - 1) * Capacity + Capacity
                BY <1>t
            <4>5. (block_cnt_ - 1) * Capacity \in Int
                BY <1>t
            <4>6. base[tail_] + Capacity = base[head_ + 1] + (block_cnt_ - 1) * Capacity
                BY <1>t, <3>0, <4>1, <4>3, <4>4, <4>5
            <4> QED BY <2>1, <4>1, <4>6 DEF CountInv
        <3>2. CASE head_ = tail_
            <4>1. head_' = Null
                BY <1>t, <2>1, <2>3, <3>2
            <4>2. block_cnt_ * Capacity \in Int
                BY <1>t
            <4>3. block_cnt_ * Capacity = Capacity
                BY <1>t, <3>0, <3>2, <4>2
            <4>4. block_cnt_ = 1
                BY <1>t, <4>3, OneBlock
            <4> QED BY <2>1, <4>1, <4>4 DEF CountInv
        <3> QED BY <1>t, <2>6, <3>1, <3>2
    <2>11. MemInv'
        BY <1>i, <1>0, <1>3, <2>7 DEF MemInv, ioVars
    <2>12. SpaceInv'
        <3>1. \A b \in Blocks : space[b].size > 0 => b \in Chain'
            BY <1>i, <2>5, <2>7 DEF SpaceInv
        <3> QED BY <1>i, <1>0, <1>4, <1>5, <3>1 DEF SpaceInv, Contiguous, ioVars
    <2> QED BY <1>7, <1>8, <2>4, <2>8, <2>9, <2>10, <2>11, <2>12 DEF BufferInv
<1> QED BY <1>10, <1>11

(* Drain returns: when all is drained the chain is empty, and the space    *)
(* at the front is used again only when nobody reads into it.              *)
LEMMA DrainReturnsKeeps ==
    ASSUME BufferInv, DrainReturns
    PROVE  BufferInv'
<1>i. /\ BufferTypeOK /\ ChainInv /\ PlaceInv /\ CountInv /\ SizeInv /\ MemInv
      /\ SpaceInv /\ CallInv /\ ReserveInv /\ CommitInv /\ ViewInv /\ DrainInv
    BY DEF BufferInv
<1>0. /\ call.op = "drain" /\ call.rem = 0
      /\ data_size_' = data_size_ - call.size
      /\ peeked_' = FALSE
      /\ call' = NoCall
      /\ end_' = end_AfterDrain
      /\ IF ResetsHead
         THEN /\ offset' = [offset EXCEPT ![head_] = 0]
              /\ base' = [k \in Blocks |-> IF k < head_ THEN base[k] ELSE base[k] + offset[head_]]
         ELSE UNCHANGED <<offset, base>>
      /\ view' = [k \in Blocks |-> NoBuffer]
      /\ take' = NoCursor
      /\ UNCHANGED <<head_, tail_, block_cnt_, len, reserved_, mem, space, fill, received, wire>>
    BY DEF DrainReturns
<1>t. /\ head_ \in Nat /\ end_ \in Nat /\ tail_ \in Nat /\ Capacity \in Nat /\ Capacity > 0
      /\ tail_ <= MaxBlocks /\ MaxBlocks \in Nat /\ received \in Nat /\ Len(wire) \in Nat
      /\ call.size \in Nat /\ take.total \in Nat /\ data_size_ \in Int /\ fill.total \in Nat
      /\ Committed \in Int /\ Drained \in Int /\ CommittedNow \in Int /\ DrainedNow \in Int
    BY <1>i, Typed, Cursors, CapacityNat
<1>b. \A b \in Blocks : b \in Nat /\ offset[b] \in Nat /\ len[b] \in Nat /\ base[b] \in Int
    BY <1>i, Typed
<1>1. /\ call.size = take.total /\ take.total <= data_size_ /\ data_size_ = Committed - Drained
    BY <1>i, <1>0 DEF DrainInv, SizeInv
<1>2. call'.op = "none" /\ call'.block = Null
    BY <1>0 DEF NoCall
<1>3. /\ Committed' = Committed /\ CommittedNow = Committed /\ CommittedNow' = Committed
      /\ Drained' = DrainedNow /\ DrainedNow' = DrainedNow /\ DrainedNow = Drained + take.total
    <2>1. Committed' = Committed /\ Drained' = Len(wire) /\ Drained = Len(wire) - take.total
        BY <1>0, <1>t DEF Committed, Drained, NoCursor
    <2>2. CommittedNow = Committed /\ CommittedNow' = Committed
        BY <1>0, <1>2, <1>t, <2>1 DEF CommittedNow
    <2>3. DrainedNow = Len(wire) /\ DrainedNow' = Len(wire)
        <3>1. DrainedNow = Drained + (take.total - 0)
            BY <1>0, <1>1 DEF DrainedNow
        <3>2. DrainedNow' = Drained' + 0
            BY <1>2 DEF DrainedNow
        <3> QED BY <1>t, <2>1, <3>1, <3>2
    <2> QED BY <1>t, <2>1, <2>2, <2>3
<1>4. /\ Chain' = Chain
      /\ \A b \in Chain : b \in Blocks /\ b \in Nat /\ head_ <= b /\ b <= tail_ /\ head_ # Null
    BY <1>0, <1>b DEF Chain, InChain
<1>5. SizeInv'
    <2>1. take'.total = 0
        BY <1>0 DEF NoCursor
    <2>2. /\ data_size_' = data_size_ - take.total /\ take.total <= data_size_
          /\ data_size_ = Committed - Drained /\ DrainedNow = Drained + take.total
        BY <1>0, <1>1, <1>3
    <2>3. data_size_ \in Int /\ take.total \in Nat /\ Committed \in Int /\ Drained \in Int
        BY <1>t
    <2>4. data_size_' = Committed - DrainedNow /\ 0 <= data_size_'
        BY <2>2, <2>3
    <2> QED BY <1>3, <2>1, <2>4 DEF SizeInv
<1>6. ViewInv' /\ CallInv' /\ ReserveInv' /\ CommitInv' /\ DrainInv'
    BY <1>0, <1>2 DEF ViewInv, CallInv, ReserveInv, CommitInv, DrainInv, NoBuffer, NoCursor
<1>7. ASSUME end_' \in 0..MaxBlocks, offset' \in [Blocks -> Nat], base' \in [Blocks -> Int]
      PROVE  BufferTypeOK'
    <2>1. view' \in [Blocks -> [from : Nat, size : Nat]]
        BY <1>0 DEF NoBuffer
    <2>2. take' \in [block : 0..MaxBlocks, n : Nat, total : Nat]
        BY <1>0, <1>t DEF NoCursor
    <2>3. call' \in [op : {"none", "reserve", "commit", "drain"}, size : Nat, rem : Nat,
                     block : 0..MaxBlocks, exact : BOOLEAN]
        BY <1>0, <1>t DEF NoCall
    <2>4. data_size_' \in Int
        <3>1. data_size_' = data_size_ - call.size
            BY <1>0
        <3>2. data_size_ \in Int /\ call.size \in Nat
            BY <1>t
        <3> QED BY <3>1, <3>2
    <2> QED BY <1>i, <1>0, <1>7, <2>1, <2>2, <2>3, <2>4 DEF BufferTypeOK
<1>8. CASE data_size_ # call.size
    <2>1. end_' = end_ /\ offset' = offset /\ base' = base
        BY <1>0, <1>8 DEF end_AfterDrain, ResetsHead
    <2>2. BufferTypeOK'
        BY <1>i, <1>7, <2>1 DEF BufferTypeOK
    <2>3. head_ # Null /\ head_ # end_ + 1
        <3>1. DrainedNow # CommittedNow
            BY <1>1, <1>3, <1>8, <1>t
        <3> QED BY <1>i, <3>1 DEF PlaceInv
    <2>4. ChainInv'
        <3>1. head_ <= end_
            BY <1>i, <1>t, <2>3 DEF ChainInv
        <3> QED BY <1>i, <1>0, <1>4, <2>1, <2>3, <3>1 DEF ChainInv
    <2>5. PlaceInv' /\ CountInv'
        BY <1>i, <1>0, <1>3, <1>4, <2>1 DEF PlaceInv, CountInv
    <2>6. MemInv'
        BY <1>i, <1>0, <1>4, <2>1, MemSame
    <2>7. SpaceInv'
        BY <1>i, <1>0, <1>2, <1>4, <2>1, SpaceSame
    <2> QED BY <1>5, <1>6, <2>2, <2>4, <2>5, <2>6, <2>7 DEF BufferInv
<1>9. CASE data_size_ = call.size
    <2>1. end_' = head_ /\ DrainedNow = Committed
        <3>1. end_' = head_
            BY <1>0, <1>9 DEF end_AfterDrain
        <3> QED BY <1>1, <1>3, <1>9, <1>t, <3>1
    <2>2. ASSUME head_ # Null
          PROVE  /\ \A b \in Chain : len[b] = 0
                 /\ head_ \in Chain /\ base[head_] + offset[head_] = Committed
        <3>1. head_ \in Chain
            BY <1>i, <1>t, <2>2, ChainIs DEF ChainInv
        <3>2. base[head_] + offset[head_] = Committed
            BY <1>i, <2>1, <2>2 DEF PlaceInv
        <3>3. end_ # Null /\ end_ <= tail_ /\ head_ <= end_ + 1
            BY <1>i, <2>2 DEF ChainInv
        <3>4. CASE head_ = end_ + 1
            <4>1. \A b \in Chain : b > end_
                BY <1>4, <1>t, <3>4
            <4> QED BY <1>i, <3>1, <3>2, <4>1 DEF ChainInv
        <3>5. CASE head_ <= end_
            <4>1. end_ \in Chain
                BY <1>i, <1>t, <2>2, <3>3, <3>5, ChainIs
            <4>2. base[end_] + offset[end_] + len[end_] = Committed
                BY <1>i, <1>3, <4>1 DEF PlaceInv
            <4>3. /\ base[end_] \in Int /\ offset[end_] \in Nat /\ len[end_] \in Nat
                  /\ base[head_] \in Int /\ offset[head_] \in Nat
                BY <1>4, <1>b, <3>1, <4>1
            <4>4. head_ = end_
                <5>1. SUFFICES ASSUME head_ < end_ PROVE FALSE
                    BY <1>t, <3>5
                <5>2. base[head_] + Capacity <= base[end_] /\ offset[head_] < Capacity
                    BY <1>i, <3>1, <4>1, <5>1 DEF PlaceInv, ChainInv
                <5>3. base[end_] <= Committed
                    BY <1>t, <4>2, <4>3
                <5>4. Committed < base[head_] + Capacity
                    BY <1>t, <3>2, <4>3, <5>2
                <5> QED BY <1>t, <4>3, <5>2, <5>3, <5>4
            <4>5. len[end_] = 0
                BY <1>t, <3>2, <4>2, <4>3, <4>4
            <4>6. \A b \in Chain : b = end_ \/ b > end_
                BY <1>4, <1>t, <4>4
            <4> QED BY <1>i, <3>1, <3>2, <4>5, <4>6 DEF ChainInv
        <3> QED BY <1>t, <3>3, <3>4, <3>5
    <2>3. end_' \in 0..MaxBlocks
        BY <1>i, <2>1 DEF BufferTypeOK
    <2>4. CASE ~ResetsHead
        <3>1. offset' = offset /\ base' = base
            BY <1>0, <2>4
        <3>2. BufferTypeOK'
            BY <1>i, <1>7, <2>3, <3>1 DEF BufferTypeOK
        <3>3. ChainInv'
            <4>1. \A b \in Chain : /\ offset[b] < Capacity /\ offset[b] + len[b] <= Capacity
                                   /\ b > head_ => offset[b] = 0
                                   /\ ~(b < head_) /\ len[b] = 0
                BY <1>i, <1>4, <1>t, <2>2 DEF ChainInv
            <4>2. head_ <= tail_ /\ head_ <= head_ + 1 /\ head_ <= head_
                BY <1>i, <1>t DEF ChainInv
            <4> QED BY <1>0, <1>4, <2>1, <3>1, <4>1, <4>2 DEF ChainInv
        <3>4. PlaceInv'
            <4>1. head_ # Null => base[head_] + offset[head_] + len[head_] = Committed
                <5>1. SUFFICES ASSUME head_ # Null PROVE base[head_] + offset[head_] + len[head_] = Committed
                    OBVIOUS
                <5>2. base[head_] \in Int /\ offset[head_] \in Nat
                    BY <1>4, <1>b, <2>2, <5>1
                <5> QED BY <1>t, <2>2, <5>1, <5>2
            <4>2. head_ \in Chain => head_ # Null
                BY <1>4
            <4> QED BY <1>i, <1>0, <1>3, <1>4, <2>1, <3>1, <4>1, <4>2 DEF PlaceInv
        <3>5. CountInv'
            BY <1>i, <1>0, <3>1 DEF CountInv
        <3>6. MemInv'
            BY <1>i, <1>0, <1>4, <3>1, MemSame
        <3>7. SpaceInv'
            BY <1>i, <1>0, <1>2, <1>4, <3>1, SpaceSame
        <3> QED BY <1>5, <1>6, <3>2, <3>3, <3>4, <3>5, <3>6, <3>7 DEF BufferInv
    <2>5. CASE ResetsHead
        <3>0. head_ # Null /\ ~reserved_
            BY <2>5 DEF ResetsHead
        <3>1. head_ \in Chain /\ head_ \in Blocks /\ base[head_] + offset[head_] = Committed
            BY <1>4, <2>2, <3>0
        <3>2. /\ offset' = [offset EXCEPT ![head_] = 0]
              /\ base' = [k \in Blocks |-> IF k < head_ THEN base[k] ELSE base[k] + offset[head_]]
            BY <1>0, <2>5
        <3>3. offset[head_] \in Nat /\ base[head_] \in Int
            BY <1>b, <3>1
        <3>4. /\ \A b \in Chain : base'[b] = base[b] + offset[head_] /\ base[b] \in Int
              /\ offset'[head_] = 0 /\ \A b \in Chain : b # head_ => offset'[b] = offset[b]
            <4>1. \A b \in Chain : b \in Blocks /\ ~(b < head_)
                BY <1>4, <1>t
            <4>2. /\ offset'[head_] = 0 /\ \A b \in Blocks : b # head_ => offset'[b] = offset[b]
                BY <1>i, <3>1, <3>2 DEF BufferTypeOK
            <4> QED BY <1>b, <3>2, <4>1, <4>2
        <3>5. BufferTypeOK'
            <4>1. offset' \in [Blocks -> Nat]
                BY <1>i, <3>1, <3>2 DEF BufferTypeOK
            <4>2. \A b \in Blocks : (IF b < head_ THEN base[b] ELSE base[b] + offset[head_]) \in Int
                BY <1>b, <3>3
            <4>3. base' \in [Blocks -> Int]
                BY <3>2, <4>2
            <4> QED BY <1>7, <2>3, <4>1, <4>3
        <3>6. ChainInv'
            <4>1. ASSUME NEW b \in Chain
                  PROVE  /\ offset'[b] < Capacity /\ offset'[b] + len[b] <= Capacity
                         /\ b > head_ => offset'[b] = 0
                         /\ ~(b < head_) /\ len[b] = 0
                <5>1. /\ offset[b] < Capacity
                      /\ b > head_ => offset[b] = 0
                    BY <1>i DEF ChainInv
                <5>2. len[b] = 0 /\ b \in Nat /\ head_ <= b
                    BY <1>4, <2>2, <3>0
                <5>3. offset'[b] \in Nat /\ offset'[b] < Capacity /\ (b > head_ => offset'[b] = 0)
                    <6>1. offset[b] \in Nat
                        BY <1>4, <1>b
                    <6> QED BY <1>t, <3>4, <5>1, <6>1
                <5> QED BY <1>t, <5>2, <5>3
            <4>2. head_ <= tail_ /\ head_ <= head_ + 1 /\ head_ <= head_
                BY <1>i, <1>t DEF ChainInv
            <4> QED BY <1>0, <1>4, <2>1, <4>1, <4>2 DEF ChainInv
        <3>7. base'[head_] = Committed
            BY <3>1, <3>4
        <3>8. PlaceInv'
            <4>1. ASSUME NEW b \in Chain, b < tail_ PROVE base'[b + 1] = base'[b] + Capacity
                <5>1. base[b + 1] = base[b] + Capacity
                    BY <1>i, <4>1 DEF PlaceInv
                <5>2. b + 1 \in Chain
                    BY <1>i, <1>4, <1>t, <4>1, ChainIs
                <5>3. /\ base'[b] = base[b] + offset[head_]
                      /\ base'[b + 1] = base[b + 1] + offset[head_] /\ base[b] \in Int
                    BY <3>4, <5>2
                <5> QED BY <1>t, <3>3, <5>1, <5>3
            <4>2. ASSUME NEW b \in Chain, NEW m \in Chain, b < m PROVE base'[b] + Capacity <= base'[m]
                <5>1. base[b] + Capacity <= base[m]
                    BY <1>i, <4>2 DEF PlaceInv
                <5>2. base'[b] = base[b] + offset[head_] /\ base'[m] = base[m] + offset[head_]
                      /\ base[b] \in Int /\ base[m] \in Int
                    BY <3>4
                <5> QED BY <1>t, <3>3, <5>1, <5>2
            <4>3. /\ base'[head_] + offset'[head_] = Committed
                  /\ base'[head_] + offset'[head_] + len[head_] = Committed
                BY <1>t, <2>2, <3>0, <3>1, <3>4, <3>7
            <4> QED BY <1>0, <1>3, <1>4, <2>1, <4>1, <4>2, <4>3 DEF PlaceInv
        <3>9. CountInv'
            <4>1. base[tail_] + Capacity = base[head_] + block_cnt_ * Capacity
                BY <1>i, <3>0 DEF CountInv
            <4>2. tail_ \in Chain
                BY <1>i, <1>t, <3>0, ChainIs DEF ChainInv
            <4>3. block_cnt_ * Capacity \in Int
                BY <1>i, <1>t, Typed
            <4>4. base'[tail_] = base[tail_] + offset[head_] /\ base[tail_] \in Int
                  /\ base'[head_] = base[head_] + offset[head_]
                BY <3>1, <3>4, <4>2
            <4>5. base'[tail_] + Capacity = base'[head_] + block_cnt_ * Capacity
                <5> DEFINE all == block_cnt_ * Capacity
                <5>1. all \in Int /\ base[tail_] + Capacity = base[head_] + all
                    BY <4>1, <4>3
                <5> HIDE DEF all
                <5>2. base'[tail_] + Capacity = base'[head_] + all
                    <6>1. Capacity \in Nat
                        BY <1>t
                    <6>2. (base[tail_] + offset[head_]) + Capacity = (base[head_] + offset[head_]) + all
                        BY <3>3, <4>4, <5>1, <6>1
                    <6> QED BY <4>4, <6>2
                <5> QED BY <5>2 DEF all
            <4> QED BY <1>0, <3>0, <4>5 DEF CountInv
        <3>10. fill.total = 0 /\ Committed = received
            <4>1. fill.total = 0
                BY <1>i, <3>0 DEF SpaceInv, NoCursor
            <4> QED BY <1>t, <4>1 DEF Committed
        <3>11. MemInv'
            <4>1. SUFFICES ASSUME NEW b \in Chain, NEW j \in Cells, base'[b] + j < received PROVE FALSE
                BY <1>0, <1>4 DEF MemInv
            <4>2. j \in Nat
                BY <1>t DEF Cells
            <4>3. base'[b] \in Int /\ base'[b] >= received
                <5>1. b = head_ \/ base[head_] + Capacity <= base[b]
                    BY <1>i, <1>4, <1>t, <3>1 DEF PlaceInv
                <5>2. base[b] \in Int /\ base'[b] = base[b] + offset[head_]
                    BY <3>4
                <5> QED BY <1>t, <3>1, <3>3, <3>10, <5>1, <5>2
            <4> QED BY <1>t, <4>1, <4>2, <4>3
        <3>12. SpaceInv'
            BY <1>i, <1>0, <1>2, <3>0 DEF SpaceInv, NoCursor
        <3> QED BY <1>5, <1>6, <3>5, <3>6, <3>8, <3>9, <3>11, <3>12 DEF BufferInv
    <2> QED BY <2>4, <2>5
<1> QED BY <1>8, <1>9

(* The buffer starts empty.                                                *)
LEMMA BufferStarts ==
    ASSUME BufferInit
    PROVE  BufferInv
<1>1. BufferTypeOK
    <2>1. received \in 0..Len(Stream) /\ wire \in Seq(Bytes)
        BY TrafficAssumption DEF BufferInit
    <2>2. /\ offset \in [Blocks -> Nat] /\ len \in [Blocks -> Nat] /\ base \in [Blocks -> Int]
          /\ mem \in [Blocks -> [Cells -> Bytes \cup {Unset}]]
          /\ space \in [Blocks -> [from : Nat, size : Nat]]
          /\ view \in [Blocks -> [from : Nat, size : Nat]]
        BY DEF BufferInit, NoBuffer
    <2>3. /\ fill \in [block : 0..MaxBlocks, n : Nat, total : Nat]
          /\ take \in [block : 0..MaxBlocks, n : Nat, total : Nat]
          /\ call \in [op : {"none", "reserve", "commit", "drain"}, size : Nat, rem : Nat,
                       block : 0..MaxBlocks, exact : BOOLEAN]
        BY CapacityNat DEF BufferInit, NoCursor, NoCall
    <2>4. head_ \in 0..MaxBlocks /\ end_ \in 0..MaxBlocks /\ tail_ \in 0..MaxBlocks
        BY CapacityNat DEF BufferInit
    <2>5. block_cnt_ \in Int /\ data_size_ \in Int
        BY DEF BufferInit
    <2>6. reserved_ \in BOOLEAN /\ peeked_ \in BOOLEAN
        BY Zenon DEF BufferInit
    <2> QED BY <2>1, <2>2, <2>3, <2>4, <2>5, <2>6 DEF BufferTypeOK
<1>2. /\ head_ = 0 /\ end_ = 0 /\ tail_ = 0 /\ block_cnt_ = 0 /\ data_size_ = 0
      /\ call.op = "none" /\ call.block = Null /\ fill = NoCursor /\ take = NoCursor
      /\ fill.total = 0 /\ take.total = 0 /\ received = 0 /\ Len(wire) = 0 /\ Chain = {}
      /\ fill.block = Null /\ take.block = Null
      /\ ~reserved_ /\ ~peeked_
      /\ \A k \in Blocks : space[k].size = 0 /\ view[k].size = 0
    BY DEF BufferInit, NoCall, NoCursor, NoBuffer, Chain, InChain
<1>3. Committed = 0 /\ Drained = 0 /\ CommittedNow = 0 /\ DrainedNow = 0
    BY <1>2 DEF Committed, Drained, CommittedNow, DrainedNow
<1>4. ChainInv /\ PlaceInv /\ CountInv /\ SizeInv /\ MemInv
    BY <1>2, <1>3 DEF ChainInv, PlaceInv, CountInv, SizeInv, MemInv
<1>5. SpaceInv /\ CallInv /\ ReserveInv /\ CommitInv /\ ViewInv /\ DrainInv
    BY <1>2 DEF SpaceInv, CallInv, ReserveInv, CommitInv, ViewInv, DrainInv
<1> QED BY <1>1, <1>4, <1>5 DEF BufferInv

(* A turn of Reserve or Commit finds a block with space.                   *)
LEMMA SpaceToUse ==
    ASSUME BufferInv, call.op \in {"reserve", "commit"}, call.block # Null, call.rem > 0
    PROVE  SpaceLen(call.block) > 0
<1>i. BufferTypeOK /\ ChainInv /\ PlaceInv /\ SpaceInv /\ CallInv /\ ReserveInv /\ CommitInv
    BY DEF BufferInv
<1>t. /\ Capacity \in Nat /\ Capacity > 0 /\ offset[call.block] \in Nat
      /\ len[call.block] \in Nat
      /\ head_ \in Nat /\ end_ \in Nat /\ call.block \in Nat /\ fill.block \in Nat
    BY <1>i, Typed, Cursors, CapacityNat
<1>1. offset[call.block] + len[call.block] < Capacity
    <2>1. CASE call.op = "commit"
        BY <1>i, <2>1 DEF CommitInv
    <2>2. CASE call.op = "reserve" /\ fill.block = Null
        <3>1. call.block = SpaceStepper
            BY <1>i, <2>2 DEF ReserveInv
        <3> QED BY <1>i, <2>2, <3>1, StepperPlace
    <2>3. CASE call.op = "reserve" /\ fill.block # Null
        <3>1. call.block \in Chain /\ end_ <= call.block - 1
            BY <1>i, <2>3 DEF CallInv, ReserveInv
        <3>2. head_ <= end_
            BY <1>i, <2>3 DEF ChainInv
        <3>3. offset[call.block] = 0 /\ len[call.block] = 0
            BY <1>i, <1>t, <3>1, <3>2 DEF ChainInv
        <3> QED BY <1>t, <3>3
    <2> QED BY <2>1, <2>2, <2>3
<1> QED BY <1>t, <1>1 DEF SpaceLen

(* The reserved space is behind the data.                                  *)
LEMMA ReservedBeyond ==
    ASSUME BufferInv, NEW k \in Blocks, space[k].size > 0, call.op # "commit"
    PROVE  space[k].from >= offset[k] + len[k]
<1>i. BufferTypeOK /\ ChainInv /\ PlaceInv /\ SpaceInv
    BY DEF BufferInv
<1>t. /\ Capacity \in Nat /\ offset[k] \in Nat /\ len[k] \in Nat /\ base[k] \in Int /\ k \in Nat
      /\ space[k].from \in Nat /\ space[k].size \in Nat
      /\ head_ \in Nat /\ end_ \in Nat /\ tail_ \in Nat /\ Committed \in Int
    BY <1>i, Typed, CapacityNat
<1>1. /\ k \in Chain /\ space[k].from + space[k].size <= Capacity
      /\ base[k] + space[k].from >= Committed
    BY <1>i DEF SpaceInv
<1>2. CommittedNow = Committed
    BY <1>t DEF CommittedNow
<1>3. /\ head_ # Null /\ head_ <= k /\ k <= tail_ /\ end_ # Null /\ end_ <= tail_
      /\ head_ <= end_ + 1
    BY <1>i, <1>1 DEF Chain, InChain, ChainInv
<1>4. CASE head_ = end_ + 1
    <2>1. DrainedNow = Committed
        BY <1>i, <1>2, <1>4 DEF PlaceInv
    <2>2. len[k] = 0 /\ (k > head_ => offset[k] = 0)
        BY <1>i, <1>1, <1>3, <1>4, <1>t DEF ChainInv
    <2>3. CASE k = head_
        <3>1. base[k] + offset[k] = Committed
            BY <1>i, <1>3, <2>1, <2>3 DEF PlaceInv
        <3> QED BY <1>1, <1>t, <2>2, <3>1
    <2>4. CASE k > head_
        BY <1>t, <2>2, <2>4
    <2> QED BY <1>3, <1>t, <2>3, <2>4
<1>5. CASE head_ <= end_
    <2>1. end_ \in Chain
        BY <1>i, <1>3, <1>5, <1>t, ChainIs
    <2>2. base[end_] + offset[end_] + len[end_] = Committed
        BY <1>i, <1>2, <2>1 DEF PlaceInv
    <2>3. CASE k = end_
        BY <1>1, <1>t, <2>2, <2>3
    <2>4. CASE k > end_
        BY <1>i, <1>1, <1>5, <1>t, <2>4 DEF ChainInv
    <2>5. CASE k < end_
        <3>1. base[k] + Capacity <= base[end_]
            BY <1>i, <1>1, <2>1, <2>5 DEF PlaceInv
        <3>2. base[end_] \in Int /\ offset[end_] \in Nat /\ len[end_] \in Nat
            BY <1>i, <2>1, Typed DEF Chain
        <3>3. base[end_] <= Committed
            BY <1>t, <2>2, <3>2
        <3>4. base[k] + space[k].from < base[k] + Capacity
            BY <1>1, <1>t
        <3> QED BY <1>1, <1>t, <3>1, <3>2, <3>3, <3>4
    <2> QED BY <1>t, <2>3, <2>4, <2>5
<1> QED BY <1>3, <1>4, <1>5, <1>t

(* space_size is the distance from the data to the end of the chain.       *)
LEMMA SpaceSize ==
    ASSUME BufferInv, call.op = "none", reserved_
    PROVE  head_ # Null /\ space_size >= fill.total
<1>i. BufferTypeOK /\ ChainInv /\ PlaceInv /\ CountInv /\ SizeInv /\ SpaceInv
    BY DEF BufferInv
<1>1. /\ fill.block # Null /\ fill.block \in Blocks /\ fill.block \in Chain
      /\ fill.n <= space[fill.block].size
      /\ space[fill.block].from + space[fill.block].size <= Capacity
      /\ base[fill.block] + space[fill.block].from + fill.n = received
    <2>1. fill.block # Null /\ fill.block \in Blocks
        BY <1>i, Cursors DEF SpaceInv
    <2> QED BY <1>i, <2>1 DEF SpaceInv
<1>2. head_ # Null /\ head_ <= fill.block /\ fill.block <= tail_
    BY <1>1 DEF Chain, InChain
<1>t. /\ Capacity \in Nat /\ received \in Nat /\ Committed \in Int /\ Drained \in Int
      /\ fill.total \in Nat /\ fill.n \in Nat /\ fill.block \in Nat /\ data_size_ \in Int
      /\ block_cnt_ \in Int
      /\ head_ \in Nat /\ tail_ \in Nat
      /\ base[fill.block] \in Int /\ space[fill.block].from \in Nat
      /\ space[fill.block].size \in Nat
    BY <1>i, <1>1, Typed, Cursors, CapacityNat
<1>3. head_ \in Chain /\ tail_ \in Chain
    BY <1>i, <1>2, <1>t, ChainIs
<1>u. base[head_] \in Int /\ offset[head_] \in Nat /\ base[tail_] \in Int
    BY <1>i, <1>3, Typed DEF Chain
<1>4. /\ base[head_] + offset[head_] = Drained /\ data_size_ = Committed - Drained
      /\ base[tail_] + Capacity = base[head_] + block_cnt_ * Capacity
      /\ space_size = block_cnt_ * Capacity - data_size_ - offset[head_]
    <2>1. DrainedNow = Drained
        BY <1>t DEF DrainedNow
    <2> QED BY <1>i, <1>2, <2>1 DEF PlaceInv, CountInv, SizeInv, space_size
<1>5. space_size = base[tail_] + Capacity - Committed
    <2> DEFINE all == block_cnt_ * Capacity
    <2>1. /\ all \in Int /\ base[tail_] + Capacity = base[head_] + all
          /\ space_size = all - data_size_ - offset[head_]
        BY <1>4, <1>t
    <2> HIDE DEF all
    <2>2. Capacity \in Nat /\ Committed \in Int /\ Drained \in Int
        BY <1>t
    <2>3. /\ base[head_] + offset[head_] = Drained
          /\ space_size = all - (Committed - Drained) - offset[head_]
        BY <1>4, <2>1
    <2>4. space_size = all + base[head_] - Committed
        BY <1>u, <2>1, <2>2, <2>3
    <2> QED BY <1>u, <2>1, <2>2, <2>4
<1>6. received <= base[tail_] + Capacity
    <2>1. received <= base[fill.block] + Capacity
        BY <1>1, <1>t
    <2>2. fill.block = tail_ \/ base[fill.block] + Capacity <= base[tail_]
        BY <1>i, <1>1, <1>2, <1>3, <1>t DEF PlaceInv
    <2> QED BY <1>t, <1>u, <2>1, <2>2
<1>7. Committed = received - fill.total
    BY DEF Committed
<1> QED BY <1>2, <1>5, <1>6, <1>7, <1>t, <1>u

(* The invariant implies the safety properties.                            *)
LEMMA BufferSafe ==
    ASSUME BufferInv
    PROVE  BuffersStay /\ AssertsHold /\ LoopsAdvance
<1>i. BufferTypeOK /\ ChainInv /\ SizeInv /\ SpaceInv /\ CallInv /\ CommitInv /\ ViewInv
    BY DEF BufferInv
<1>t. head_ \in Nat /\ end_ \in Nat /\ tail_ \in Nat
    BY <1>i, Typed
<1>1. \A k \in Chain : InChain(k)
    BY DEF Chain
<1>2. BuffersStay
    <2>1. SUFFICES ASSUME NEW k \in Blocks
                   PROVE  /\ space[k].size > 0 =>
                               InChain(k) /\ (call.op # "commit" => space[k].from >= offset[k] + len[k])
                          /\ view[k].size > 0 /\ call.op # "drain" =>
                               /\ InChain(k)
                               /\ offset[k] <= view[k].from
                               /\ view[k].from + view[k].size <= offset[k] + len[k]
                          /\ k \in {end_, call.block} /\ call.op # "drain" => InChain(k)
        BY DEF BuffersStay
    <2>2. space[k].size > 0 => InChain(k) /\ (call.op # "commit" => space[k].from >= offset[k] + len[k])
        BY <1>i, <1>1, ReservedBeyond DEF SpaceInv
    <2>3. ASSUME view[k].size > 0, call.op # "drain"
          PROVE  /\ InChain(k) /\ offset[k] <= view[k].from
                 /\ view[k].from + view[k].size <= offset[k] + len[k]
        <3>1. k \in Chain /\ view[k].from = offset[k] /\ view[k].size <= len[k]
            BY <1>i, <2>3 DEF ViewInv
        <3>2. offset[k] \in Nat /\ len[k] \in Nat /\ view[k].size \in Nat
            BY <1>i, Typed
        <3> QED BY <1>1, <3>1, <3>2
    <2>4. k # Null
        BY BlocksAre
    <2>5. ASSUME k = end_, call.op # "drain" PROVE InChain(k)
        BY <1>i, <1>t, <2>4, <2>5 DEF ChainInv, InChain
    <2>6. ASSUME k = call.block, call.op # "drain" PROVE InChain(k)
        BY <1>i, <1>1, <2>4, <2>6 DEF CallInv
    <2> QED BY <2>2, <2>3, <2>5, <2>6
<1>3. AssertsHold
    BY <1>i, SpaceSize DEF AssertsHold, SizeInv
<1>4. LoopsAdvance
    <2>1. call.op = "commit" /\ call.rem > 0 => call.block # Null
        BY <1>i, BlocksAre DEF CommitInv, Chain
    <2> QED BY <2>1, SpaceToUse, DataIsThere DEF LoopsAdvance
<1> QED BY <1>2, <1>3, <1>4

(* Every step of the buffer keeps the invariant.                           *)
LEMMA BufferKeeps ==
    ASSUME BufferInv, [BufferNext]_bufferVars
    PROVE  BufferInv'
<1>1. CASE UNCHANGED bufferVars
    <2>1. UNCHANGED <<head_, end_, tail_, block_cnt_, offset, len, data_size_, reserved_, peeked_, mem,
                      call, space, fill, view, take, received, wire, base>>
        BY <1>1 DEF bufferVars, chainVars, ioVars
    <2>2. /\ Chain' = Chain /\ Committed' = Committed /\ Drained' = Drained
          /\ CommittedNow' = CommittedNow /\ DrainedNow' = DrainedNow
          /\ SpaceStepper' = SpaceStepper
        BY <2>1
           DEF Chain, InChain, Committed, Drained, CommittedNow, DrainedNow, SpaceStepper,
               SpaceLen, next
    <2>3. BufferTypeOK'
        BY <2>1 DEF BufferInv, BufferTypeOK
    <2>4. ChainInv' /\ PlaceInv' /\ CountInv'
        BY <2>1, <2>2 DEF BufferInv, ChainInv, PlaceInv, CountInv
    <2>5. SizeInv' /\ MemInv' /\ CallInv' /\ DrainInv'
        BY <2>1, <2>2 DEF BufferInv, SizeInv, MemInv, CallInv, DrainInv
    <2>6. SpaceInv' /\ ViewInv'
        BY <2>1, <2>2 DEF BufferInv, SpaceInv, ViewInv, Contiguous
    <2>7. ReserveInv' /\ CommitInv'
        BY <2>1, <2>2 DEF BufferInv, ReserveInv, CommitInv
    <2> QED BY <2>3, <2>4, <2>5, <2>6, <2>7 DEF BufferInv
<1>2. CASE \E size \in ReserveSizes, exact \in BOOLEAN : Reserve(size, exact)
    BY <1>2, ReserveKeeps
<1>3. CASE AppendNewBlock
    BY <1>3, AppendKeeps
<1>4. CASE ReserveStep
    BY <1>4, ReserveStepKeeps
<1>5. CASE ReadByte
    BY <1>5, ReadByteKeeps
<1>6. CASE CommitCall
    BY <1>6, CommitCallKeeps
<1>7. CASE CommitStep
    BY <1>7, CommitStepKeeps
<1>8. CASE CommitReturns
    BY <1>8, CommitReturnsKeeps
<1>9. CASE Peek
    BY <1>9, PeekKeeps
<1>10. CASE WriteByte
    BY <1>10, WriteByteKeeps
<1>11. CASE DrainCall
    BY <1>11, DrainCallKeeps
<1>12. CASE DrainStep
    BY <1>12, DrainStepKeeps
<1>13. CASE DrainReturns
    BY <1>13, DrainReturnsKeeps
<1> QED
    BY <1>1, <1>2, <1>3, <1>4, <1>5, <1>6, <1>7, <1>8, <1>9, <1>10, <1>11, <1>12, <1>13
       DEF BufferNext

(* For every capacity, every stream and however reads, writes and the      *)
(* loops of the operations interleave, the cells of the chain stay in      *)
(* their places in the stream (buffer.h).                                  *)
THEOREM BufferInvariant == BufferSpec => []BufferInv
  BY BufferStarts, BufferKeeps, PTL DEF BufferSpec

(* The kernel never reads into a block that Drain has given back or over   *)
(* data, and never writes from one; end_ and the block of a loop are in    *)
(* the chain.                                                              *)
THEOREM BuffersAreKept == BufferSpec => []BuffersStay
  BY BufferInvariant, BufferSafe, PTL

(* The assertions of Commit and Drain hold for what the kernel has read    *)
(* and written.                                                            *)
THEOREM AssertionsHold == BufferSpec => []AssertsHold
  BY BufferInvariant, BufferSafe, PTL

(* Every turn of the loops of Reserve, Commit and Drain finds a block to   *)
(* work on.                                                                *)
THEOREM EveryTurnAdvances == BufferSpec => []LoopsAdvance
  BY BufferInvariant, BufferSafe, PTL

(* Reserve, Commit, Peek and Drain are safe, for any block size, stream    *)
(* and sizes asked for, and however reads and writes overlap.              *)
THEOREM OperationsSafe == BufferSpec => []OperationsAreSafe
  BY BuffersAreKept, AssertionsHold, EveryTurnAdvances, PTL DEF OperationsAreSafe

(* An empty buffer is an empty queue.                                      *)
LEMMA QueueStarts ==
    ASSUME BufferInit
    PROVE  Queue!QueueInit
  BY DEF BufferInit, Queue!QueueInit, NoCursor

(* Reading is Receive, the return of Commit is Commit, writing is Send,    *)
(* the return of Drain is Drain; all other steps of the buffer leave the   *)
(* queue as it is.                                                         *)
LEMMA QueueSteps ==
    ASSUME BufferInv, [BufferNext]_bufferVars
    PROVE  [Queue!QueueNext]_(Queue!queueVars)
<1> USE DEF Queue!queueVars
<1>i. BufferTypeOK /\ SizeInv /\ CommitInv /\ ViewInv /\ DrainInv
    BY DEF BufferInv
<1>t. /\ received \in Nat /\ Len(wire) \in Nat /\ data_size_ \in Int /\ fill.total \in Nat
      /\ take.total \in Nat
    BY <1>i, Typed, Cursors
<1>1. CASE \/ UNCHANGED bufferVars
           \/ \E size \in ReserveSizes, exact \in BOOLEAN : Reserve(size, exact)
           \/ AppendNewBlock \/ ReserveStep \/ CommitCall \/ CommitStep \/ DrainCall \/ DrainStep
    <2>1. UNCHANGED <<received, wire, data_size_, take>>
        BY <1>1
           DEF bufferVars, ioVars, Reserve, AppendNewBlock, ReserveStep, CommitCall, CommitStep,
                    DrainCall, DrainStep
    <2> QED BY <2>1
<1>2. CASE Peek
    <2>1. take.total = 0 /\ take'.total = 0
        BY <1>i, <1>2 DEF Peek, ViewInv, NoCursor
    <2> QED BY <1>2, <2>1 DEF Peek
<1>3. CASE ReadByte
    BY <1>3 DEF ReadByte, Queue!QueueNext, Queue!Receive
<1>4. CASE CommitReturns
    <2>1. data_size_' = data_size_ + fill.total /\ UNCHANGED <<received, wire, take>>
        BY <1>i, <1>4 DEF CommitReturns, CommitInv
    <2>2. data_size_ = (received - fill.total) - (Len(wire) - take.total)
        BY <1>i DEF SizeInv, Committed, Drained
    <2>3. data_size_' = received - (Len(wire) - take.total)
        BY <1>t, <2>1, <2>2
    <2> QED BY <2>1, <2>3 DEF Queue!QueueNext, Queue!Commit
<1>5. CASE WriteByte
    <2> DEFINE at == Cursor(view, take)
    <2>1. /\ wire' = Append(wire, mem[at.block][view[at.block].from + at.n])
          /\ take' = Advance(at) /\ call.op # "drain" /\ take.block # Null /\ InBuffer(view, at)
          /\ UNCHANGED <<received, data_size_>>
        BY <1>5 DEF WriteByte
    <2>2. /\ at \in [block : 0..MaxBlocks, n : Nat, total : Nat]
          /\ at.total = take.total /\ Len(wire) < Committed
          /\ mem[at.block][view[at.block].from + at.n] = Stream[Len(wire) + 1]
        BY <2>1, TakePlace
    <2> HIDE DEF at
    <2>3. take'.total = take.total + 1
        BY <2>1, <2>2 DEF Advance
    <2>4. take.total < data_size_
        <3>1. data_size_ = Committed - (Len(wire) - take.total) /\ Committed \in Int
            BY <1>i, Typed DEF SizeInv, Drained
        <3> QED BY <1>t, <2>2, <3>1
    <2> QED BY <2>1, <2>2, <2>3, <2>4 DEF Queue!QueueNext, Queue!Send
<1>6. CASE DrainReturns
    <2>1. /\ data_size_' = data_size_ - take.total /\ take'.total = 0
          /\ UNCHANGED <<received, wire>>
        BY <1>i, <1>6 DEF DrainReturns, DrainInv, NoCursor
    <2> QED BY <2>1 DEF Queue!QueueNext, Queue!Drain
<1> QED BY <1>1, <1>2, <1>3, <1>4, <1>5, <1>6 DEF BufferNext

(* The chain of blocks implements the queue that the bridge takes it to    *)
(* be: the sink is sent the bytes of the source, each once and in order.   *)
THEOREM BufferIsQueue == BufferSpec => ImplementsQueue
  BY BufferInvariant, QueueStarts, QueueSteps, PTL
     DEF BufferSpec, ImplementsQueue, Queue!QueueSpec

=============================================================================
