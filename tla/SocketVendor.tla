---------------------------- MODULE SocketVendor ----------------------------
(***************************************************************************)
(* The socket vendor: the daemon through which an application in the       *)
(* enclave listens on a port of the host (socket_vendor_server.cc,         *)
(* client_session_pool.cc), and the application's calls as preload.cc      *)
(* turns them into requests.                                               *)
(*                                                                         *)
(* For each listening socket the vendor keeps a pool of connections to the *)
(* proxy, each of which has asked the proxy to accept one inbound          *)
(* connection.  When one arrives, its file descriptor is handed to the     *)
(* application and the slot is filled again.  A fixed number of threads    *)
(* run the vendor's handlers; the handlers of different slots run          *)
(* concurrently, each checks stop_ first and acts later, and setting up a  *)
(* pool (Start) blocks its thread.  Nothing protects the vector pool_: the *)
(* handler that makes it grow first looks at its size, after it has        *)
(* already started the next operation of its own slot.                     *)
(***************************************************************************)
EXTENDS Integers, FiniteSets

CONSTANTS Sockets,          \* the sockets an application binds
          Threads,          \* how many threads run the io_context
          Backlogs,         \* what the application passes to listen
          kMaxConnections,  \* the most slots of a pool
          MaxFailures       \* bound: how many operations fail without being cancelled

ASSUME VendorAssumption ==
    /\ Threads \in Nat \ {0}
    /\ Backlogs \subseteq Int
    /\ kMaxConnections \in Nat /\ kMaxConnections >= 2
    /\ MaxFailures \in Nat

Indices == 0..(kMaxConnections - 1)

VARIABLES
    app,       \* app[s]: what the application has done with socket s
    session,   \* session[s]: how far Start has come for it, in the vendor
    size,      \* size[s]: pool_size_, and the size of buffers_
    grown,     \* grown[s]: pool_.size()
    stop,      \* the sockets whose pool has stop_ set
    torn,      \* torn[s]: whether the closure of Stop is "none", "queued" or "done"
    op,        \* op[s][i]: the operation slot i is in
    at,        \* at[s][i]: "pending", "done" (handler not yet run) or "acting"
    ok,        \* ok[s][i]: whether the operation succeeded
    open,      \* open[s]: the slots whose socket is open
    checking,  \* checking[s][i]: handlers of slot i about to look at pool_.size()
    growing,   \* growing[s]: slots with a handler that found pool_ to be short
    raced,     \* the pools that two handlers make grow at once
    failures

appVars == <<app>>
startVars == <<session, size>>
stopVars == <<stop, torn>>
slotVars == <<op, at, ok, open>>
growVars == <<grown, checking, growing, raced>>
vars == <<appVars, startVars, stopVars, slotVars, growVars, failures>>

AppStates == {"new", "binding", "bound", "listening", "accepting", "closed", "failed"}
SessionStates == {"none", "queued", "start", "bound", "pool", "ended"}
SlotOps == {"absent", "connect", "resp1", "resp2", "sendFd", "ended"}

TypeOK ==
    /\ app \in [Sockets -> AppStates]
    /\ session \in [Sockets -> SessionStates]
    /\ size \in [Sockets -> 0..kMaxConnections]
    /\ grown \in [Sockets -> Nat]
    /\ stop \subseteq Sockets
    /\ torn \in [Sockets -> {"none", "queued", "done"}]
    /\ op \in [Sockets -> [Indices -> SlotOps]]
    /\ at \in [Sockets -> [Indices -> {"pending", "done", "acting"}]]
    /\ ok \in [Sockets -> [Indices -> BOOLEAN]]
    /\ open \in [Sockets -> SUBSET Indices]
    /\ checking \in [Sockets -> [Indices -> Nat]]
    /\ growing \in [Sockets -> SUBSET Indices]
    /\ raced \subseteq Sockets
    /\ failures \in 0..MaxFailures

Init ==
    /\ app = [s \in Sockets |-> "new"]
    /\ session = [s \in Sockets |-> "none"]
    /\ size = [s \in Sockets |-> 0]
    /\ grown = [s \in Sockets |-> 0]
    /\ stop = {}
    /\ torn = [s \in Sockets |-> "none"]
    /\ op = [s \in Sockets |-> [i \in Indices |-> "absent"]]
    /\ at = [s \in Sockets |-> [i \in Indices |-> "pending"]]
    /\ ok = [s \in Sockets |-> [i \in Indices |-> TRUE]]
    /\ open = [s \in Sockets |-> {}]
    /\ checking = [s \in Sockets |-> [i \in Indices |-> 0]]
    /\ growing = [s \in Sockets |-> {}]
    /\ raced = {}
    /\ failures = 0

(* The threads: Start holds one from the accept to the ListenRequest, a    *)
(* handler of a slot while it acts, and while it sees to the next slot.    *)
Starting == {s \in Sockets : session[s] \in {"start", "bound"}}
Acting == {x \in (Sockets \ raced) \X Indices : at[x[1]][x[2]] = "acting"}
Checking ==
    {x \in (Sockets \ raced) \X Indices \X (1..Threads) : x[3] <= checking[x[1]][x[2]]}
Growing == {x \in (Sockets \ raced) \X Indices : x[2] \in growing[x[1]]}
ThreadIsFree ==
    Cardinality(Starting)
      + Cardinality(Acting) + Cardinality(Checking) + Cardinality(Growing) < Threads

----------------------------------------------------------------------------
(* The application: one thread that makes its calls one after another, as  *)
(* preload.cc implements them.                                             *)

Calling == \E s \in Sockets : app[s] \in {"binding", "listening"}

bind(s) ==
    /\ ~Calling
    /\ app[s] = "new"
    /\ app' = [app EXCEPT ![s] = "binding"]
    /\ session' = [session EXCEPT ![s] = "queued"]
    /\ UNCHANGED <<size, stopVars, slotVars, growVars, failures>>

listen(s) ==
    /\ ~Calling
    /\ app[s] = "bound"
    /\ app' = [app EXCEPT ![s] = "listening"]
    /\ UNCHANGED <<startVars, stopVars, slotVars, growVars, failures>>

AppCloses(s) ==
    /\ ~Calling
    /\ app[s] \in {"bound", "accepting"}
    /\ app' = [app EXCEPT ![s] = "closed"]
    /\ UNCHANGED <<startVars, stopVars, slotVars, growVars, failures>>

----------------------------------------------------------------------------
(* Setting up a pool.                                                      *)

(* The handler of async_accept: accepts the next connection as well, and   *)
(* calls Start, which reads the BindRequest.                               *)
StartAsyncAccept(s) ==
    /\ session[s] = "queued"
    /\ ThreadIsFree
    /\ session' = [session EXCEPT ![s] = "start"]
    /\ UNCHANGED <<appVars, size, stopVars, slotVars, growVars, failures>>

(* Start up to the BindResponse: the first connection to the proxy binds   *)
(* the port.                                                               *)
StartBinds(s) ==
    /\ session[s] = "start"
    /\ app' = [app EXCEPT ![s] = "bound"]
    /\ session' = [session EXCEPT ![s] = "bound"]
    /\ UNCHANGED <<size, stopVars, slotVars, growVars, failures>>

(* The proxy is not there or cannot bind the port: Start returns false,    *)
(* Stop closes the application's socket, and bind returns -1.              *)
StartFails(s) ==
    /\ session[s] = "start"
    /\ app' = [app EXCEPT ![s] = "failed"]
    /\ session' = [session EXCEPT ![s] = "ended"]
    /\ UNCHANGED <<size, stopVars, slotVars, growVars, failures>>

(* The rest of Start, once there is a ListenRequest to read: it is         *)
(* answered, and the first two slots are started, whatever the size.       *)
StartListens(s, backlog) ==
    /\ session[s] = "bound"
    /\ app[s] = "listening"
    /\ app' = [app EXCEPT ![s] = "accepting"]
    /\ \/ /\ backlog < 0
          /\ session' = [session EXCEPT ![s] = "ended"]
          /\ UNCHANGED <<size, grown, op, open>>
       \/ /\ backlog >= 0
          /\ session' = [session EXCEPT ![s] = "pool"]
          /\ size' = [size EXCEPT ![s] = IF backlog > kMaxConnections THEN kMaxConnections ELSE backlog]
          /\ grown' = [grown EXCEPT ![s] = 2]
          /\ op' = [op EXCEPT ![s][0] = "resp2", ![s][1] = "connect"]
          /\ open' = [open EXCEPT ![s] = {0, 1}]
    /\ UNCHANGED <<stopVars, at, ok, checking, growing, raced, failures>>

(* The application closed the socket instead.                              *)
StartLosesClient(s) ==
    /\ session[s] = "bound"
    /\ app[s] = "closed"
    /\ session' = [session EXCEPT ![s] = "ended"]
    /\ UNCHANGED <<appVars, size, stopVars, slotVars, growVars, failures>>

----------------------------------------------------------------------------
(* The operations of the slots.                                            *)

(* Once two handlers are past their look at pool_.size(), both construct a *)
(* socket in the vector, both connect the one after their slot, and what   *)
(* the pool does is undefined: its slots are not followed any further.     *)
Followed(s) == s \notin raced

(* The result of an operation: one on a closed socket fails, one on an     *)
(* open socket may fail, and the second response comes when the proxy has  *)
(* accepted an inbound connection.  The wait before a descriptor is sent   *)
(* is on the application's socket.  A slot beyond buffers_ (the first two, *)
(* for a backlog of 0 or 1) reads to memory it does not own: that may fail *)
(* (there is none) or succeed, every time.                                 *)
SocketOpen(s, i) == IF op[s][i] = "sendFd" THEN torn[s] # "done" ELSE i \in open[s]

Completes(s, i, res) ==
    /\ Followed(s)
    /\ op[s][i] \in {"connect", "resp1", "resp2", "sendFd"}
    /\ at[s][i] = "pending"
    /\ at' = [at EXCEPT ![s][i] = "done"]
    /\ ok' = [ok EXCEPT ![s][i] = res]
    /\ UNCHANGED <<appVars, startVars, stopVars, op, open, growVars>>

Succeeds(s, i) == SocketOpen(s, i) /\ Completes(s, i, TRUE) /\ UNCHANGED failures

Fails(s, i) ==
    \/ /\ ~SocketOpen(s, i) \/ (op[s][i] \in {"resp1", "resp2"} /\ i >= size[s])
       /\ Completes(s, i, FALSE)
       /\ UNCHANGED failures
    \/ /\ SocketOpen(s, i)
       /\ failures < MaxFailures
       /\ failures' = failures + 1
       /\ Completes(s, i, FALSE)

(* The handlers of what uses the application's socket share a strand.      *)
StrandIsFree(s) == \A i \in Indices : ~(op[s][i] = "sendFd" /\ at[s][i] = "acting")

(* The slot starts its next operation, or ends.                            *)
Goes(s, i, next) ==
    /\ op' = [op EXCEPT ![s][i] = next]
    /\ at' = [at EXCEPT ![s][i] = "pending"]
    /\ ok' = [ok EXCEPT ![s][i] = TRUE]

StopCheck_SkippedOnConnect(s, i) ==        \* mutant: HandleConnect does not look at stop_
    IF s \in stop /\ op[s][i] # "connect"
    THEN Goes(s, i, "ended")
    ELSE at' = [at EXCEPT ![s][i] = "acting"] /\ UNCHANGED <<op, ok>>

(* Every handler of a slot returns at once if stop_ is set.                *)
StopCheck(s, i) ==
    IF s \in stop
    THEN Goes(s, i, "ended")
    ELSE at' = [at EXCEPT ![s][i] = "acting"] /\ UNCHANGED <<op, ok>>

HandlerBegins(s, i) ==
    /\ Followed(s)
    /\ op[s][i] \in {"connect", "resp1", "resp2", "sendFd"}
    /\ at[s][i] = "done"
    /\ ThreadIsFree
    /\ op[s][i] = "sendFd" => StrandIsFree(s)
    /\ StopCheck(s, i)
    /\ UNCHANGED <<appVars, startVars, stopVars, open, growVars, failures>>

InitiateSocket(s, i) ==
    /\ Goes(s, i, "connect")
    /\ open' = [open EXCEPT ![s] = @ \cup {i}]

Acts(s, i, o) == Followed(s) /\ op[s][i] = o /\ at[s][i] = "acting"

HandleConnect(s, i) ==
    /\ Acts(s, i, "connect")
    /\ \/ ok[s][i] /\ i \in open[s] /\ Goes(s, i, "resp1") /\ UNCHANGED open
       \/ ~(ok[s][i] /\ i \in open[s]) /\ InitiateSocket(s, i)
    /\ UNCHANGED <<appVars, startVars, stopVars, growVars, failures>>

(* The wait for the second response is started first: its handler, and     *)
(* those after it up to the next Handle1stResp of this very slot, may run  *)
(* on other threads before this one has gone on.                           *)
Handle1stResp(s, i) ==
    /\ Acts(s, i, "resp1")
    /\ \/ /\ ok[s][i]
          /\ Goes(s, i, "resp2")
          /\ checking' = [checking EXCEPT ![s][i] = @ + 1]
          /\ UNCHANGED open
       \/ ~ok[s][i] /\ InitiateSocket(s, i) /\ UNCHANGED checking
    /\ UNCHANGED <<appVars, startVars, stopVars, grown, growing, raced, failures>>

PoolIsShort_Never(s, i) == FALSE                            \* mutant: the pool stays as it is
PoolIsShort_OneMore(s, i) == i = grown[s] - 1 /\ grown[s] <= size[s]  \* mutant: <= for <

(* "If this is the last socket in the pool, and the pool is not hydrated   *)
(* yet".                                                                   *)
PoolIsShort(s, i) == i = grown[s] - 1 /\ grown[s] < size[s]

(* The look at pool_.size(), and whether another handler of the slot found *)
(* the pool short before and has not made it grow yet.                     *)
Hydrates(s, i) ==
    /\ Followed(s)
    /\ checking[s][i] > 0
    /\ checking' = [checking EXCEPT ![s][i] = @ - 1]
    /\ growing' = IF PoolIsShort(s, i) THEN [growing EXCEPT ![s] = @ \cup {i}] ELSE growing
    /\ raced' = IF PoolIsShort(s, i) /\ i \in growing[s] THEN raced \cup {s} ELSE raced
    /\ UNCHANGED <<appVars, startVars, stopVars, slotVars, grown, failures>>

(* The next slot is made, and connects.                                    *)
EmplacesNext(s, i) ==
    /\ Followed(s)
    /\ i \in growing[s]
    /\ growing' = [growing EXCEPT ![s] = @ \ {i}]
    /\ grown' = [grown EXCEPT ![s] = @ + 1]
    /\ op' = [op EXCEPT ![s][i + 1] = "connect"]
    /\ open' = [open EXCEPT ![s] = @ \cup {i + 1}]
    /\ UNCHANGED <<appVars, startVars, stopVars, at, ok, checking, raced, failures>>

Handle2ndResp(s, i) ==
    /\ Acts(s, i, "resp2")
    /\ \/ ok[s][i] /\ Goes(s, i, "sendFd") /\ UNCHANGED open
       \/ ~ok[s][i] /\ InitiateSocket(s, i)
    /\ UNCHANGED <<appVars, startVars, stopVars, growVars, failures>>

(* The descriptor is sent, or the application has gone and Stop, which     *)
(* runs on the strand already, closes everything at once.                  *)
HandleSendFd(s, i) ==
    /\ Acts(s, i, "sendFd")
    /\ \/ /\ ok[s][i] /\ app[s] = "accepting" /\ torn[s] # "done"
          /\ InitiateSocket(s, i)
          /\ UNCHANGED stopVars
       \/ /\ ok[s][i] /\ ~(app[s] = "accepting" /\ torn[s] # "done")
          /\ stop' = stop \cup {s}
          /\ torn' = [torn EXCEPT ![s] = "done"]
          /\ open' = [open EXCEPT ![s] = {}]
          /\ Goes(s, i, "ended")
       \/ /\ ~ok[s][i]
          /\ InitiateSocket(s, i)
          /\ UNCHANGED stopVars
    /\ UNCHANGED <<appVars, startVars, growVars, failures>>

(* HandleClientError: Stop sets stop_ and leaves the closing of the        *)
(* sockets to the strand.                                                  *)
HandleClientError(s) ==
    /\ session[s] = "pool"
    /\ app[s] = "closed"
    /\ s \notin stop
    /\ ThreadIsFree
    /\ stop' = stop \cup {s}
    /\ torn' = [torn EXCEPT ![s] = "queued"]
    /\ UNCHANGED <<appVars, startVars, slotVars, growVars, failures>>

StopClosure_Forgets(s) ==                  \* mutant: the slots' sockets stay open
    /\ torn[s] = "queued"
    /\ StrandIsFree(s)
    /\ torn' = [torn EXCEPT ![s] = "done"]
    /\ UNCHANGED <<appVars, startVars, stop, slotVars, growVars, failures>>

StopClosure(s) ==
    /\ torn[s] = "queued"
    /\ StrandIsFree(s)
    /\ ThreadIsFree
    /\ torn' = [torn EXCEPT ![s] = "done"]
    /\ open' = [open EXCEPT ![s] = {}]
    /\ UNCHANGED <<appVars, startVars, stop, op, at, ok, growVars, failures>>

----------------------------------------------------------------------------
SlotHandler(s, i) ==
    \/ HandlerBegins(s, i)
    \/ HandleConnect(s, i) \/ Handle1stResp(s, i) \/ Handle2ndResp(s, i) \/ HandleSendFd(s, i)

Hydration(s, i) == Hydrates(s, i) \/ EmplacesNext(s, i)

PoolHandler(s) ==
    \/ StartAsyncAccept(s) \/ StartBinds(s) \/ StartFails(s)
    \/ \E b \in Backlogs : StartListens(s, b)
    \/ StartLosesClient(s)
    \/ HandleClientError(s) \/ StopClosure(s)

Next ==
    \E s \in Sockets :
        \/ bind(s) \/ listen(s) \/ AppCloses(s)
        \/ PoolHandler(s)
        \/ \E i \in Indices : SlotHandler(s, i) \/ Hydration(s, i) \/ Succeeds(s, i) \/ Fails(s, i)

Spec == Init /\ [][Next]_vars

(* What completes by itself: the proxy answers, and an operation on a      *)
(* closed socket is aborted.  Nothing makes an inbound connection arrive.  *)
Answers(s, i) ==
    \/ op[s][i] # "resp2" /\ Succeeds(s, i)
    \/ ~SocketOpen(s, i) /\ Fails(s, i)

(* The threads take handlers that are ready from one queue, in order, so   *)
(* that each runs in the end however often the others are; the application *)
(* goes on with the calls it can make.                                     *)
FairSpec ==
    /\ Spec
    /\ \A s \in Sockets :
          /\ WF_vars(listen(s))
          /\ WF_vars(PoolHandler(s)) /\ SF_vars(StartAsyncAccept(s))
          /\ \A i \in Indices : /\ SF_vars(SlotHandler(s, i)) /\ WF_vars(Hydration(s, i))
                                /\ WF_vars(Answers(s, i))

----------------------------------------------------------------------------
(* Properties.                                                             *)

(* Once a pool is torn down nothing waits on a live connection to the      *)
(* proxy, where it would stay for ever and take an inbound connection that *)
(* nobody serves: a handler that saw stop_ unset, and acts after the       *)
(* sockets were closed, only starts what ends by itself (HandleConnect,    *)
(* client_session_pool.cc:196-220, checks again).                          *)
NothingWaitsAfterStop ==
    \A s \in Sockets, i \in Indices :
        torn[s] = "done" /\ op[s][i] \in {"resp1", "resp2"} => i \notin open[s]

(* Hydration never makes a slot beyond pool_size_, which is what buffers_  *)
(* was resized to (client_session_pool.cc:157-158): a slot uses the buffer *)
(* of its index, unchecked, however the first responses of the slots       *)
(* before it, repeated after failures and after connections were handed    *)
(* over, interleave with the hydration that each may trigger (242-251).    *)
(* The first two slots are made by Start without a look at the size, and   *)
(* have no buffers if the backlog is 0 or 1.                               *)
SlotsHaveBuffers ==
    \A s \in Sockets, i \in Indices : op[s][i] # "absent" => i < size[s] \/ i <= 1

(* A pool that is stopped ends: every slot stops, and with the last of     *)
(* them the pool, which they own, is destroyed.  (A pool that two handlers *)
(* made grow at once is not followed, see Followed.)                       *)
PoolEnds ==
    \A s \in Sockets :
        s \in stop ~> (\A i \in Indices : op[s][i] \in {"absent", "ended"}) \/ ~Followed(s)

(* The pool is filled completely, and stays so: unless it is stopped,      *)
(* every slot comes to wait for an inbound connection again and again,     *)
(* after connections were handed over and operations have failed.  The one *)
(* exception is a pool in which a handler was held up between its look at  *)
(* pool_.size() and the emplace_back (244-245) for so long that the next   *)
(* Handle1stResp of its slot looked as well: both emplace, both connect    *)
(* the same slot, and the slots after it are never connected.              *)
PoolFills ==
    \A s \in Sockets : \A i \in Indices :
        session[s] = "pool" /\ i < size[s]
          ~> op[s][i] = "resp2" \/ app[s] # "accepting" \/ ~Followed(s)

(* "Most of the calls below are blocking, but it is fine since we only do  *)
(* it once at the beginning" (client_session_pool.cc:49-50): a call of     *)
(* bind is answered.                                                       *)
EveryBindAnswered == \A s \in Sockets : app[s] = "binding" ~> app[s] # "binding"

----------------------------------------------------------------------------
(* The inductive invariant of SocketVendorProofs.                          *)

(* The vendor knows no socket before bind; before Start is through with it *)
(* a pool has no slots; and a pool is stopped before it is torn down.      *)
LifeInv ==
    \A s \in Sockets :
        /\ app[s] = "new" => session[s] = "none"
        /\ session[s] # "pool" => \A i \in Indices : op[s][i] = "absent"
        /\ torn[s] # "none" => session[s] = "pool" /\ s \in stop

(* A handler that makes the pool grow is the last slot's, and the pool is  *)
(* short.                                                                  *)
GrowInv ==
    \A s \in Sockets \ raced : \A i \in growing[s] :
        session[s] = "pool" /\ i = grown[s] - 1 /\ grown[s] < size[s]

(* Before Start is through, pool_size_ is not set.                         *)
PoolInv == \A s \in Sockets : session[s] # "pool" => size[s] = 0

(* Slots are made in the order of their indices.                           *)
ExistInv ==
    \A s \in Sockets \ raced : \A i \in Indices : op[s][i] # "absent" => i < grown[s]

(* Only a slot that exists has a handler to run.                           *)
AbsentInv ==
    \A s \in Sockets, i \in Indices : op[s][i] = "absent" => at[s][i] = "pending"

(* A handler that is past its look at stop_ when the pool is torn down has *)
(* lost its socket: a new one is opened by the step that ends the handler. *)
ActingInv ==
    \A s \in Sockets, i \in Indices :
        torn[s] = "done" /\ at[s][i] = "acting" => i \notin open[s]

IInv ==
    /\ TypeOK /\ LifeInv /\ PoolInv /\ GrowInv /\ ExistInv /\ AbsentInv /\ ActingInv
    /\ NothingWaitsAfterStop /\ SlotsHaveBuffers
=============================================================================
