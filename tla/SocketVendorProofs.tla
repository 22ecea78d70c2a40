------------------------- MODULE SocketVendorProofs -------------------------
(***************************************************************************)
(* The proofs about SocketVendor: IInv is inductive, and with it the slots *)
(* that hydration makes have buffers and a torn-down pool leaves nothing   *)
(* waiting, for any number of sockets, threads, slots and failures, and    *)
(* any backlog.                                                            *)
(***************************************************************************)
EXTENDS SocketVendor, TLAPS

LEMMA InitInv == Init => IInv
  BY VendorAssumption
  DEF Init, IInv, TypeOK, LifeInv, PoolInv, GrowInv, ExistInv, AbsentInv, ActingInv, NothingWaitsAfterStop,
      SlotsHaveBuffers, AppStates, SessionStates, SlotOps, Indices

(* The first two slots have an index.                                      *)
LEMMA FirstSlots == 0 \in Indices /\ 1 \in Indices
  BY VendorAssumption DEF Indices

(* Steps that touch neither slots nor stops, and start no pool.            *)
LEMMA QuietStep ==
    ASSUME IInv, UNCHANGED <<size, stopVars, slotVars, growVars, failures>>,
           app' \in [Sockets -> AppStates], session' \in [Sockets -> SessionStates],
           \A s \in Sockets : /\ session[s] = "pool" => session'[s] = "pool"
                              /\ app'[s] = "new" => session'[s] = "none"
    PROVE  IInv'
  BY DEF IInv, TypeOK, LifeInv, PoolInv, GrowInv, ExistInv, AbsentInv, ActingInv, NothingWaitsAfterStop, SlotsHaveBuffers,
         stopVars, slotVars, growVars

LEMMA ApplicationStep ==
    ASSUME IInv, NEW s \in Sockets, bind(s) \/ listen(s) \/ AppCloses(s)
    PROVE  IInv'
<1>1. TypeOK /\ LifeInv BY DEF IInv
<1>2. app' \in [Sockets -> AppStates] /\ session' \in [Sockets -> SessionStates]
  BY <1>1 DEF TypeOK, bind, listen, AppCloses, startVars, AppStates, SessionStates
<1>3. UNCHANGED <<size, stopVars, slotVars, growVars, failures>>
  BY DEF bind, listen, AppCloses, startVars
<1>4. \A x \in Sockets : /\ session[x] = "pool" => session'[x] = "pool"
                         /\ app'[x] = "new" => session'[x] = "none"
  BY <1>1 DEF TypeOK, LifeInv, bind, listen, AppCloses, startVars
<1>. QED BY <1>2, <1>3, <1>4, QuietStep

LEMMA StartStep ==
    ASSUME IInv, NEW s \in Sockets,
           StartAsyncAccept(s) \/ StartBinds(s) \/ StartFails(s) \/ StartLosesClient(s)
    PROVE  IInv'
<1>1. TypeOK /\ LifeInv BY DEF IInv
<1>2. app' \in [Sockets -> AppStates] /\ session' \in [Sockets -> SessionStates]
  BY <1>1 DEF TypeOK, StartAsyncAccept, StartBinds, StartFails, StartLosesClient, appVars,
              AppStates, SessionStates
<1>3. UNCHANGED <<size, stopVars, slotVars, growVars, failures>>
  BY DEF StartAsyncAccept, StartBinds, StartFails, StartLosesClient
<1>4. \A x \in Sockets : /\ session[x] = "pool" => session'[x] = "pool"
                         /\ app'[x] = "new" => session'[x] = "none"
  BY <1>1 DEF TypeOK, LifeInv, StartAsyncAccept, StartBinds, StartFails, StartLosesClient, appVars
<1>. QED BY <1>2, <1>3, <1>4, QuietStep

(* A pool starts with two slots, whatever its size.                        *)
LEMMA StartListensStep ==
    ASSUME IInv, NEW s \in Sockets, NEW b \in Backlogs, StartListens(s, b)
    PROVE  IInv'
<1>1. CASE b < 0
  <2>1. TypeOK /\ LifeInv BY DEF IInv
  <2>2. ~(b >= 0) BY <1>1, VendorAssumption
  <2>3. app' \in [Sockets -> AppStates] /\ session' \in [Sockets -> SessionStates]
    BY <2>1, <2>2 DEF TypeOK, StartListens, AppStates, SessionStates
  <2>4. UNCHANGED <<size, stopVars, slotVars, growVars, failures>>
    BY <2>2 DEF StartListens, slotVars, growVars
  <2>5. \A x \in Sockets : /\ session[x] = "pool" => session'[x] = "pool"
                           /\ app'[x] = "new" => session'[x] = "none"
    BY <2>1, <2>2 DEF TypeOK, LifeInv, StartListens
  <2>. QED BY <2>3, <2>4, <2>5, QuietStep
<1>2. CASE b >= 0
  <2>1. b \in Nat /\ ~(b < 0)
    BY <1>2, VendorAssumption
  <2> DEFINE n == IF b > kMaxConnections THEN kMaxConnections ELSE b
  <2>2. n \in 0..kMaxConnections
    BY <2>1, VendorAssumption
  <2> HIDE DEF n
  <2>3. /\ session[s] = "bound" /\ app[s] = "listening"
        /\ app' = [app EXCEPT ![s] = "accepting"]
        /\ session' = [session EXCEPT ![s] = "pool"]
        /\ size' = [size EXCEPT ![s] = n]
        /\ grown' = [grown EXCEPT ![s] = 2]
        /\ op' = [op EXCEPT ![s][0] = "resp2", ![s][1] = "connect"]
        /\ open' = [open EXCEPT ![s] = {0, 1}]
        /\ UNCHANGED <<stop, torn, at, ok, checking, growing, raced, failures>>
    BY <2>1 DEF StartListens, n, stopVars
  <2>4. TypeOK'
    BY <2>2, <2>3, FirstSlots DEF IInv, TypeOK, AppStates, SessionStates, SlotOps
  <2>5. \A i \in Indices : op[s][i] = "absent" /\ at[s][i] = "pending"
    BY <2>3 DEF IInv, LifeInv, AbsentInv
  <2>6. torn[s] = "none"
    BY <2>3 DEF IInv, TypeOK, LifeInv
  <2>7. LifeInv' /\ AbsentInv' /\ ActingInv'
    BY <2>3, <2>5, <2>6, FirstSlots DEF IInv, TypeOK, LifeInv, AbsentInv, ActingInv
  <2>8. NothingWaitsAfterStop'
    BY <2>3, <2>5, <2>6, FirstSlots DEF IInv, TypeOK, NothingWaitsAfterStop
  <2>9. \A i \in Indices : op'[s][i] # "absent" => i = 0 \/ i = 1
    BY <2>3, <2>5, FirstSlots DEF IInv, TypeOK
  <2>10. SlotsHaveBuffers'
    BY <2>2, <2>3, <2>9 DEF IInv, TypeOK, SlotsHaveBuffers
  <2>11. s \in raced \/ growing[s] = {}
    BY <2>3 DEF IInv, TypeOK, GrowInv
  <2>14. PoolInv'
    BY <2>3 DEF IInv, TypeOK, PoolInv
  <2>12. GrowInv'
    BY <2>3, <2>11 DEF IInv, TypeOK, GrowInv
  <2>13. ExistInv'
    BY <2>3, <2>9 DEF IInv, TypeOK, ExistInv
  <2>. QED BY <2>4, <2>7, <2>8, <2>10, <2>12, <2>13, <2>14 DEF IInv
<1>. QED BY <1>1, <1>2, VendorAssumption

(* A step of one slot keeps the invariant if, in a pool that is torn down, *)
(* neither an acting handler nor a wait for a response has an open socket. *)
LEMMA SlotStep ==
    ASSUME IInv, NEW s \in Sockets, NEW i \in Indices, op[s][i] # "absent",
           NEW o \in SlotOps, o # "absent",
           NEW a \in {"pending", "done", "acting"},
           NEW sockets \in {open[s], open[s] \cup {i}},
           op' = [op EXCEPT ![s][i] = o],
           at' = [at EXCEPT ![s][i] = a],
           open' = [open EXCEPT ![s] = sockets],
           ok' \in [Sockets -> [Indices -> BOOLEAN]], failures' \in 0..MaxFailures,
           checking' \in [Sockets -> [Indices -> Nat]],
           UNCHANGED <<app, session, size, stop, torn, grown, growing, raced>>,
           torn[s] = "done" /\ (a = "acting" \/ o \in {"resp1", "resp2"}) => i \notin sockets
    PROVE  IInv'
<1>1. TypeOK BY DEF IInv
<1>2. TypeOK'
  <2>1. sockets \in SUBSET Indices BY <1>1 DEF TypeOK
  <2>. QED BY <1>1, <2>1 DEF TypeOK
<1>3. LifeInv' /\ AbsentInv'
  <2>1. session[s] = "pool" BY DEF IInv, LifeInv
  <2>. QED BY <1>1, <2>1 DEF IInv, TypeOK, LifeInv, AbsentInv
<1>7. PoolInv' /\ GrowInv' /\ ExistInv'
  BY <1>1 DEF IInv, TypeOK, PoolInv, GrowInv, ExistInv
<1>4. ActingInv'
  <2> SUFFICES ASSUME NEW t \in Sockets, NEW j \in Indices, torn[t] = "done", at'[t][j] = "acting"
               PROVE  j \notin open'[t]
    BY DEF ActingInv
  <2>1. CASE t = s /\ j = i
    BY <1>1, <2>1 DEF TypeOK
  <2>2. CASE ~(t = s /\ j = i)
    BY <1>1, <2>2 DEF IInv, TypeOK, ActingInv
  <2>. QED BY <2>1, <2>2
<1>5. NothingWaitsAfterStop'
  <2> SUFFICES ASSUME NEW t \in Sockets, NEW j \in Indices, torn[t] = "done",
                      op'[t][j] \in {"resp1", "resp2"}
               PROVE  j \notin open'[t]
    BY DEF NothingWaitsAfterStop
  <2>1. CASE t = s /\ j = i
    BY <1>1, <2>1 DEF TypeOK
  <2>2. CASE ~(t = s /\ j = i)
    BY <1>1, <2>2 DEF IInv, TypeOK, NothingWaitsAfterStop
  <2>. QED BY <2>1, <2>2
<1>6. SlotsHaveBuffers'
  BY <1>1 DEF IInv, TypeOK, SlotsHaveBuffers
<1>. QED BY <1>2, <1>3, <1>4, <1>5, <1>6, <1>7 DEF IInv

(* What does not change may be written as an update.                       *)
LEMMA Unchanged ==
    ASSUME TypeOK, NEW s \in Sockets, NEW i \in Indices
    PROVE  /\ op = [op EXCEPT ![s][i] = op[s][i]]
           /\ at = [at EXCEPT ![s][i] = at[s][i]]
           /\ open = [open EXCEPT ![s] = open[s]]
           /\ op[s][i] \in SlotOps
           /\ at[s][i] \in {"pending", "done", "acting"}
           /\ open[s] \in SUBSET Indices
           /\ checking \in [Sockets -> [Indices -> Nat]]
  BY DEF TypeOK

(* The kernel completes an operation: its handler is ready.                *)
LEMMA CompletesStep ==
    ASSUME IInv, NEW s \in Sockets, NEW i \in Indices, Succeeds(s, i) \/ Fails(s, i)
    PROVE  IInv'
<1>1. TypeOK BY DEF IInv
<1>2. PICK res \in BOOLEAN : Completes(s, i, res)
  BY DEF Succeeds, Fails
<1>3. failures' \in 0..MaxFailures
  <2>1. failures' = failures \/ (failures < MaxFailures /\ failures' = failures + 1)
    BY Zenon DEF Succeeds, Fails
  <2>. QED BY <1>1, <2>1, VendorAssumption DEF TypeOK
<1>4. /\ op[s][i] \in {"connect", "resp1", "resp2", "sendFd"}
      /\ at' = [at EXCEPT ![s][i] = "done"]
      /\ ok' \in [Sockets -> [Indices -> BOOLEAN]]
      /\ op' = [op EXCEPT ![s][i] = op[s][i]]
      /\ open' = [open EXCEPT ![s] = open[s]]
      /\ UNCHANGED <<app, session, size, stop, torn, grown, checking, growing, raced>>
  BY <1>1, <1>2, Unchanged DEF TypeOK, Completes, appVars, startVars, stopVars, growVars
<1>5. torn[s] = "done" /\ op[s][i] \in {"resp1", "resp2"} => i \notin open[s]
  BY DEF IInv, NothingWaitsAfterStop
<1>. QED BY <1>1, <1>3, <1>4, <1>5, SlotStep, Unchanged

(* A handler that begins after Stop ends its slot; so what acts in a pool  *)
(* that is torn down began before.                                         *)
LEMMA HandlerBeginsStep ==
    ASSUME IInv, NEW s \in Sockets, NEW i \in Indices, HandlerBegins(s, i)
    PROVE  IInv'
<1>1. TypeOK BY DEF IInv
<1>2. /\ op[s][i] \in {"connect", "resp1", "resp2", "sendFd"}
      /\ at[s][i] = "done"
      /\ open' = [open EXCEPT ![s] = open[s]]
      /\ failures' \in 0..MaxFailures
      /\ UNCHANGED <<app, session, size, stop, torn, grown, checking, growing, raced>>
  BY <1>1, Unchanged DEF TypeOK, HandlerBegins, appVars, startVars, stopVars, growVars
<1>3. CASE s \in stop
  <2>1. /\ op' = [op EXCEPT ![s][i] = "ended"]
        /\ at' = [at EXCEPT ![s][i] = "pending"]
        /\ ok' \in [Sockets -> [Indices -> BOOLEAN]]
    <3>1. Goes(s, i, "ended")
      BY <1>3 DEF HandlerBegins, StopCheck
    <3>. QED BY <1>1, <3>1 DEF Goes, TypeOK
  <2>. QED BY <1>1, <1>2, <2>1, SlotStep, Unchanged DEF SlotOps
<1>4. CASE s \notin stop
  <2>1. /\ op' = [op EXCEPT ![s][i] = op[s][i]]
        /\ at' = [at EXCEPT ![s][i] = "acting"]
        /\ ok' \in [Sockets -> [Indices -> BOOLEAN]]
    BY <1>1, <1>4, Unchanged DEF HandlerBegins, StopCheck, TypeOK
  <2>2. torn[s] # "done" BY <1>4 DEF IInv, LifeInv
  <2>. QED BY <1>1, <1>2, <2>1, <2>2, SlotStep, Unchanged
<1>. QED BY <1>3, <1>4

(* What the handlers of a slot have in common.                             *)
LEMMA HandlerStep ==
    ASSUME IInv, NEW s \in Sockets, NEW i \in Indices, at[s][i] = "acting", op[s][i] # "absent",
           checking' \in [Sockets -> [Indices -> Nat]],
           UNCHANGED <<app, session, size, stop, torn, grown, growing, raced, failures>>
    PROVE  /\ InitiateSocket(s, i) => IInv'
           /\ \A o \in SlotOps \ {"absent"} : Goes(s, i, o) /\ UNCHANGED open => IInv'
<1>1. TypeOK BY DEF IInv
<1>2. failures' \in 0..MaxFailures
  BY <1>1 DEF TypeOK
<1>3. torn[s] = "done" => i \notin open[s]
  BY DEF IInv, ActingInv
<1>4. ASSUME InitiateSocket(s, i) PROVE IInv'
  <2>1. /\ op' = [op EXCEPT ![s][i] = "connect"]
        /\ at' = [at EXCEPT ![s][i] = "pending"]
        /\ open' = [open EXCEPT ![s] = open[s] \cup {i}]
        /\ ok' \in [Sockets -> [Indices -> BOOLEAN]]
    BY <1>1, <1>4 DEF TypeOK, InitiateSocket, Goes
  <2>. QED BY <1>2, <2>1, SlotStep DEF SlotOps
<1>5. ASSUME NEW o \in SlotOps \ {"absent"}, Goes(s, i, o), UNCHANGED open PROVE IInv'
  <2>1. open' = [open EXCEPT ![s] = open[s]] /\ ok' \in [Sockets -> [Indices -> BOOLEAN]]
    BY <1>1, <1>5, Unchanged DEF Goes, TypeOK
  <2>. QED BY <1>2, <1>3, <1>5, <2>1, SlotStep DEF Goes
<1>. QED BY <1>4, <1>5

(* A handler goes on to a response only if its socket is open, and opens a *)
(* socket only for a new connect.                                          *)
LEMMA HandleConnectStep ==
    ASSUME IInv, NEW s \in Sockets, NEW i \in Indices, HandleConnect(s, i)
    PROVE  IInv'
<1>1. \/ InitiateSocket(s, i)
      \/ Goes(s, i, "resp1") /\ UNCHANGED open
  BY DEF HandleConnect
<1>. QED
  BY <1>1, HandlerStep DEF HandleConnect, Acts, SlotOps, appVars, startVars, stopVars, growVars,
                           IInv, TypeOK

LEMMA Handle2ndRespStep ==
    ASSUME IInv, NEW s \in Sockets, NEW i \in Indices, Handle2ndResp(s, i)
    PROVE  IInv'
<1>1. \/ InitiateSocket(s, i)
      \/ Goes(s, i, "sendFd") /\ UNCHANGED open
  BY DEF Handle2ndResp
<1>. QED
  BY <1>1, HandlerStep DEF Handle2ndResp, Acts, SlotOps, appVars, startVars, stopVars, growVars,
                           IInv, TypeOK

(* The first response goes on to the second, and to the look at the pool.  *)
LEMMA Handle1stRespStep ==
    ASSUME IInv, NEW s \in Sockets, NEW i \in Indices, Handle1stResp(s, i)
    PROVE  IInv'
<1>1. \/ Goes(s, i, "resp2") /\ UNCHANGED open
      \/ InitiateSocket(s, i)
  BY DEF Handle1stResp
<1>2. checking' \in [Sockets -> [Indices -> Nat]]
  <2>1. \/ checking' = [checking EXCEPT ![s][i] = @ + 1]
        \/ UNCHANGED checking
    BY DEF Handle1stResp
  <2>2. checking[s][i] + 1 \in Nat
    BY DEF IInv, TypeOK
  <2>3. checking \in [Sockets -> [Indices -> Nat]]
    BY DEF IInv, TypeOK
  <2>4. CASE UNCHANGED checking
    BY <2>3, <2>4
  <2>5. CASE checking' = [checking EXCEPT ![s][i] = @ + 1]
    BY <2>2, <2>3, <2>5
  <2>. QED BY <2>1, <2>4, <2>5
<1>. QED
  BY <1>1, <1>2, HandlerStep DEF Handle1stResp, Acts, SlotOps, appVars, startVars, stopVars

(* Only the last slot of a pool that is short makes it grow.               *)
LEMMA HydratesStep ==
    ASSUME IInv, NEW s \in Sockets, NEW i \in Indices, Hydrates(s, i)
    PROVE  IInv'
<1>1. /\ s \notin raced /\ checking[s][i] > 0
      /\ checking' = [checking EXCEPT ![s][i] = @ - 1]
      /\ growing' \in {growing, [growing EXCEPT ![s] = @ \cup {i}]}
      /\ growing' # growing => PoolIsShort(s, i)
      /\ raced' \in {raced, raced \cup {s}}
      /\ UNCHANGED <<app, session, size, stop, torn, op, at, ok, open, grown, failures>>
  BY DEF Hydrates, Followed, appVars, startVars, stopVars, slotVars
<1>2. TypeOK'
  <2>1. checking[s][i] - 1 \in Nat
    BY <1>1 DEF IInv, TypeOK
  <2>2. checking' \in [Sockets -> [Indices -> Nat]]
    BY <1>1, <2>1 DEF IInv, TypeOK
  <2>3. growing' \in [Sockets -> SUBSET Indices] /\ raced' \subseteq Sockets
    <3>1. growing \in [Sockets -> SUBSET Indices] /\ raced \subseteq Sockets
      BY DEF IInv, TypeOK
    <3>2. [growing EXCEPT ![s] = @ \cup {i}] \in [Sockets -> SUBSET Indices]
      BY <3>1
    <3>3. raced \cup {s} \subseteq Sockets
      BY <3>1
    <3>. QED BY <1>1, <3>1, <3>2, <3>3
  <2>. QED BY <1>1, <2>2, <2>3 DEF IInv, TypeOK
<1>3. LifeInv' /\ AbsentInv' /\ ActingInv' /\ NothingWaitsAfterStop' /\ SlotsHaveBuffers'
  BY <1>1 DEF IInv, LifeInv, AbsentInv, ActingInv, NothingWaitsAfterStop, SlotsHaveBuffers
<1>4. PoolInv' /\ ExistInv'
  BY <1>1 DEF IInv, PoolInv, ExistInv
<1>5. GrowInv'
  <2>1. CASE growing' = growing
    BY <1>1, <2>1 DEF IInv, GrowInv
  <2>2. CASE growing' # growing
    <3>1. /\ i = grown[s] - 1 /\ grown[s] < size[s]
          /\ growing' = [growing EXCEPT ![s] = @ \cup {i}]
      BY <1>1, <2>2 DEF PoolIsShort
    <3>2. session[s] = "pool"
      BY <1>1, <3>1 DEF IInv, TypeOK, PoolInv
    <3>. QED BY <1>1, <3>1, <3>2 DEF IInv, TypeOK, GrowInv
  <2>. QED BY <2>1, <2>2
<1>. QED BY <1>2, <1>3, <1>4, <1>5 DEF IInv

(* The slot that is made has a buffer, and connects.                       *)
LEMMA EmplacesNextStep ==
    ASSUME IInv, NEW s \in Sockets, NEW i \in Indices, EmplacesNext(s, i)
    PROVE  IInv'
<1>1. /\ s \notin raced /\ i \in growing[s]
      /\ growing' = [growing EXCEPT ![s] = @ \ {i}]
      /\ grown' = [grown EXCEPT ![s] = @ + 1]
      /\ op' = [op EXCEPT ![s][i + 1] = "connect"]
      /\ open' = [open EXCEPT ![s] = @ \cup {i + 1}]
      /\ UNCHANGED <<app, session, size, stop, torn, at, ok, checking, raced, failures>>
  BY DEF EmplacesNext, Followed, appVars, startVars, stopVars
<1>2. session[s] = "pool" /\ i = grown[s] - 1 /\ grown[s] < size[s]
  BY <1>1 DEF IInv, GrowInv
<1>3. i + 1 \in Indices /\ i + 1 = grown[s] /\ i + 1 < size[s]
  BY <1>2, VendorAssumption DEF IInv, TypeOK, Indices
<1>4. op[s][i + 1] = "absent" /\ at[s][i + 1] = "pending"
  BY <1>1, <1>3 DEF IInv, TypeOK, ExistInv, AbsentInv
<1>5. TypeOK'
  BY <1>1, <1>3 DEF IInv, TypeOK, SlotOps
<1>6. LifeInv' /\ PoolInv' /\ AbsentInv'
  BY <1>1, <1>2, <1>3 DEF IInv, TypeOK, LifeInv, PoolInv, AbsentInv
<1>7. ActingInv' /\ NothingWaitsAfterStop'
  BY <1>1, <1>3, <1>4 DEF IInv, TypeOK, ActingInv, NothingWaitsAfterStop
<1>8. SlotsHaveBuffers'
  BY <1>1, <1>3 DEF IInv, TypeOK, SlotsHaveBuffers
<1>9. ExistInv'
  BY <1>1, <1>3 DEF IInv, TypeOK, ExistInv, Indices
<1>10. growing'[s] = {}
  BY <1>1, <1>2 DEF IInv, TypeOK, GrowInv
<1>11. GrowInv'
  BY <1>1, <1>10 DEF IInv, TypeOK, GrowInv
<1>. QED BY <1>5, <1>6, <1>7, <1>8, <1>9, <1>11 DEF IInv

(* Sending a descriptor may find the application gone; Stop then closes    *)
(* everything at once.                                                     *)
LEMMA HandleSendFdStep ==
    ASSUME IInv, NEW s \in Sockets, NEW i \in Indices, HandleSendFd(s, i)
    PROVE  IInv'
<1>1. CASE InitiateSocket(s, i) /\ UNCHANGED stopVars
  BY <1>1, HandlerStep DEF HandleSendFd, Acts, appVars, startVars, stopVars, growVars,
                           IInv, TypeOK
<1>2. CASE /\ stop' = stop \cup {s}
           /\ torn' = [torn EXCEPT ![s] = "done"]
           /\ open' = [open EXCEPT ![s] = {}]
           /\ Goes(s, i, "ended")
  BY <1>2 DEF IInv, TypeOK, LifeInv, PoolInv, GrowInv, ExistInv, AbsentInv, ActingInv, NothingWaitsAfterStop, SlotOps,
     SlotsHaveBuffers, HandleSendFd, Acts, Goes, appVars, startVars, growVars
<1>. QED BY <1>1, <1>2 DEF HandleSendFd

LEMMA StopStep ==
    ASSUME IInv, NEW s \in Sockets, HandleClientError(s) \/ StopClosure(s)
    PROVE  IInv'
<1>1. CASE HandleClientError(s)
  BY <1>1 DEF IInv, TypeOK, LifeInv, PoolInv, GrowInv, ExistInv, AbsentInv, ActingInv, NothingWaitsAfterStop,
     SlotsHaveBuffers, HandleClientError, appVars, startVars, slotVars, growVars
<1>2. CASE StopClosure(s)
  BY <1>2 DEF IInv, TypeOK, LifeInv, PoolInv, GrowInv, ExistInv, AbsentInv, ActingInv, NothingWaitsAfterStop,
     SlotsHaveBuffers, StopClosure, appVars, startVars, growVars
<1>. QED BY <1>1, <1>2

(* Every step keeps the invariant.                                         *)
LEMMA StepInv == IInv /\ [Next]_vars => IInv'
<1> SUFFICES ASSUME IInv, [Next]_vars PROVE IInv'
  OBVIOUS
<1>1. CASE UNCHANGED vars
  BY <1>1 DEF IInv, TypeOK, LifeInv, PoolInv, GrowInv, ExistInv, AbsentInv, ActingInv, NothingWaitsAfterStop,
     SlotsHaveBuffers, vars, appVars, startVars, stopVars, slotVars, growVars
<1>2. ASSUME NEW s \in Sockets, bind(s) \/ listen(s) \/ AppCloses(s) PROVE IInv'
  BY <1>2, ApplicationStep
<1>3. ASSUME NEW s \in Sockets, PoolHandler(s) PROVE IInv'
  BY <1>3, StartStep, StartListensStep, StopStep DEF PoolHandler
<1>4. ASSUME NEW s \in Sockets, NEW i \in Indices, SlotHandler(s, i) PROVE IInv'
  BY <1>4, HandlerBeginsStep, HandleConnectStep, Handle1stRespStep, Handle2ndRespStep,
     HandleSendFdStep DEF SlotHandler
<1>5. ASSUME NEW s \in Sockets, NEW i \in Indices, Succeeds(s, i) \/ Fails(s, i) PROVE IInv'
  BY <1>5, CompletesStep
<1>6. ASSUME NEW s \in Sockets, NEW i \in Indices, Hydration(s, i) PROVE IInv'
  BY <1>6, HydratesStep, EmplacesNextStep DEF Hydration
<1>. QED BY <1>1, <1>2, <1>3, <1>4, <1>5, <1>6 DEF Next

----------------------------------------------------------------------------
(* IInv is an invariant of the vendor.                                     *)
THEOREM Invariance == Spec => []IInv
  BY InitInv, StepInv, PTL DEF Spec

(* Types, for any number of sockets, threads and slots.                    *)
THEOREM TypeCorrect == Spec => []TypeOK
<1>1. IInv => TypeOK BY DEF IInv
<1>. QED BY <1>1, Invariance, PTL

(* A torn-down pool leaves nothing waiting on a connection to the proxy,   *)
(* however late the handlers that had seen stop_ unset run.                *)
THEOREM NothingWaits == Spec => []NothingWaitsAfterStop
<1>1. IInv => NothingWaitsAfterStop BY DEF IInv
<1>. QED BY <1>1, Invariance, PTL

(* Hydration makes no slot whose index is beyond buffers_, for any backlog *)
(* and however hydrations interleave.                                      *)
THEOREM SlotsBuffered == Spec => []SlotsHaveBuffers
<1>1. IInv => SlotsHaveBuffers BY DEF IInv
<1>. QED BY <1>1, Invariance, PTL
=============================================================================
