--------------------------- MODULE JwksCacheProofs --------------------------
(***************************************************************************)
(* The proofs about JwksCache: withdrawn keys are forgotten and new keys   *)
(* are found, for any number of calls and keys, any ages and any time a    *)
(* fetch may take.                                                         *)
(***************************************************************************)
EXTENDS JwksCache, TLAPS

(* There is a longest age, and no key set may be kept for longer.          *)
LEMMA LongestAgeType ==
    /\ LongestAge \in Nat
    /\ \A h \in MaxAgeHeaders : getMaxAgeSecs(h) \in Nat /\ getMaxAgeSecs(h) <= LongestAge
<1>1. ASSUME NEW a \in Ages PROVE a \in Nat
  <2>1. CASE a = DefaultMaxAge
    BY <2>1, JwksAssumption
  <2>2. CASE a \in MaxAgeHeaders /\ a >= 0
    BY <2>2, JwksAssumption
  <2>. QED BY <2>1, <2>2 DEF Ages
<1>2. LongestAge \in Ages /\ \A b \in Ages : b <= LongestAge
  BY JwksAssumption DEF LongestAge
<1>3. \A h \in MaxAgeHeaders : getMaxAgeSecs(h) \in Ages
  BY JwksAssumption DEF Ages, getMaxAgeSecs
<1>. QED BY <1>1, <1>2, <1>3

LEMMA InitInv == Init => IInv
<1>. SUFFICES ASSUME Init PROVE IInv OBVIOUS
<1>1. stalled \in BOOLEAN /\ ~stalled
  BY DEF Init
<1>2. TypeOK
  BY <1>1, JwksAssumption DEF Init, TypeOK, Steps
<1>3. FetchInv
  BY <1>1, JwksAssumption DEF Init, FetchInv
<1>4. CacheInv /\ DataInv /\ RereadInv
  BY JwksAssumption DEF Init, CacheInv, DataInv, RereadInv
<1>. QED BY <1>2, <1>3, <1>4 DEF IInv

(* A key is published or withdrawn: what was current before is current but *)
(* for this.                                                               *)
LEMMA RotateStep ==
    ASSUME IInv, NEW k \in Keys, Rotate(k)
    PROVE  IInv'
<1>1. TypeOK BY DEF IInv
<1>2. TypeOK'
  BY <1>1 DEF TypeOK, Rotate, cacheVars, callVars
<1>3. FetchInv'
  BY DEF IInv, TypeOK, FetchInv, Current, Rotate, cacheVars, callVars
<1>4. CacheInv'
  BY JwksAssumption
  DEF IInv, TypeOK, JwksData, CacheInv, Fetched, Current, Rotate, cacheVars
<1>5. DataInv'
  BY JwksAssumption DEF IInv, TypeOK, JwksData, DataInv, Fetched, Current, Rotate, callVars
<1>6. RereadInv'
  BY DEF IInv, TypeOK, DataInv, RereadInv, Current, Rotate, cacheVars, callVars
<1>. QED BY <1>2, <1>3, <1>4, <1>5, <1>6 DEF IInv

(* The provider answers with what it publishes.                            *)
LEMMA RespondStep ==
    ASSUME IInv, NEW header \in MaxAgeHeaders, Respond(header)
    PROVE  IInv'
<1>1. TypeOK BY DEF IInv
<1>2. TypeOK'
  BY <1>1 DEF TypeOK, Respond, Responses, providerVars, callVars
<1>3. FetchInv'
  BY DEF IInv, FetchInv, Current, Respond, providerVars, callVars
<1>4. CacheInv'
  BY DEF IInv, CacheInv, Fetched, Current, Respond, providerVars
<1>5. DataInv'
  BY DEF IInv, DataInv, Fetched, Current, Respond, providerVars, callVars
<1>6. RereadInv'
  BY DEF IInv, RereadInv, Current, Respond, providerVars, callVars
<1>. QED BY <1>2, <1>3, <1>4, <1>5, <1>6 DEF IInv

(* A body stalls, and with it the fetch.                                   *)
LEMMA BodyStallsStep ==
    ASSUME IInv, BodyStalls
    PROVE  IInv'
<1>1. TypeOK BY DEF IInv
<1>2. TypeOK'
  BY <1>1 DEF TypeOK, BodyStalls, providerVars, callVars
<1>3. FetchInv'
  BY DEF IInv, FetchInv, Current, BodyStalls, providerVars, callVars
<1>4. CacheInv'
  BY DEF IInv, CacheInv, Fetched, Current, BodyStalls, providerVars
<1>5. DataInv'
  BY DEF IInv, DataInv, Fetched, Current, BodyStalls, providerVars, callVars
<1>6. RereadInv'
  BY DEF IInv, RereadInv, Current, BodyStalls, providerVars, callVars
<1>. QED BY <1>2, <1>3, <1>4, <1>5, <1>6 DEF IInv

(* Time passes.                                                            *)
LEMMA TickStep ==
    ASSUME IInv, Tick
    PROVE  IInv'
<1>1. TypeOK BY DEF IInv
<1>2. TypeOK'
  BY <1>1 DEF TypeOK, Tick, providerVars, cacheVars, callVars
<1>3. FetchInv'
  BY JwksAssumption
  DEF IInv, TypeOK, FetchInv, Current, Tick, providerVars, cacheVars, callVars
<1>4. CacheInv'
  BY DEF IInv, TypeOK, JwksData, CacheInv, Fetched, Current, Tick, providerVars, cacheVars
<1>5. DataInv'
  BY DEF IInv, TypeOK, JwksData, DataInv, Fetched, Current, Tick, providerVars, callVars
<1>6. RereadInv'
  BY DEF IInv, RereadInv, Current, Tick, providerVars, cacheVars, callVars
<1>. QED BY <1>2, <1>3, <1>4, <1>5, <1>6 DEF IInv

(* A call begins.                                                          *)
LEMMA getKeyStep ==
    ASSUME IInv, NEW c \in Calls, getKey(c)
    PROVE  IInv'
<1>1. TypeOK BY DEF IInv
<1>2. TypeOK'
  BY <1>1 DEF TypeOK, Steps, getKey, Moves, providerVars, cacheVars
<1>3. FetchInv'
  BY DEF IInv, FetchInv, Current, getKey, Moves, providerVars, cacheVars
<1>4. CacheInv'
  BY DEF IInv, CacheInv, Fetched, Current, getKey, providerVars, cacheVars
<1>5. DataInv'
  BY DEF IInv, TypeOK, DataInv, Fetched, Current, getKey, Moves, providerVars
<1>6. RereadInv'
  BY DEF IInv, RereadInv, Current, getKey, Moves, providerVars, cacheVars
<1>. QED BY <1>2, <1>3, <1>4, <1>5, <1>6 DEF IInv

(* It reads an entry that has not expired ...                              *)
LEMMA HitStep ==
    ASSUME IInv, NEW c \in Calls, Hit(c)
    PROVE  IInv'
<1>1. TypeOK BY DEF IInv
<1>2. TypeOK'
  BY <1>1 DEF TypeOK, Steps, Hit, Moves, expireAfterRead, providerVars
<1>3. FetchInv'
  BY DEF IInv, TypeOK, FetchInv, Hit, Moves
<1>4. CacheInv'
  BY DEF IInv, CacheInv, Fetched, Current, Hit, expireAfterRead, providerVars
<1>5. DataInv'
  BY LongestAgeType
  DEF IInv, TypeOK, JwksData, CacheInv, DataInv, Fetched, Current, Hit, Moves, providerVars
<1>6. RereadInv'
  BY DEF IInv, TypeOK, RereadInv, Current, Hit, Moves, providerVars
<1>. QED BY <1>2, <1>3, <1>4, <1>5, <1>6 DEF IInv

(* ... or requests the key set.                                            *)
LEMMA MissStep ==
    ASSUME IInv, NEW c \in Calls, Miss(c)
    PROVE  IInv'
<1>1. TypeOK BY DEF IInv
<1>2. TypeOK'
  BY <1>1 DEF TypeOK, Steps, Miss, Moves, providerVars
<1>3. FetchInv'
  BY JwksAssumption DEF IInv, TypeOK, FetchInv, Miss, Moves
<1>4. CacheInv'
  BY DEF IInv, CacheInv, Fetched, Current, Miss, providerVars
<1>5. DataInv'
  BY DEF IInv, TypeOK, DataInv, Fetched, Current, Miss, Moves, providerVars
<1>6. RereadInv'
  BY DEF IInv, TypeOK, DataInv, RereadInv, Current, Miss, Moves, providerVars
<1>. QED BY <1>2, <1>3, <1>4, <1>5, <1>6 DEF IInv

(* The key set arrives: it was current after the request, at most one      *)
(* FetchTime ago.                                                          *)
LEMMA fetchJwksStep ==
    ASSUME IInv, NEW c \in Calls, fetchJwks(c)
    PROVE  IInv'
<1>1. TypeOK BY DEF IInv
<1>2. answer \in Responses
  BY <1>1 DEF TypeOK, fetchJwks
<1>3. getMaxAgeSecs(answer.header) \in Nat /\ getMaxAgeSecs(answer.header) <= LongestAge
  BY <1>2, LongestAgeType DEF Responses
<1>4. PICK new \in JwksData :
         new = [keys |-> answer.keys \cap Usable, maxAge |-> getMaxAgeSecs(answer.header),
                fetchedAt |-> now]
  BY <1>1, <1>3 DEF TypeOK, JwksData
<1>5. /\ new.fetchedAt = now /\ new.keys = answer.keys \cap Usable
      /\ new.maxAge \in Nat /\ new.maxAge <= LongestAge
  BY <1>3, <1>4
<1>6. /\ loader = c /\ answer # NoData /\ ~stalled
      /\ cache' = new /\ expires' = now + new.maxAge
      /\ data' = [data EXCEPT ![c] = new]
      /\ loader' = NoCall /\ sentAt' = 0 /\ answer' = NoData
      /\ \/ step[c] = "load" /\ step' = [step EXCEPT ![c] = "check"]
         \/ step[c] = "reload" /\ step' = [step EXCEPT ![c] = "recheck"]
      /\ UNCHANGED <<now, providerVars, stalled, wanted, begun, result>>
  BY <1>4 DEF fetchJwks, expireAfterCreate, parseKeys, Ends, Moves
<1>7. TypeOK'
  BY <1>1, <1>5, <1>6, JwksAssumption DEF TypeOK, Steps, providerVars
<1>8. FetchInv'
  BY <1>1, <1>6, JwksAssumption DEF IInv, TypeOK, FetchInv
<1>9. sentAt <= now /\ now <= sentAt + FetchTime /\ Current(new.keys, sentAt)
  BY <1>5, <1>6, JwksAssumption DEF IInv, FetchInv, Current
<1>10. Fetched(new)'
  <2>1. now - FetchTime <= sentAt
    BY <1>1, <1>9, JwksAssumption DEF TypeOK
  <2>2. published' = published /\ since' = since /\ now' = now
    BY <1>6 DEF providerVars
  <2>3. \A k \in Usable : since[k] \in Nat
    BY <1>1, JwksAssumption DEF TypeOK
  <2>. QED BY <1>1, <1>5, <1>9, <2>2, JwksAssumption DEF TypeOK, Fetched, Current
<1>11. CacheInv'
  BY <1>1, <1>5, <1>6, <1>10, LongestAgeType DEF TypeOK, CacheInv
<1>12. DataInv'
  <2> SUFFICES ASSUME NEW d \in Calls
               PROVE  /\ begun[d] <= now
                      /\ step'[d] # "done" => result[d] = "none"
                      /\ step'[d] = "new" => data'[d] = NoData
                      /\ step'[d] \in {"check", "recheck"} => data'[d] # NoData
                      /\ data'[d] # NoData =>
                            Fetched(data[d])' /\ begun[d] <= data'[d].fetchedAt + LongestAge
    BY <1>6 DEF DataInv
  <2>1. CASE d = c
    BY <1>5, <1>6, <1>10, <2>1, LongestAgeType, JwksAssumption DEF IInv, TypeOK, DataInv
  <2>2. CASE d # c
    BY <1>6, <2>2 DEF IInv, TypeOK, DataInv, Fetched, Current, providerVars
  <2>. QED BY <2>1, <2>2
<1>13. RereadInv'
  BY <1>5, <1>6, JwksAssumption DEF IInv, TypeOK, FetchInv, RereadInv, Current, providerVars
<1>. QED BY <1>7, <1>8, <1>11, <1>12, <1>13 DEF IInv

(* The fetch fails.                                                        *)
LEMMA fetchFailsStep ==
    ASSUME IInv, NEW c \in Calls, fetchFails(c)
    PROVE  IInv'
<1>1. TypeOK BY DEF IInv
<1>2. TypeOK'
  BY <1>1 DEF TypeOK, Steps, fetchFails, Returns, Ends, providerVars
<1>3. FetchInv'
  BY JwksAssumption DEF IInv, TypeOK, FetchInv, fetchFails, Returns, Ends
<1>4. CacheInv'
  BY DEF IInv, CacheInv, Fetched, Current, fetchFails, providerVars
<1>5. DataInv'
  BY DEF IInv, TypeOK, DataInv, Fetched, Current, fetchFails, Returns, providerVars
<1>6. RereadInv'
  BY DEF IInv, TypeOK, RereadInv, Current, fetchFails, Returns, Ends, providerVars
<1>. QED BY <1>2, <1>3, <1>4, <1>5, <1>6 DEF IInv

(* The key is looked up.                                                   *)
LEMMA checkStep ==
    ASSUME IInv, NEW c \in Calls, check(c)
    PROVE  IInv'
<1>1. TypeOK BY DEF IInv
<1>2. TypeOK'
  BY <1>1 DEF TypeOK, Steps, check, Moves, Returns, providerVars, cacheVars
<1>3. FetchInv'
  BY DEF IInv, TypeOK, FetchInv, Current, check, Moves, Returns, providerVars, cacheVars
<1>4. CacheInv'
  BY DEF IInv, CacheInv, Fetched, Current, check, providerVars, cacheVars
<1>5. DataInv'
  BY DEF IInv, TypeOK, DataInv, Fetched, Current, check, Moves, Returns, providerVars
<1>6. RereadInv'
  BY DEF IInv, TypeOK, RereadInv, Current, check, Moves, Returns, providerVars, cacheVars
<1>. QED BY <1>2, <1>3, <1>4, <1>5, <1>6 DEF IInv

(* The entry is removed.                                                   *)
LEMMA invalidateStep ==
    ASSUME IInv, NEW c \in Calls, invalidate(c)
    PROVE  IInv'
<1>1. TypeOK BY DEF IInv
<1>2. TypeOK'
  BY <1>1 DEF TypeOK, Steps, invalidate, Moves, providerVars
<1>3. FetchInv'
  BY DEF IInv, FetchInv, invalidate, Moves
<1>4. CacheInv'
  BY DEF CacheInv, invalidate
<1>5. DataInv'
  BY DEF IInv, DataInv, Fetched, Current, invalidate, Moves, providerVars
<1>6. RereadInv'
  BY DEF IInv, RereadInv, Current, invalidate, Moves, providerVars
<1>. QED BY <1>2, <1>3, <1>4, <1>5, <1>6 DEF IInv

(* The key is looked up again.                                             *)
LEMMA recheckStep ==
    ASSUME IInv, NEW c \in Calls, recheck(c)
    PROVE  IInv'
<1>1. TypeOK BY DEF IInv
<1>2. TypeOK'
  BY <1>1 DEF TypeOK, Steps, recheck, Returns, providerVars, cacheVars
<1>3. FetchInv'
  BY DEF IInv, FetchInv, Current, recheck, Returns, providerVars, cacheVars
<1>4. CacheInv'
  BY DEF IInv, CacheInv, Fetched, Current, recheck, providerVars, cacheVars
<1>5. DataInv'
  BY DEF IInv, TypeOK, DataInv, Fetched, Current, recheck, Returns, providerVars
<1>6. RereadInv'
  BY DEF IInv, TypeOK, RereadInv, Current, recheck, Returns, providerVars, cacheVars
<1>. QED BY <1>2, <1>3, <1>4, <1>5, <1>6 DEF IInv

(* Every step keeps the invariant.                                         *)
LEMMA StepInv == IInv /\ [Next]_vars => IInv'
<1> SUFFICES ASSUME IInv, [Next]_vars PROVE IInv'
  OBVIOUS
<1>1. CASE UNCHANGED vars
  BY <1>1
  DEF IInv, TypeOK, FetchInv, CacheInv, DataInv, RereadInv, Fetched, Current, vars,
      providerVars, cacheVars, callVars
<1>2. ASSUME NEW k \in Keys, Rotate(k) PROVE IInv'
  BY <1>2, RotateStep
<1>3. ASSUME NEW header \in MaxAgeHeaders, Respond(header) PROVE IInv'
  BY <1>3, RespondStep
<1>4. CASE Tick
  BY <1>4, TickStep
<1>7. CASE BodyStalls
  BY <1>7, BodyStallsStep
<1>5. ASSUME NEW c \in Calls, getKey(c) PROVE IInv'
  BY <1>5, getKeyStep
<1>6. ASSUME NEW c \in Calls, Proceeds(c) PROVE IInv'
  BY <1>6, HitStep, MissStep, fetchJwksStep, fetchFailsStep, checkStep, invalidateStep,
     recheckStep
  DEF Proceeds
<1>. QED BY <1>1, <1>2, <1>3, <1>4, <1>5, <1>6, <1>7 DEF Next

(* The result of a call that returns: it was looked up in the call's data, *)
(* or a fetch failed.                                                      *)
LEMMA ResultStep ==
    ASSUME IInv, [Next]_vars, NEW c \in Calls, step[c] # "done", result'[c] \in {"key", "empty"}
    PROVE  /\ data[c] # NoData /\ (result'[c] = "key" <=> wanted[c] \in data[c].keys)
           /\ \/ step[c] = "check" /\ (result'[c] = "empty" => ~shouldAttemptRefresh(data[c]))
              \/ step[c] = "recheck"
<1>1. TypeOK /\ result[c] = "none" BY DEF IInv, DataInv
<1>2. CASE UNCHANGED vars
  BY <1>1, <1>2 DEF vars, callVars
<1>3. ASSUME NEW k \in Keys, Rotate(k) PROVE FALSE
  BY <1>1, <1>3 DEF Rotate, callVars
<1>4. ASSUME NEW header \in MaxAgeHeaders, Respond(header) PROVE FALSE
  BY <1>1, <1>4 DEF Respond, callVars
<1>5. CASE Tick \/ BodyStalls
  BY <1>1, <1>5 DEF Tick, BodyStalls, callVars
<1>6. ASSUME NEW d \in Calls, getKey(d) \/ Hit(d) \/ Miss(d) \/ fetchJwks(d) \/ invalidate(d) PROVE FALSE
  BY <1>1, <1>6 DEF getKey, Hit, Miss, fetchJwks, invalidate
<1>7. ASSUME NEW d \in Calls, fetchFails(d) PROVE FALSE
  BY <1>1, <1>7 DEF TypeOK, fetchFails, Returns
<1>8. ASSUME NEW d \in Calls, check(d) \/ recheck(d)
      PROVE  /\ data[c] # NoData /\ (result'[c] = "key" <=> wanted[c] \in data[c].keys)
             /\ \/ step[c] = "check" /\ (result'[c] = "empty" => ~shouldAttemptRefresh(data[c]))
                \/ step[c] = "recheck"
  <2>1. d = c
    BY <1>1, <1>8 DEF TypeOK, check, recheck, Returns
  <2>2. data[c] # NoData
    BY <1>8, <2>1 DEF IInv, DataInv, check, recheck
  <2>. QED BY <1>1, <1>8, <2>2 DEF TypeOK, check, recheck, Returns
<1>. QED BY <1>2, <1>3, <1>4, <1>5, <1>6, <1>7, <1>8 DEF Next, Proceeds

----------------------------------------------------------------------------
(* IInv is an invariant of the cache.                                      *)
THEOREM Invariance == Spec => []IInv
  BY InitInv, StepInv, PTL DEF Spec

(* Types, for any calls and keys.                                          *)
THEOREM TypeCorrect == Spec => []TypeOK
<1>1. IInv => TypeOK BY DEF IInv
<1>. QED BY <1>1, Invariance, PTL

(* A key that a call is given was published when the call began, or less   *)
(* than the longest age and one fetch before (fetchJwks, JwksExpiry).      *)
THEOREM WithdrawnKeysAreForgotten == Spec => TrustedKeysAreRecent
<1>1. ASSUME IInv, [Next]_vars, NEW c \in Calls, step[c] # "done", result'[c] = "key"
      PROVE  wanted[c] \in published \/ begun[c] <= since[wanted[c]] + LongestAge + FetchTime
  <2>1. TypeOK /\ data[c] # NoData /\ wanted[c] \in data[c].keys
    BY <1>1, ResultStep DEF IInv
  <2>2. data[c] \in JwksData
    BY <2>1 DEF TypeOK
  <2>3. /\ data[c].keys \subseteq Usable /\ data[c].fetchedAt \in Nat
        /\ begun[c] \in Nat /\ since[wanted[c]] \in Nat
    BY <2>1, <2>2 DEF TypeOK, JwksData
  <2>4. /\ Current(data[c].keys, data[c].fetchedAt - FetchTime)
        /\ begun[c] <= data[c].fetchedAt + LongestAge
    BY <1>1, <2>1 DEF IInv, DataInv, Fetched
  <2>. QED BY <2>1, <2>3, <2>4, JwksAssumption, LongestAgeType DEF Current
<1>2. IInv /\ [Next]_vars =>
        [\A c \in Calls :
            step[c] # "done" /\ result'[c] = "key" =>
                \/ wanted[c] \in published
                \/ begun[c] <= since[wanted[c]] + LongestAge + FetchTime]_vars
  BY <1>1
<1>. QED BY <1>2, Invariance, PTL DEF Spec, TrustedKeysAreRecent

(* A usable key that has been published for longer than the refresh        *)
(* interval and one fetch is not missed (getKey), whatever other calls do. *)
THEOREM RotationIsFollowed == Spec => NewKeyIsFound
<1>1. ASSUME IInv, [Next]_vars, NEW c \in Calls, step[c] # "done",
             wanted[c] \in published \cap Usable,
             begun[c] > since[wanted[c]] + MinRefresh + FetchTime,
             result'[c] = "empty"
      PROVE  FALSE
  <2>1. TypeOK /\ data[c] # NoData /\ wanted[c] \notin data[c].keys
    BY <1>1, ResultStep DEF IInv
  <2>2. data[c] \in JwksData
    BY <2>1 DEF TypeOK
  <2>3. /\ data[c].fetchedAt \in Nat /\ now \in Nat
        /\ begun[c] \in Nat /\ since[wanted[c]] \in Nat
    BY <2>1, <2>2 DEF TypeOK, JwksData
  <2>4. CASE step[c] = "check"
    <3>1. now <= data[c].fetchedAt + MinRefresh
      BY <1>1, <2>3, <2>4, ResultStep, JwksAssumption DEF shouldAttemptRefresh
    <3>2. Current(data[c].keys, data[c].fetchedAt - FetchTime) /\ begun[c] <= now
      BY <1>1, <2>1 DEF IInv, DataInv, Fetched
    <3>. QED BY <1>1, <2>1, <2>3, <3>1, <3>2, JwksAssumption DEF Current
  <2>5. CASE step[c] = "recheck"
    <3>1. Current(data[c].keys, begun[c])
      BY <1>1, <2>5 DEF IInv, RereadInv
    <3>. QED BY <1>1, <2>1, <2>3, <3>1, JwksAssumption DEF Current
  <2>. QED BY <1>1, <2>4, <2>5, ResultStep
<1>2. IInv /\ [Next]_vars =>
        [\A c \in Calls :
            LET k == wanted[c] IN
            /\ step[c] # "done"
            /\ k \in published \cap Usable
            /\ begun[c] > since[k] + MinRefresh + FetchTime
            => result'[c] # "empty"]_vars
  BY <1>1
<1>. QED BY <1>2, Invariance, PTL DEF Spec, NewKeyIsFound
=============================================================================
