----------------------------- MODULE JwksCache -----------------------------
(***************************************************************************)
(* The cache of the identity provider's signing keys that every call's     *)
(* bearer token is verified with (OidcJwksKeyFetcher.java).  The key set   *)
(* is fetched when it is missing or has expired and, to follow a rotation, *)
(* when a token names a key it lacks and it is older than a minimum age.   *)
(*                                                                         *)
(* The cache is a Caffeine loading cache with one entry: one caller        *)
(* computes a missing value while the others wait, and an invalidation     *)
(* waits for a computation as well.  A key is what is known under its key  *)
(* identifier; time passes in ticks.                                       *)
(***************************************************************************)
EXTENDS Integers

CONSTANTS Calls,            \* calls of getKey
          Keys,             \* the keys the provider may publish
          Usable,           \* those of them that parseKey accepts
          MinRefresh,       \* MIN_REFRESH_INTERVAL
          DefaultMaxAge,    \* DEFAULT_CACHE_DURATION_SECS
          MaxAgeHeaders,    \* max-age of a response; negative if it has none
          FetchTime,        \* the longest a fetch that ends takes
          NoData, NoCall,   \* null
          MaxTime           \* bound: when the clock stops

JwksData == [keys : SUBSET Usable, maxAge : Nat, fetchedAt : Nat]
Responses == [keys : SUBSET Keys, header : MaxAgeHeaders]

(* How long key sets may be kept; max-age is a long, so one is longest.    *)
Ages == {h \in MaxAgeHeaders : h >= 0} \cup {DefaultMaxAge}
LongestAge == CHOOSE a \in Ages : \A b \in Ages : b <= a

ASSUME JwksAssumption ==
    /\ Usable \subseteq Keys
    /\ MinRefresh \in Nat /\ DefaultMaxAge \in Nat /\ FetchTime \in Nat /\ MaxTime \in Nat
    /\ MaxAgeHeaders \subseteq Int /\ \E a \in Ages : \A b \in Ages : b <= a
    /\ NoData \notin JwksData \cup Responses
    /\ NoCall \notin Calls

VARIABLES
    now,
    published,   \* the keys at the provider's JWKS endpoint
    since,       \* since[k]: when k was last published or withdrawn
    cache,       \* the value of the only entry
    expires,     \* when it expires
    loader,      \* the call that is computing the entry
    sentAt,      \* when it sent its request to the provider
    answer,      \* what the provider has answered
    stalled,     \* whether the body of its answer never ends
    step,        \* step[c]: where c is in getKey
    wanted,      \* wanted[c]: the key identifier in its token
    begun,       \* begun[c]: when it was called
    data,        \* data[c]: its local variable
    result       \* result[c]: "none", "key", "empty" or "exception"

providerVars == <<published, since>>
cacheVars == <<cache, expires, loader, sentAt, answer, stalled>>
callVars == <<step, wanted, begun, data, result>>
vars == <<now, providerVars, cacheVars, callVars>>

Steps == {"new", "get", "load", "check", "invalidate", "reget", "reload", "recheck", "done"}

TypeOK ==
    /\ now \in Nat
    /\ published \subseteq Keys
    /\ since \in [Keys -> Nat]
    /\ cache \in JwksData \cup {NoData}
    /\ expires \in Nat
    /\ loader \in Calls \cup {NoCall}
    /\ sentAt \in Nat
    /\ answer \in Responses \cup {NoData}
    /\ stalled \in BOOLEAN
    /\ step \in [Calls -> Steps]
    /\ wanted \in [Calls -> Keys]
    /\ begun \in [Calls -> Nat]
    /\ data \in [Calls -> JwksData \cup {NoData}]
    /\ result \in [Calls -> {"none", "key", "empty", "exception"}]

Init ==
    /\ now = 0
    /\ published \in SUBSET Keys
    /\ since = [k \in Keys |-> 0]
    /\ cache = NoData
    /\ expires = 0
    /\ loader = NoCall
    /\ sentAt = 0
    /\ answer = NoData
    /\ stalled = FALSE
    /\ step = [c \in Calls |-> "new"]
    /\ wanted \in [Calls -> Keys]
    /\ begun = [c \in Calls |-> 0]
    /\ data = [c \in Calls |-> NoData]
    /\ result = [c \in Calls |-> "none"]

----------------------------------------------------------------------------
(* The provider and the clock.                                             *)

Rotate(k) ==
    /\ published' = IF k \in published THEN published \ {k} ELSE published \cup {k}
    /\ since' = [since EXCEPT ![k] = now]
    /\ UNCHANGED <<now, cacheVars, callVars>>

Respond(header) ==
    /\ loader # NoCall
    /\ answer = NoData
    /\ answer' = [keys |-> published, header |-> header]
    /\ UNCHANGED <<now, providerVars, cache, expires, loader, sentAt, stalled, callVars>>

(* The time limit of the request ends with the headers of the response.    *)
BodyStalls ==
    /\ loader # NoCall
    /\ stalled' = TRUE
    /\ UNCHANGED <<now, providerVars, cache, expires, loader, sentAt, answer, callVars>>

(* A fetch is answered, or times out, in FetchTime, unless it stalls.      *)
Tick ==
    /\ now < MaxTime
    /\ loader # NoCall /\ ~stalled => now < sentAt + FetchTime
    /\ now' = now + 1
    /\ UNCHANGED <<providerVars, cacheVars, callVars>>

----------------------------------------------------------------------------
(* getKey.                                                                 *)

Moves(c, from, to) == step[c] = from /\ step' = [step EXCEPT ![c] = to]

Returns(c, res) ==
    /\ step' = [step EXCEPT ![c] = "done"]
    /\ result' = [result EXCEPT ![c] = res]
    /\ data' = [data EXCEPT ![c] = NoData]
    /\ begun' = [begun EXCEPT ![c] = 0]

getKey(c) ==
    /\ Moves(c, "new", "get")
    /\ begun' = [begun EXCEPT ![c] = now]
    /\ UNCHANGED <<now, providerVars, cacheVars, wanted, data, result>>

expireAfterCreate_Millis(d) == now + 1000 * d.maxAge       \* mutant: the wrong unit

expireAfterCreate(d) == now + d.maxAge

expireAfterRead(d, current) == current

(* cache.get finds an entry that has not expired, ...                      *)
Hit(c) ==
    /\ loader = NoCall
    /\ cache # NoData /\ now < expires
    /\ expires' = expireAfterRead(cache, expires)
    /\ data' = [data EXCEPT ![c] = cache]
    /\ Moves(c, "get", "check") \/ Moves(c, "reget", "recheck")
    /\ UNCHANGED <<now, providerVars, cache, loader, sentAt, answer, stalled, wanted, begun, result>>

(* ... or starts to compute it with fetchJwks: the request is sent.        *)
Miss(c) ==
    /\ loader = NoCall
    /\ cache = NoData \/ now >= expires
    /\ loader' = c
    /\ sentAt' = now
    /\ answer' = NoData
    /\ Moves(c, "get", "load") \/ Moves(c, "reget", "reload")
    /\ UNCHANGED <<now, providerVars, cache, expires, stalled, wanted, begun, data, result>>

getMaxAgeSecs(header) == IF header >= 0 THEN header ELSE DefaultMaxAge

parseKeys(keys) == keys \cap Usable

(* The computation is over; those who wait for the entry go on.            *)
Ends == loader' = NoCall /\ sentAt' = 0 /\ answer' = NoData

(* fetchJwks has its answer: the data is stored and handed to the call.    *)
fetchJwks(c) ==
    LET new == [keys |-> parseKeys(answer.keys),
                maxAge |-> getMaxAgeSecs(answer.header),
                fetchedAt |-> now] IN
    /\ loader = c
    /\ answer # NoData
    /\ ~stalled
    /\ cache' = new
    /\ expires' = expireAfterCreate(new)
    /\ data' = [data EXCEPT ![c] = new]
    /\ Ends
    /\ Moves(c, "load", "check") \/ Moves(c, "reload", "recheck")
    /\ UNCHANGED <<now, providerVars, stalled, wanted, begun, result>>

fetchFails_KeepsLock(c) ==                 \* mutant: the others wait for ever
    /\ loader = c
    /\ step[c] \in {"load", "reload"}
    /\ Returns(c, "exception")
    /\ UNCHANGED <<now, providerVars, cacheVars, wanted>>

(* fetchJwks fails or times out: the exception reaches the caller of       *)
(* cache.get, and nothing is stored.                                       *)
fetchFails(c) ==
    /\ loader = c
    /\ ~stalled
    /\ Ends
    /\ Returns(c, "exception")
    /\ UNCHANGED <<now, providerVars, cache, expires, stalled, wanted>>

shouldAttemptRefresh(d) == now > d.fetchedAt + MinRefresh

(* The key is looked up in the data; if it is not there, and the data is   *)
(* old, the entry is going to be invalidated.                              *)
check(c) ==
    /\ step[c] = "check"
    /\ \/ wanted[c] \in data[c].keys /\ Returns(c, "key")
       \/ /\ wanted[c] \notin data[c].keys
          /\ shouldAttemptRefresh(data[c])
          /\ Moves(c, "check", "invalidate")
          /\ UNCHANGED <<begun, data, result>>
       \/ /\ wanted[c] \notin data[c].keys
          /\ ~shouldAttemptRefresh(data[c])
          /\ Returns(c, "empty")
    /\ UNCHANGED <<now, providerVars, cacheVars, wanted>>

invalidate_Forgotten(c) ==                 \* mutant: the old entry is read again
    /\ Moves(c, "invalidate", "reget")
    /\ data' = [data EXCEPT ![c] = NoData]
    /\ UNCHANGED <<now, providerVars, cacheVars, wanted, begun, result>>

(* invalidate removes whatever the entry is by now.                        *)
invalidate(c) ==
    /\ loader = NoCall
    /\ Moves(c, "invalidate", "reget")
    /\ cache' = NoData
    /\ expires' = 0
    /\ data' = [data EXCEPT ![c] = NoData]
    /\ UNCHANGED <<now, providerVars, loader, sentAt, answer, stalled, wanted, begun, result>>

recheck(c) ==
    /\ step[c] = "recheck"
    /\ Returns(c, IF wanted[c] \in data[c].keys THEN "key" ELSE "empty")
    /\ UNCHANGED <<now, providerVars, cacheVars, wanted>>

----------------------------------------------------------------------------
Proceeds(c) ==
    Hit(c) \/ Miss(c) \/ fetchJwks(c) \/ fetchFails(c) \/ check(c) \/ invalidate(c) \/ recheck(c)

Next ==
    \/ \E k \in Keys : Rotate(k)
    \/ \E header \in MaxAgeHeaders : Respond(header)
    \/ BodyStalls
    \/ Tick
    \/ \E c \in Calls : getKey(c) \/ Proceeds(c)

Spec == Init /\ [][Next]_vars

(* Every call runs in a thread of its own; a fetch whose headers do not    *)
(* come times out, and one whose body comes ends.                          *)
FairSpec == Spec /\ \A c \in Calls : WF_vars(Proceeds(c))

----------------------------------------------------------------------------
(* Properties.                                                             *)

(* A withdrawn key is trusted no longer than the provider allowed: a key   *)
(* that a call is given was still published when the call began, or less   *)
(* than one maximal age and one fetch before - although other calls read,  *)
(* replace and invalidate the entry meanwhile (JwksExpiry, fetchJwks).     *)
TrustedKeysAreRecent ==
    [][\A c \in Calls :
          step[c] # "done" /\ result'[c] = "key" =>
              \/ wanted[c] \in published
              \/ begun[c] <= since[wanted[c]] + LongestAge + FetchTime]_vars

(* A rotation is followed: a key that was published when the call began,   *)
(* for longer than the refresh interval and one fetch, and still is, is    *)
(* found, unless a fetch fails - whatever other calls do to the entry      *)
(* between this call's reads of it ("to handle potential key rotation      *)
(* before natural expiry", OidcJwksKeyFetcher.java:108).                   *)
NewKeyIsFound ==
    [][\A c \in Calls :
          LET k == wanted[c] IN
          /\ step[c] # "done"
          /\ k \in published \cap Usable
          /\ begun[c] > since[k] + MinRefresh + FetchTime
          => result'[c] # "empty"]_vars

(* No call waits for ever for another call's fetch, unless the body of a   *)
(* response never ends: no time limit covers it, and it is read under the  *)
(* lock of the cache's entry (fetchJwks, called by cache.get).             *)
EveryCallReturns == \A c \in Calls : step[c] = "get" ~> step[c] = "done" \/ stalled

----------------------------------------------------------------------------
(* The inductive invariant of JwksCacheProofs.                             *)

(* A set of keys is what is published, but for changes since a time.       *)
Current(keys, time) ==
    \A k \in Usable : (k \in keys <=> k \in published) \/ since[k] >= time

(* A fetch belongs to one call and takes at most FetchTime; its answer     *)
(* was current after the request was sent.                                 *)
FetchInv ==
    /\ \A c \in Calls : step[c] \in {"load", "reload"} <=> loader = c
    /\ loader # NoCall => sentAt <= now
    /\ loader # NoCall /\ ~stalled => now <= sentAt + FetchTime
    /\ stalled => loader # NoCall
    /\ answer # NoData => loader # NoCall /\ Current(answer.keys, sentAt)

(* A key set was current up to one fetch before it arrived.                *)
Fetched(d) == d.fetchedAt <= now /\ Current(d.keys, d.fetchedAt - FetchTime)

CacheInv == cache # NoData => Fetched(cache) /\ expires <= cache.fetchedAt + LongestAge

(* The key set a call works with had not expired when the call began.      *)
DataInv ==
    \A c \in Calls :
        /\ begun[c] <= now
        /\ step[c] # "done" => result[c] = "none"
        /\ step[c] = "new" => data[c] = NoData
        /\ step[c] \in {"check", "recheck"} => data[c] # NoData
        /\ data[c] # NoData => Fetched(data[c]) /\ begun[c] <= data[c].fetchedAt + LongestAge

(* After its invalidation a call meets only what was requested since it    *)
(* began: there was no fetch under way when the entry was removed.         *)
RereadInv ==
    \A c \in Calls :
        /\ step[c] = "reget" /\ cache # NoData => Current(cache.keys, begun[c])
        /\ step[c] \in {"reget", "reload"} /\ loader # NoCall => begun[c] <= sentAt
        /\ step[c] = "recheck" => Current(data[c].keys, begun[c])

IInv == TypeOK /\ FetchInv /\ CacheInv /\ DataInv /\ RereadInv
=============================================================================
