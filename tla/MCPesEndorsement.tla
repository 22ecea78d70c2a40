-------------------------- MODULE MCPesEndorsement --------------------------
(* Model-checking instances of PesEndorsement: two calls, two publishers,   *)
(* three certificates, of which one expires early.                          *)
EXTENDS PesEndorsement, TLC

CONSTANTS k1, k2, c1, c2, c3, p1, p2, alice, bob, m1, m2, m3

MCCalls2 == {k1, k2}
MCCertificates == {c1, c2, c3}
MCNotAfter == c1 :> 1 @@ c2 :> 2 @@ c3 :> 2
MCPublishers == {p1, p2}
MCIdentities == {alice, bob}
MCMaterials == {m1, m2, m3}
MCPublicKeys == {m1, m2}

\* c1 has the trust domain of the service, c2 another one, and c3 none.
MCTrustDomain == c1 :> "domain" @@ c2 :> "otherDomain" @@ c3 :> NoTrustDomain
MCServiceHosts == {"global", "regional"}
MCAudiences == MCServiceHosts \cup {"domain", "otherDomain", "elsewhere"}

File(p, i, m) ==
    [publisherId |-> p, oidcTokenClaims |-> i, verificationMaterialList |-> m]

MCPolicyFiles == {File(p1, {alice}, {m1, m3}), File(p2, {alice, bob}, {m1, m2})}

OfPublisher(p) == [type |-> "PUBLISHER", annotation |-> p]
Extra(type, text) == [type |-> type, annotation |-> text]

Statement(p) == [json |-> TRUE, type |-> "v1", predicateType |-> "v1", subject |-> <<"sha256">>,
                 claims |-> <<OfPublisher(p)>>, notAfter |-> 1]

Good == [token |-> "valid", audiences |-> {"global"}, identity |-> alice, format |-> "JSON_INTOTO",
         statement |-> Statement(p1), material |-> m1, signature |-> "valid"]

\* The second publisher, with a token for the first certificate's domain, and
\* a statement only the later certificate covers.
Requests2 == {Good,
              [Good EXCEPT !.statement = Statement(p2), !.identity = bob, !.audiences = {"domain"}],
              [Good EXCEPT !.statement.notAfter = 2]}

\* One defect each, or an unusual feature.
Defective ==
    {[Good EXCEPT !.token = t] : t \in {"absent", "invalid", "nullClaim", "blankClaim"}}
    \cup {[Good EXCEPT !.audiences = {"elsewhere"}],
          [Good EXCEPT !.format = "UNRECOGNIZED"],
          [Good EXCEPT !.statement.json = FALSE],
          [Good EXCEPT !.statement.predicateType = "other"],
          [Good EXCEPT !.statement.subject = <<"sha256", "sha256">>],
          [Good EXCEPT !.statement.subject = <<"unsupported">>],
          [Good EXCEPT !.statement.notAfter = 3],
          [Good EXCEPT !.identity = bob],
          [Good EXCEPT !.material = m2],
          [Good EXCEPT !.material = m3],
          [Good EXCEPT !.signature = "invalid"]}
    \cup {[Good EXCEPT !.statement.claims = claims] :
             claims \in {<<>>, <<OfPublisher(p1), OfPublisher(p2)>>,
                        <<OfPublisher(p1), Extra("OPERATOR_ROLES", "id"), Extra("OPERATOR_ROLES", "id")>>,
                        <<OfPublisher(p1), Extra("WORKLOAD", ILL_FORMED)>>,
                        <<OfPublisher(p1), Extra("OTHER", ILL_FORMED)>>}}

AllRequests == Requests2 \cup Defective

\* The calls are alike, so that one of them may be the one without a defect.
MCInit == Init /\ request[k2] \in Requests2

MCFairSpec == MCInit /\ [][Next]_vars /\ Fairness
=============================================================================
