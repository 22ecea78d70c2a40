--------------------------- MODULE MCTsaTimestamp ---------------------------
(* An instance of TsaTimestamp for TLC: a trusted authority, one that is   *)
(* not trusted itself but sends the certificate of another one along, and  *)
(* one whose anchor expires early.                                         *)
EXTENDS TsaTimestamp, TLC

CONSTANTS c1, c2, d1, d2, good, mixed, lapsing, a1, a2

Cert(signs, anchor) == [signs |-> signs, anchor |-> anchor, strong |-> TRUE]
Weak == [Cert(TRUE, a1) EXCEPT !.strong = FALSE]

MCCertificates ==
    good :> {Cert(TRUE, a1)}
    @@ mixed :> {Cert(TRUE, NoToken), Cert(FALSE, a1)}
    @@ lapsing :> {Cert(TRUE, a2), Weak}

MCAnchorNotAfter == a1 :> 10 @@ a2 :> 1

Config(enabled, urls) == [enabled |-> enabled, tsaUrls |-> urls]

MCObjects == {Unreadable, Config(TRUE, {good, mixed}), Config(TRUE, {lapsing}),
              Config(TRUE, {good, Invalid})}

MCOffsets == {-2, 1}

CallSymmetry == Permutations(Calls) \cup Permutations(Data)
=============================================================================
