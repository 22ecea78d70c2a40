--------------------------- MODULE MCDevkitImages ---------------------------
EXTENDS DevkitImages, TLC

CONSTANTS s1, s2, c1, c2, base, env, k1, k2, k3

(* Two sessions, each in a checkout of its own.                            *)
TwoCheckouts == s1 :> c1 @@ s2 :> c2

(* An image based on another one, as build-env on tool-env.                *)
OneBase == base :> {} @@ env :> {base}

(* k1 and k2 have the same registry and namespace and differ in the extra  *)
(* packages of env; k3 has no registry and a namespace of its own.         *)
Spaces == k1 :> "a" @@ k2 :> "a" @@ k3 :> "b" @@ Invalid :> "devkit"
Extras == k1 :> (base :> "none" @@ env :> "none")
       @@ k2 :> (base :> "none" @@ env :> "jre")
       @@ k3 :> (base :> "none" @@ env :> "none")

(* A command in a container; its image alone, if need be or built anew.    *)
RunOrBuild == {BuildRun} \cup [noCache : BOOLEAN, local : {FALSE}, run : {FALSE}]

(* At first every Dockerfile has the same text, and the checkouts agree or *)
(* have nothing in common; the one whose files do not change has a         *)
(* registry.                                                               *)
MCInit == Init /\ config[c1] = k1 /\ config[c2] # k2 /\ \A c \in Checkouts, i \in Images : text[c][i] = 1

MCSpec == MCInit /\ [][Next]_vars
=============================================================================
