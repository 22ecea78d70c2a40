---------------------------- MODULE MbsIdentity -----------------------------
(***************************************************************************)
(* What the key backup protocol promises the fleet: at most one root       *)
(* identity is ever published, and an instance either has no certificate   *)
(* or the published one.  How instances race for the lock, and how they    *)
(* read and write four objects, is left to MbsKeyBackup.                   *)
(***************************************************************************)
EXTENDS Naturals

CONSTANTS Instances

VARIABLES
    identity,   \* the published generation, 0 before the first
    view        \* the generation each instance serves with, 0 for none

identityVars == <<identity, view>>

Init ==
    /\ identity = 0
    /\ view = [i \in Instances |-> 0]

\* The first complete backup becomes the identity of the fleet.
Publish ==
    /\ identity = 0
    /\ identity' \in Nat \ {0}
    /\ UNCHANGED view

\* An instance loads the published identity.
Adopt(i) ==
    /\ identity # 0
    /\ view' = [view EXCEPT ![i] = identity]
    /\ UNCHANGED identity

\* A restart loses what was in memory.
Forget(i) ==
    /\ view' = [view EXCEPT ![i] = 0]
    /\ UNCHANGED identity

Next == Publish \/ \E i \in Instances : Adopt(i) \/ Forget(i)

Spec == Init /\ [][Next]_identityVars
=============================================================================
