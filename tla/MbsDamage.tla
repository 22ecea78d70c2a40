----------------------------- MODULE MbsDamage ------------------------------
(***************************************************************************)
(* MbsKeyBackup with buckets that lose or garble stored objects: what      *)
(* KeyBackupIncompleteException ("a complete backup was published and has  *)
(* since lost artifacts") and BundleCorruptedException are there for.      *)
(***************************************************************************)
EXTENDS MbsKeyBackup

\* Damage counts as one of the MaxFaults faults.
Damage ==
    /\ Fault
    /\ UNCHANGED <<lock, inflight, localVars, currentCertificate, reloadStatus>>

\* Some of the stored objects disappear.
ObjectsLost(lost) ==
    /\ lost # {} /\ \A a \in lost : s3[a] # None
    /\ s3' = [a \in Artifacts |-> IF a \in lost THEN None ELSE s3[a]]
    /\ UNCHANGED generations
    /\ Damage

\* A stored object turns into one that fits no other.
ObjectGarbled(a) ==
    /\ s3[a] # None
    /\ generations < MaxGenerations
    /\ generations' = generations + 1
    /\ s3' = [s3 EXCEPT ![a] = generations + 1]
    /\ Damage

DamageNext ==
    \/ Next
    \/ \E lost \in SUBSET Artifacts : ObjectsLost(lost)
    \/ \E a \in Artifacts : ObjectGarbled(a)

DamageSpec == Init /\ [][DamageNext]_vars

\* "Previously loaded one still in use": short of a restart, an instance that
\* serves goes on serving, with the same certificate unless storage holds
\* another complete one.
KeepsServing ==
    [][\A i \in Instances :
        Loaded(i) /\ currentCertificate'[i] # currentCertificate[i]
            => \/ reloadStatus'[i] = "UNSET"
               \/ reloadStatus'[i] = "SUCCESS" /\ currentCertificate'[i]["cert"] # None]_vars
=============================================================================
