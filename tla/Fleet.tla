------------------------------- MODULE Fleet --------------------------------
(***************************************************************************)
(* The instances of the service in their two aspects, one per behaviour:   *)
(* the identity that all of them share, or the life of the enclave on one  *)
(* of them.  (What connects the two: CrashRestart of MbsKeyBackup is an    *)
(* enclave that ends and is started again here, Reloaded here is what      *)
(* FleetServes says of MbsKeyBackup.  Both at once would be their          *)
(* product.)                                                               *)
(***************************************************************************)
EXTENDS MbsKeyBackup, EnclaveLife

VARIABLE aspect

fleetVars == <<aspect, vars, lifeVars>>

FleetInit ==
    /\ aspect \in {"identity", "enclave"} /\ Init /\ LifeInit
    /\ aspect = "identity" => \A t \in TagSizes : tag <= t

Identities == aspect = "identity" /\ Next /\ UNCHANGED <<aspect, lifeVars>>
Enclaves == aspect = "enclave" /\ LifeNext /\ UNCHANGED <<aspect, vars>>

(* The scheduler keeps calling runOneIteration and every call returns; a   *)
(* request under way arrives or is lost; the operator acts on a stale lock.*)
IdentityFairness ==
    /\ \A i \in Instances : WF_vars(aspect = "identity" /\ Reload(i))
    /\ WF_vars(aspect = "identity" /\ Operator) /\ WF_vars(aspect = "identity" /\ Late)

(* systemd restarts and kills what it should, the group replaces, the      *)
(* script and main go on, the monitor comes to load a certificate.         *)
EnclaveFairness ==
    /\ WF_lifeVars(aspect = "enclave" /\ Supervised) /\ WF_lifeVars(aspect = "enclave" /\ Replace)
    /\ WF_lifeVars(aspect = "enclave" /\ Watcher) /\ WF_lifeVars(aspect = "enclave" /\ MainRuns)
    /\ WF_lifeVars(aspect = "enclave" /\ MonitorRuns)

FleetSpec == FleetInit /\ [][Identities \/ Enclaves]_fleetVars /\ IdentityFairness /\ EnclaveFairness

(* FleetServes, in the behaviours that are about the identity: with        *)
(* finitely many faults every instance eventually holds a certificate for  *)
(* good (KmsMeasurementBoundCertificateProvider.reloadCertificate, called  *)
(* by the monitor every two minutes).                                      *)
InstancesServe == aspect = "identity" => FleetServes

(* EnclaveComesBack, in the behaviours that are about an enclave.          *)
InstanceComesBack == aspect = "enclave" => EnclaveComesBack
=============================================================================
