---------------------------- MODULE MbsKeyBackup ----------------------------
(***************************************************************************)
(* The measurement-bound root identity of a fleet of service instances.    *)
(*                                                                         *)
(* Every instance runs MeasurementBoundCertificateMonitor, which calls     *)
(* KmsMeasurementBoundCertificateProvider.reloadCertificate on a timer: it *)
(* generates the key backup if storage holds none, under a lock that is an *)
(* S3 object created with If-None-Match: *, and then loads whatever        *)
(* storage holds.  S3KeyBackupStorage keeps the backup as four objects     *)
(* that are read and written one request at a time, so instances interleave*)
(* between any two requests.                                               *)
(*                                                                         *)
(* A stored object is represented by the number of the generation that     *)
(* produced it: two objects fit together (the data key opens the private   *)
(* key, the private key matches the certificate, the attestation document  *)
(* attests it) exactly when their numbers are equal.                       *)
(***************************************************************************)
EXTENDS Naturals, FiniteSets

CONSTANTS
    Instances,       \* the service instances that share the buckets
    NoLock,          \* the lock object is absent
    MaxGenerations,  \* bound: how often key material may be generated
    MaxFaults        \* bound: failed, repeated or late requests and crashes

ASSUME ConstantsAssumption ==
    /\ NoLock \notin Instances
    /\ MaxGenerations \in Nat
    /\ MaxFaults \in Nat

Artifacts == {"aesEncryptedPrivateKey", "kmsEncryptedDataKey", "attestationDoc", "cert"}

\* Mutant: the certificate is written first.
WriteOrder_CertFirst ==
    <<"cert", "aesEncryptedPrivateKey", "kmsEncryptedDataKey", "attestationDoc">>

\* putKeyBackup: the certificate is written last, as the completion sentinel.
WriteOrder == <<"aesEncryptedPrivateKey", "kmsEncryptedDataKey", "attestationDoc", "cert">>

\* getKeyBackup: the certificate is read first.
ReadOrder == <<"cert", "kmsEncryptedDataKey", "aesEncryptedPrivateKey", "attestationDoc">>

ArtifactCount == 4

None == 0                           \* no object under the artifact's key
Generations == Nat \ {None}
Stored == Nat                       \* a generation number, or None
KeyBackups == [Artifacts -> Stored]
NoBackup == [a \in Artifacts |-> None]

\* Requests that change the buckets.
PutRequests == [op : {"put"}, artifact : Artifacts, gen : Generations]
LockRequests == [op : {"lock"}, by : Instances]
UnlockRequests == {[op |-> "unlock"]}
Requests == PutRequests \cup LockRequests \cup UnlockRequests

VARIABLES
    s3,                 \* the four backup objects
    lock,               \* content of the lock object: the instance that wrote it
    inflight,           \* requests the client gave up on, or repeated, that S3 may still apply
    pc,                 \* where each instance is in reloadCertificate
    step,               \* which of the four objects it reads or writes next
    got,                \* what getKeyBackup has read so far
    mine,               \* the generation being stored by generateAndStoreKeyBackup
    retried,            \* the one retry of a transient state has been spent
    currentCertificate, \* the bundle in memory, NoBackup before the first load
    reloadStatus,       \* the gauge set by runOneIteration
    generations,        \* how many generations have been produced
    faults              \* how many faults have happened

bucketVars == <<s3, lock, inflight>>
localVars == <<pc, step, got, mine, retried>>
vars == <<s3, lock, inflight, pc, step, got, mine, retried,
          currentCertificate, reloadStatus, generations, faults>>

Reading == {"exists", "recheck", "load"}
Phases == Reading \cup {"idle", "backoff", "acquire", "generate", "put", "release"}

\* The phases between a successful acquireLock and the return of releaseLock.
Locked == {"recheck", "generate", "put", "release"}

TypeOK ==
    /\ s3 \in KeyBackups
    /\ lock \in Instances \cup {NoLock}
    /\ inflight \subseteq Requests
    /\ pc \in [Instances -> Phases]
    /\ step \in [Instances -> 1 .. ArtifactCount + 1]
    /\ got \in [Instances -> KeyBackups]
    /\ mine \in [Instances -> Stored]
    /\ retried \in [Instances -> BOOLEAN]
    /\ currentCertificate \in [Instances -> KeyBackups]
    /\ reloadStatus \in [Instances -> {"UNSET", "SUCCESS", "FAILURE"}]
    /\ generations \in Nat
    /\ faults \in Nat

Init ==
    /\ s3 = NoBackup
    /\ lock = NoLock
    /\ inflight = {}
    /\ pc = [i \in Instances |-> "idle"]
    /\ step = [i \in Instances |-> 1]
    /\ got = [i \in Instances |-> NoBackup]
    /\ mine = [i \in Instances |-> None]
    /\ retried = [i \in Instances |-> FALSE]
    /\ currentCertificate = [i \in Instances |-> NoBackup]
    /\ reloadStatus = [i \in Instances |-> "UNSET"]
    /\ generations = 0
    /\ faults = 0

-----------------------------------------------------------------------------
(* Control inside one instance.                                            *)

\* Enter a phase with fresh cursors; what was read or generated is dropped.
Goto(i, phase) ==
    /\ pc' = [pc EXCEPT ![i] = phase]
    /\ step' = [step EXCEPT ![i] = 1]
    /\ got' = [got EXCEPT ![i] = NoBackup]
    /\ mine' = [mine EXCEPT ![i] = None]
    /\ UNCHANGED retried

\* reloadCertificate rethrows, runOneIteration swallows: the loaded
\* certificate stays in use, a lock taken on the way stays behind.
Fail(i) ==
    /\ Goto(i, "idle")
    /\ reloadStatus' = [reloadStatus EXCEPT ![i] = "FAILURE"]

\* StorageAlreadyLocked and KeyBackupPartiallyWritten are retried once.
FailTransient(i) ==
    IF retried[i]
    THEN Fail(i)
    ELSE /\ pc' = [pc EXCEPT ![i] = "backoff"]
         /\ retried' = [retried EXCEPT ![i] = TRUE]
         /\ step' = [step EXCEPT ![i] = 1]
         /\ got' = [got EXCEPT ![i] = NoBackup]
         /\ mine' = [mine EXCEPT ![i] = None]
         /\ UNCHANGED reloadStatus

Fault ==
    /\ faults < MaxFaults
    /\ faults' = faults + 1

-----------------------------------------------------------------------------
(* S3 requests.                                                            *)

\* Mutant: the lock is written without If-None-Match.
Apply_LockOverwrites(r) ==
    /\ s3' = IF r.op = "put" THEN [s3 EXCEPT ![r.artifact] = r.gen] ELSE s3
    /\ lock' = IF r.op = "lock" THEN r.by
               ELSE IF r.op = "unlock" THEN NoLock ELSE lock

\* What S3 does when a request reaches it: puts of artifacts overwrite, the
\* lock is only created if absent, the delete succeeds whoever owns the lock.
Apply(r) ==
    /\ s3' = IF r.op = "put" THEN [s3 EXCEPT ![r.artifact] = r.gen] ELSE s3
    /\ lock' = IF r.op = "lock" /\ lock = NoLock THEN r.by
               ELSE IF r.op = "unlock" THEN NoLock ELSE lock

\* The request is applied and answered.
Answered(r) ==
    /\ Apply(r)
    /\ UNCHANGED <<inflight, faults>>

\* The SDK repeats a request that was slow: one copy is applied and answered,
\* another is still under way.
AnsweredTwice(r) ==
    /\ Fault
    /\ Apply(r)
    /\ inflight' = inflight \cup {r}

\* The client sees an SdkException: the request was never applied, or it was
\* and the answer is lost, or it is still under way.
Unanswered(r) ==
    /\ Fault
    /\ \/ UNCHANGED bucketVars
       \/ Apply(r) /\ UNCHANGED inflight
       \/ inflight' = inflight \cup {r} /\ UNCHANGED <<s3, lock>>

\* A request that was still under way arrives, or is lost for good.
LateArrival(r) ==
    /\ r \in inflight
    /\ Apply(r)
    /\ inflight' = inflight \ {r}
    /\ UNCHANGED <<localVars, currentCertificate, reloadStatus, generations, faults>>

LateLoss(r) ==
    /\ r \in inflight
    /\ inflight' = inflight \ {r}
    /\ UNCHANGED <<s3, lock, localVars, currentCertificate, reloadStatus, generations, faults>>

-----------------------------------------------------------------------------
(* MeasurementBoundCertificateMonitor and reloadCertificate.               *)

\* Mutant: an exception that leaves runOneIteration ends the schedule.
StartReload_StopsAfterFailure(i) ==
    /\ pc[i] = "idle"
    /\ reloadStatus[i] # "FAILURE"
    /\ pc' = [pc EXCEPT ![i] = "exists"]
    /\ retried' = [retried EXCEPT ![i] = FALSE]
    /\ UNCHANGED <<bucketVars, step, got, mine, currentCertificate, reloadStatus,
                   generations, faults>>

StartReload(i) ==
    /\ pc[i] = "idle"
    /\ pc' = [pc EXCEPT ![i] = "exists"]
    /\ retried' = [retried EXCEPT ![i] = FALSE]
    /\ UNCHANGED <<bucketVars, step, got, mine, currentCertificate, reloadStatus,
                   generations, faults>>

RetryAfterBackoff(i) ==
    /\ pc[i] = "backoff"
    /\ Goto(i, "exists")
    /\ UNCHANGED <<bucketVars, currentCertificate, reloadStatus, generations, faults>>

\* One getObject of getKeyBackup.
tryGetS3Object(i) ==
    /\ pc[i] \in Reading
    /\ step[i] <= ArtifactCount
    /\ got' = [got EXCEPT ![i][ReadOrder[step[i]]] = s3[ReadOrder[step[i]]]]
    /\ step' = [step EXCEPT ![i] = @ + 1]
    /\ UNCHANGED <<bucketVars, pc, mine, retried, currentCertificate, reloadStatus,
                   generations, faults>>

FetchFails(i) ==
    /\ pc[i] \in Reading
    /\ step[i] <= ArtifactCount
    /\ Fault
    /\ Fail(i)
    /\ UNCHANGED <<bucketVars, currentCertificate, generations>>

\* How getKeyBackup judges what it has read.
Missing(backup) == {a \in Artifacts : backup[a] = None}

\* Mutant: a missing certificate alone counts as an absent backup.
NotFound_CertOnly(backup) == backup["cert"] = None

NotFound(backup) == Missing(backup) = Artifacts

PartiallyWritten(backup) == backup["cert"] = None /\ ~NotFound(backup)

Incomplete(backup) == backup["cert"] # None /\ Missing(backup) # {}

Found(backup) == Missing(backup) = {}

\* All four objects have been asked for.
GetReturns(i) ==
    /\ pc[i] \in Reading
    /\ step[i] = ArtifactCount + 1

\* keyBackupExists returns true: nothing to generate.
BackupExists(i) ==
    /\ GetReturns(i)
    /\ Found(got[i])
    /\ \/ pc[i] = "exists" /\ Goto(i, "load")
       \/ pc[i] = "recheck" /\ Goto(i, "release")
    /\ UNCHANGED <<bucketVars, currentCertificate, reloadStatus, generations, faults>>

\* keyBackupExists returns false: lock first, generate only if it is still
\* false under the lock.
BackupAbsent(i) ==
    /\ GetReturns(i)
    /\ NotFound(got[i])
    /\ \/ pc[i] = "exists" /\ Goto(i, "acquire")
       \/ pc[i] = "recheck" /\ Goto(i, "generate")
    /\ UNCHANGED <<bucketVars, currentCertificate, reloadStatus, generations, faults>>

BackupPartiallyWritten(i) ==
    /\ GetReturns(i)
    /\ PartiallyWritten(got[i])
    /\ FailTransient(i)
    /\ UNCHANGED <<bucketVars, currentCertificate, generations, faults>>

\* Mutant: an unusable backup unloads the certificate in use.
BackupUnusable_Unloads(i) ==
    /\ GetReturns(i)
    /\ \/ Incomplete(got[i])
       \/ NotFound(got[i]) /\ pc[i] = "load"
    /\ Fail(i)
    /\ currentCertificate' = [currentCertificate EXCEPT ![i] = NoBackup]
    /\ UNCHANGED <<bucketVars, generations, faults>>

\* KeyBackupIncomplete anywhere, KeyBackupNotFound while loading: not retried.
BackupUnusable(i) ==
    /\ GetReturns(i)
    /\ \/ Incomplete(got[i])
       \/ NotFound(got[i]) /\ pc[i] = "load"
    /\ Fail(i)
    /\ UNCHANGED <<bucketVars, currentCertificate, generations, faults>>

\* Mutant: the existence check is not repeated under the lock.
PhaseUnderLock_NoRecheck == "generate"

\* What follows a successful acquireLock in generateMissingKeyBackup.
PhaseUnderLock == "recheck"

\* acquireLock.  A 412 is StorageAlreadyLocked, whoever wrote the lock.
acquireLock(i) ==
    /\ pc[i] = "acquire"
    /\ LET r == [op |-> "lock", by |-> i] IN
       \/ /\ lock = NoLock
          /\ Answered(r) \/ AnsweredTwice(r)
          /\ Goto(i, PhaseUnderLock)
          /\ UNCHANGED reloadStatus
       \/ /\ lock # NoLock
          /\ FailTransient(i)
          /\ UNCHANGED <<bucketVars, faults>>
       \/ /\ lock = NoLock  \* applied, answer lost, and the SDK's own retry meets a 412
          /\ Fault
          /\ Apply(r)
          /\ FailTransient(i)
          /\ UNCHANGED inflight
       \/ /\ Unanswered(r)
          /\ Fail(i)
    /\ UNCHANGED <<currentCertificate, generations>>

\* What the certificate factory makes: a key pair nobody has had before, and
\* a certificate for it.
FreshCertificate == generations + 1

\* generateAndStoreKeyBackup up to putKeyBackup: the attestation document is
\* bound to the fresh key, the data key is fresh and encrypts the private key.
GenerateKeyBackup(i) ==
    /\ pc[i] = "generate"
    /\ generations < MaxGenerations
    /\ generations' = FreshCertificate
    /\ mine' = [mine EXCEPT ![i] = FreshCertificate]
    /\ pc' = [pc EXCEPT ![i] = "put"]
    /\ UNCHANGED <<bucketVars, step, got, retried, currentCertificate, reloadStatus, faults>>

\* The certificate factory, the security module or KMS fails.
GenerateFails(i) ==
    /\ pc[i] = "generate"
    /\ Fault
    /\ Fail(i)
    /\ UNCHANGED <<bucketVars, currentCertificate, generations>>

\* One putObject of putKeyBackup.
putS3Object(i) ==
    /\ pc[i] = "put"
    /\ LET r == [op |-> "put", artifact |-> WriteOrder[step[i]], gen |-> mine[i]] IN
       \/ /\ Answered(r) \/ AnsweredTwice(r)
          /\ IF step[i] < ArtifactCount
             THEN /\ step' = [step EXCEPT ![i] = @ + 1]
                  /\ UNCHANGED <<pc, got, mine, retried>>
             ELSE Goto(i, "release")
          /\ UNCHANGED reloadStatus
       \/ /\ Unanswered(r)
          /\ Fail(i)
    /\ UNCHANGED <<currentCertificate, generations>>

releaseLock(i) ==
    /\ pc[i] = "release"
    /\ LET r == [op |-> "unlock"] IN
       \/ /\ Answered(r) \/ AnsweredTwice(r)
          /\ Goto(i, "load")
          /\ UNCHANGED reloadStatus
       \/ /\ Unanswered(r)
          /\ Fail(i)
    /\ UNCHANGED <<currentCertificate, generations>>

\* toMeasurementBoundCertificate: the data key must open the private key and
\* the private key must match the certificate; the document is only parsed.
KeyMaterialConsistent(backup) ==
    /\ backup["aesEncryptedPrivateKey"] = backup["kmsEncryptedDataKey"]
    /\ backup["aesEncryptedPrivateKey"] = backup["cert"]

\* The security module or KMS refuses: the data key stays closed.
DecryptFails(i) == Fault /\ Fail(i)

loadExistingKeyBackup(i) ==
    /\ pc[i] = "load"
    /\ GetReturns(i)
    /\ Found(got[i])
    /\ \/ /\ KeyMaterialConsistent(got[i])
          /\ currentCertificate' = [currentCertificate EXCEPT ![i] = got[i]]
          /\ reloadStatus' = [reloadStatus EXCEPT ![i] = "SUCCESS"]
          /\ Goto(i, "idle")
          /\ UNCHANGED faults
       \/ /\ ~KeyMaterialConsistent(got[i])
          /\ Fail(i)
          /\ UNCHANGED <<currentCertificate, faults>>
       \/ /\ DecryptFails(i)
          /\ UNCHANGED currentCertificate
    /\ UNCHANGED <<bucketVars, generations>>

-----------------------------------------------------------------------------
(* The environment: crashes, and the operator the code relies on.          *)

\* The process dies and is started again; only the buckets survive.
CrashRestart(i) ==
    /\ Fault
    /\ pc' = [pc EXCEPT ![i] = "idle"]
    /\ step' = [step EXCEPT ![i] = 1]
    /\ got' = [got EXCEPT ![i] = NoBackup]
    /\ mine' = [mine EXCEPT ![i] = None]
    /\ retried' = [retried EXCEPT ![i] = FALSE]
    /\ currentCertificate' = [currentCertificate EXCEPT ![i] = NoBackup]
    /\ reloadStatus' = [reloadStatus EXCEPT ![i] = "UNSET"]
    /\ UNCHANGED <<bucketVars, generations>>

\* What "an operator has investigated" has to establish: the instance named
\* in the lock is no longer at work under it, and none of its writes is
\* still under way.
Investigated ==
    /\ lock # NoLock
    /\ pc[lock] \notin Locked
    /\ inflight \cap PutRequests = {}

\* The operator deletes what an unfinished generation left, then the lock.
OperatorRemovesLeftover(a) ==
    /\ Investigated
    /\ s3["cert"] = None
    /\ s3[a] # None
    /\ s3' = [s3 EXCEPT ![a] = None]
    /\ UNCHANGED <<lock, inflight, localVars, currentCertificate, reloadStatus,
                   generations, faults>>

OperatorRemovesLock ==
    /\ Investigated
    /\ s3["cert"] # None \/ s3 = NoBackup
    /\ lock' = NoLock
    /\ UNCHANGED <<s3, inflight, localVars, currentCertificate, reloadStatus,
                   generations, faults>>

-----------------------------------------------------------------------------
Reload(i) ==
    \/ StartReload(i)
    \/ RetryAfterBackoff(i)
    \/ tryGetS3Object(i)
    \/ BackupExists(i)
    \/ BackupAbsent(i)
    \/ BackupPartiallyWritten(i)
    \/ BackupUnusable(i)
    \/ acquireLock(i)
    \/ GenerateKeyBackup(i)
    \/ putS3Object(i)
    \/ releaseLock(i)
    \/ loadExistingKeyBackup(i)

Environment(i) == FetchFails(i) \/ GenerateFails(i) \/ CrashRestart(i)

Operator == OperatorRemovesLock \/ \E a \in Artifacts : OperatorRemovesLeftover(a)

Late == \E r \in inflight : LateArrival(r) \/ LateLoss(r)

Next ==
    \/ \E i \in Instances : Reload(i) \/ Environment(i)
    \/ Operator
    \/ Late

Spec == Init /\ [][Next]_vars

-----------------------------------------------------------------------------
(* Properties.                                                             *)

\* A bundle: four objects of one generation.
Whole(backup) == \A a \in Artifacts : backup[a] = backup["cert"]

Loaded(i) == currentCertificate[i] # NoBackup

\* The certificate is the completion sentinel (getKeyBackup, putKeyBackup):
\* once it is in the bucket, all four objects are there and belong together.
SentinelComplete == s3["cert"] # None => Whole(s3)

\* generateMissingKeyBackup only generates when there is nothing to lose: no
\* object in the buckets, and no earlier write that could still arrive.
GeneratesOnPristineStorage ==
    \A i \in Instances :
        pc[i] = "generate" => s3 = NoBackup /\ inflight \cap PutRequests = {}

\* What a failed or crashed generation left behind stays under a lock, so
\* that nobody generates over it before the operator has looked.
LeftoversStayLocked ==
    s3["cert"] = None /\ (s3 # NoBackup \/ inflight \cap PutRequests # {})
        => lock # NoLock

\* What is in the buckets is either a whole backup or under a lock: whatever
\* happens to the puts, nobody takes a part for the whole or for nothing.
StoredIsWholeOrLocked == SentinelComplete /\ LeftoversStayLocked

\* Every instance that has loaded a certificate has the published bundle,
\* whole: certificate, key and attestation document of one generation, the
\* same on every instance.
LoadedIsPublished == \A i \in Instances : Loaded(i) => currentCertificate[i] = s3

\* The SUCCESS gauge of runOneIteration means the instance can serve with
\* the published identity.
GaugeHonest ==
    \A i \in Instances :
        reloadStatus[i] = "SUCCESS" => Loaded(i) /\ currentCertificate[i] = s3

\* Once the certificate is published no step changes any of the objects.
PublishedOnce == [][s3["cert"] # None => s3' = s3]_vars

\* The fleet ends up serving: with finitely many faults, every instance
\* eventually holds a certificate for good.
FleetServes == <>[](\A i \in Instances : Loaded(i))

\* The fleet implements MbsIdentity: the identity is the published
\* certificate, an instance's view is the certificate it has loaded.
Identity == INSTANCE MbsIdentity WITH
    identity <- s3["cert"],
    view <- [i \in Instances |-> currentCertificate[i]["cert"]]

\* One identity for the fleet, published once, adopted or forgotten by the
\* instances and never replaced.
ImplementsIdentity == Identity!Spec

-----------------------------------------------------------------------------
(* The inductive invariant.                                                *)

PutsInFlight == inflight \cap PutRequests

Pristine == s3 = NoBackup /\ PutsInFlight = {}

\* While nothing is published the lock protects whoever is under it, and
\* whoever has checked under it found, and still finds, nothing at all.
LockHeld ==
    \A i \in Instances :
        /\ pc[i] = "recheck" /\ s3["cert"] = None => lock = i /\ Pristine
        /\ pc[i] = "generate" => lock = i /\ Pristine
        /\ pc[i] = "put" => lock = i
        /\ pc[i] \in {"release", "load"} => s3["cert"] # None

\* The writer under the lock has written exactly the objects before its cursor.
WriterProgress ==
    \A i \in Instances :
      /\ pc[i] = "generate" => step[i] = 1
      /\ pc[i] = "put" =>
        /\ mine[i] # None
        /\ step[i] \in 1 .. ArtifactCount
        /\ \A k \in 1 .. ArtifactCount :
              s3[WriteOrder[k]] = IF k < step[i] THEN mine[i] ELSE None
        /\ \A r \in PutsInFlight :
              /\ r.gen = mine[i]
              /\ \E k \in 1 .. ArtifactCount : k < step[i] /\ r.artifact = WriteOrder[k]

\* Everything stored or under way stems from one generation, and a
\* certificate is only on its way when the other three objects are stored.
OneGeneration ==
    /\ \A r, q \in PutsInFlight : r.gen = q.gen
    /\ \A r \in PutsInFlight, a \in Artifacts : s3[a] \in {None, r.gen}
    /\ \A r \in PutsInFlight, a \in Artifacts :
          r.artifact = "cert" /\ a # "cert" => s3[a] = r.gen

\* The lock is only deleted, now or late, once the backup is published.
UnlockAfterPublication == [op |-> "unlock"] \in inflight => s3["cert"] # None

\* A certificate that was read is published; a reload that passed the check
\* reads published objects only.
ReadsPublished ==
    \A i \in Instances :
        /\ got[i]["cert"] # None => s3["cert"] # None
        /\ pc[i] = "recheck" /\ step[i] > 1 /\ s3["cert"] # None => got[i]["cert"] # None
        /\ pc[i] = "load" =>
              \A k \in 1 .. ArtifactCount :
                  k < step[i] => got[i][ReadOrder[k]] = s3["cert"]

LoadedPublished ==
    \A i \in Instances :
        /\ Loaded(i) => currentCertificate[i] = s3 /\ s3["cert"] # None
        /\ reloadStatus[i] = "SUCCESS" => Loaded(i)

IInv ==
    /\ TypeOK
    /\ SentinelComplete
    /\ LeftoversStayLocked
    /\ LockHeld
    /\ WriterProgress
    /\ OneGeneration
    /\ UnlockAfterPublication
    /\ ReadsPublished
    /\ LoadedPublished
=============================================================================
