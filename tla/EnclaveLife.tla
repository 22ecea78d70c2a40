---------------------------- MODULE EnclaveLife -----------------------------
(***************************************************************************)
(* How the enclave of one instance is started, watched and replaced, and   *)
(* how the server inside it comes up and goes down.                        *)
(*                                                                         *)
(* On the host systemd runs enclave_watcher.sh as a unit of Type=notify    *)
(* with Restart=always and a watchdog (enclave.service).  The script       *)
(* starts the enclave, says READY, and from then on asks nitro-cli whether *)
(* it is running.  After FailureLimit failed starts in a row, counted in a *)
(* file, it has the instance replaced.  In the enclave proxify starts the  *)
(* socket vendor and becomes the JVM, whose main starts the certificate    *)
(* monitor and the server.                                                 *)
(*                                                                         *)
(* systemd, nitro-cli, the autoscaling group and the JVM's end are         *)
(* external.  Time is left out: limits strike where something hangs.       *)
(***************************************************************************)
EXTENDS Naturals

CONSTANTS
    FailureLimit,      \* failed starts after which an instance is replaced
    StartBurst,        \* starts that systemd allows within its interval
    TemplateSize,      \* resources in allocator.yaml of the machine image
    DefaultSize,       \* resources asked for when there is no tag
    TagSizes,          \* resources an instance's tag may ask for
    MaxMishaps         \* bound: commands that fail or hang, processes that die

ASSUME LifeAssumption ==
    /\ FailureLimit \in Nat \ {0} /\ StartBurst \in Nat \ {0} /\ MaxMishaps \in Nat
    /\ {TemplateSize, DefaultSize} \cup TagSizes \subseteq Nat

VARIABLES
    unit,        \* systemd's unit
    watcher,     \* where the script is
    quick,       \* starts within systemd's interval
    failures,    \* number in the failure count file, at most FailureLimit
    health,      \* the instance's health in its autoscaling group
    tag,         \* what the instance's tag asks for
    yaml,        \* what allocator.yaml says
    enclave,     \* whether an enclave is running
    vendor,      \* the socket vendor in it
    main,        \* where the JVM's main thread and shutdown hook are
    server,      \* the Armeria server
    status,      \* HealthManager's status
    loaded,      \* whether the monitor has loaded a certificate
    check,       \* a request for /healthz
    mishaps      \* how many mishaps there were

unitVars == <<unit, watcher, quick>>
instanceVars == <<failures, health, tag, yaml>>
serverVars == <<server, status, loaded, check>>
insideVars == <<enclave, vendor, main, serverVars>>
lifeVars == <<unitVars, instanceVars, insideVars, mishaps>>

Checks == [at : {"none", "ledger", "certificate", "answered"}, stopping : BOOLEAN, ok : BOOLEAN]
NoCheck == [at |-> "none", stopping |-> FALSE, ok |-> FALSE]

Mishap == mishaps < MaxMishaps /\ mishaps' = mishaps + 1
NoMishap == UNCHANGED mishaps

-----------------------------------------------------------------------------
(* The enclave as a whole.                                                 *)

(* run-enclave: everything in an enclave begins anew.                      *)
Launch ==
    /\ enclave' = TRUE /\ main' = "proxify" /\ vendor' = "none"
    /\ server' = "new" /\ status' = "UNKNOWN" /\ loaded' = FALSE /\ check' = NoCheck

EndEnclave ==
    /\ enclave' = FALSE /\ main' = "none" /\ vendor' = "none"
    /\ server' = "new" /\ status' = "UNKNOWN" /\ loaded' = FALSE /\ check' = NoCheck

LifeInit ==
    /\ unit = "restart" /\ watcher = "ended" /\ quick = 0
    /\ failures = 0 /\ health = "Healthy" /\ tag \in TagSizes /\ yaml = TemplateSize
    /\ enclave = FALSE /\ main = "none" /\ vendor = "none"
    /\ server = "new" /\ status = "UNKNOWN" /\ loaded = FALSE /\ check = NoCheck
    /\ mishaps = 0

-----------------------------------------------------------------------------
(* systemd.                                                                *)

(* Restart=always, unless the unit was started too often in too short a    *)
(* time (systemd's defaults: five times in ten seconds).                   *)
StartUnit ==
    /\ unit = "restart"
    /\ \/ quick = StartBurst /\ unit' = "failed" /\ UNCHANGED <<watcher, quick>>
       \/ quick < StartBurst /\ unit' = "activating" /\ watcher' = "permissions" /\ quick' = quick + 1
    /\ UNCHANGED <<instanceVars, insideVars, mishaps>>

(* The script has ended.  Whether an enclave that runs ends with the unit  *)
(* depends on which of its processes systemd finds, and on ExecStop being  *)
(* run; both are allowed.  One that has slept before has left the interval *)
(* of the start limit.                                                     *)
Exit ==
    /\ watcher' = "ended" /\ unit' = "restart" /\ quick' \in {0, quick}
    /\ EndEnclave \/ UNCHANGED insideVars

ExitAfterSleep == Exit /\ quick' = 0

(* No READY within TimeoutStartSec.  wait_for_instance_replacement sends   *)
(* WATCHDOG only, so that it ends like this, and the start is repeated.    *)
StartTimesOut ==
    /\ unit = "activating"
    /\ \/ watcher \in {"hung", "waiting"} /\ NoMishap
       \/ Mishap
    /\ ExitAfterSleep
    /\ UNCHANGED instanceVars

(* No WATCHDOG within WatchdogSec.                                         *)
WatchdogExpires ==
    /\ unit = "active" /\ watcher = "hung"
    /\ ExitAfterSleep
    /\ UNCHANGED <<instanceVars, mishaps>>

(* systemctl restart, by an operator: ExecStop is stop_enclave.            *)
stop_enclave ==
    /\ unit = "active" /\ Mishap
    /\ watcher' = "ended" /\ unit' = "restart" /\ UNCHANGED quick
    /\ EndEnclave
    /\ UNCHANGED instanceVars

(* systemctl start, of a unit that had failed.                             *)
OperatorStarts ==
    /\ unit = "failed" /\ unit' = "restart" /\ quick' = 0
    /\ UNCHANGED <<watcher, instanceVars, insideVars, mishaps>>

(* The autoscaling group puts another instance in the place of an          *)
(* unhealthy one, with the same tags.                                      *)
Replace ==
    /\ health = "Unhealthy"
    /\ unit' = "restart" /\ watcher' = "ended" /\ quick' = 0
    /\ failures' = 0 /\ health' = "Healthy" /\ yaml' = TemplateSize /\ UNCHANGED tag
    /\ EndEnclave /\ NoMishap

-----------------------------------------------------------------------------
(* enclave_watcher.sh start, under errexit and pipefail.                   *)

(* A command without a time limit does not return.                         *)
Hangs ==
    /\ watcher \in {"permissions", "allocator", "run", "mark", "watch"}
    /\ Mishap /\ watcher' = "hung"
    /\ UNCHANGED <<unit, quick, instanceVars, insideVars>>

check_permissions ==
    /\ watcher = "permissions"
    /\ \/ watcher' = "allocator" /\ UNCHANGED <<unit, quick, insideVars>> /\ NoMishap
       \/ Mishap /\ Exit
    /\ UNCHANGED instanceVars

fetch_tag_value ==
    \/ yaml' = tag /\ NoMishap
    \/ yaml' = DefaultSize /\ Mishap

(* The allocator's service has been active since before the unit was       *)
(* started (Requires=, After=), so that systemctl start leaves it as it    *)
(* is: the resources set aside remain those of the machine image.          *)
update_allocator_config ==
    /\ watcher = "allocator"
    /\ \/ fetch_tag_value /\ watcher' = "run" /\ UNCHANGED <<unit, quick, insideVars>>
       \/ Mishap /\ Exit /\ UNCHANGED yaml
    /\ UNCHANGED <<failures, health, tag>>

Fits == ~enclave /\ yaml <= TemplateSize

run_enclave ==
    /\ watcher = "run"
    /\ \/ Fits /\ Launch /\ watcher' = "started" /\ NoMishap
       \/ ~Fits /\ NoMishap /\ watcher' = "failure" /\ UNCHANGED insideVars
       \/ Fits /\ Mishap /\ watcher' = "failure" /\ UNCHANGED insideVars
    /\ UNCHANGED <<unit, quick, instanceVars>>

(* The count is cleared and READY sent.                                    *)
start_enclave_ready ==
    /\ watcher = "started"
    /\ failures' = 0 /\ unit' = "active" /\ watcher' = "watch"
    /\ UNCHANGED <<quick, health, tag, yaml, insideVars, mishaps>>

(* Mutant: the count is not written back to the file.                      *)
Counted_NotWritten == failures

Counted == IF failures < FailureLimit THEN failures + 1 ELSE FailureLimit

handle_enclave_startup_failure ==
    /\ watcher = "failure"
    /\ failures' = Counted
    /\ \/ failures + 1 >= FailureLimit /\ watcher' = "mark" /\ UNCHANGED <<unit, quick, insideVars>>
       \/ failures + 1 < FailureLimit /\ ExitAfterSleep
    /\ UNCHANGED <<health, tag, yaml, mishaps>>

(* A loop that only StartTimesOut or Replace ends.                         *)
wait_for_instance_replacement == watcher' = "waiting" /\ UNCHANGED <<unit, quick, insideVars>>

(* Fails before the instance's name is known, or at set-instance-health,   *)
(* after which the script sleeps.                                          *)
set_instance_health ==
    /\ watcher = "mark"
    /\ \/ health' = "Unhealthy" /\ NoMishap /\ wait_for_instance_replacement
       \/ Mishap /\ Exit /\ UNCHANGED health
       \/ Mishap /\ ExitAfterSleep /\ UNCHANGED health
    /\ UNCHANGED <<failures, tag, yaml>>

(* describe-enclaves says RUNNING, or it does not, or fails.               *)
watch_enclave ==
    /\ watcher = "watch"
    /\ \/ enclave /\ UNCHANGED <<unitVars, insideVars, mishaps>>
       \/ ~enclave /\ NoMishap /\ Exit
       \/ enclave /\ Mishap /\ Exit
    /\ UNCHANGED instanceVars

Watcher ==
    \/ check_permissions \/ update_allocator_config \/ run_enclave \/ start_enclave_ready
    \/ handle_enclave_startup_failure \/ set_instance_health \/ watch_enclave

-----------------------------------------------------------------------------
(* In the enclave.                                                         *)

(* Makes the vendor a daemon, which nobody looks after, and becomes the    *)
(* JVM; if it cannot, it ends, and with it the enclave.                    *)
proxify ==
    /\ main = "proxify"
    /\ \/ main' = "metadata" /\ vendor' = "starting" /\ NoMishap /\ UNCHANGED <<enclave, serverVars>>
       \/ Mishap /\ EndEnclave

(* The vendor listens, or has ended: lock, socket or proxy not available.  *)
socket_vendor ==
    /\ vendor = "starting"
    /\ \/ vendor' = "up" /\ NoMishap
       \/ vendor' = "down" /\ Mishap
    /\ UNCHANGED <<enclave, main, serverVars>>

(* When one of the next two throws there is no other thread yet, and with  *)
(* the JVM the enclave ends.                                               *)
getAwsInstanceMetadata ==
    /\ main = "metadata"
    /\ \/ main' = "injector" /\ NoMishap /\ UNCHANGED <<enclave, vendor, serverVars>>
       \/ Mishap /\ EndEnclave

CreateInjector ==
    /\ main = "injector"
    /\ \/ main' = "monitor" /\ NoMishap /\ UNCHANGED <<enclave, vendor, serverVars>>
       \/ Mishap /\ EndEnclave

StartMonitor ==
    /\ main = "monitor" /\ main' = "start"
    /\ UNCHANGED <<enclave, vendor, serverVars, mishaps>>

(* server.start() binds and listens through the vendor, which must be up   *)
(* by then.  When it fails join() throws and main ends, but not the JVM:   *)
(* the threads of the monitor and the reporter are no daemons.             *)
StartServer ==
    /\ main = "start"
    /\ \/ vendor = "up" /\ server' = "listening" /\ main' = "starting" /\ NoMishap
       \/ vendor # "up" /\ UNCHANGED server /\ main' = "stuck" /\ NoMishap
       \/ vendor = "up" /\ UNCHANGED server /\ main' = "stuck" /\ Mishap
    /\ UNCHANGED <<enclave, vendor, status, loaded, check>>

(* What start() does when the server has started.                          *)
SetServing ==
    /\ main = "starting" /\ status' = "SERVING" /\ main' = "hook"
    /\ UNCHANGED <<enclave, vendor, server, loaded, check, mishaps>>

AddShutdownHook ==
    /\ main = "hook" /\ main' = "blocked"
    /\ UNCHANGED <<enclave, vendor, serverVars, mishaps>>

(* The JVM is told to end.  Before the hook is registered it just does.    *)
Terminate ==
    /\ Mishap
    /\ \/ main = "blocked" /\ main' = "stop" /\ UNCHANGED <<enclave, vendor, serverVars>>
       \/ main \in {"metadata", "injector", "monitor", "start", "starting", "hook", "stuck"} /\ EndEnclave

(* Mutant: the server is stopped first.                                    *)
Stop_ServerFirst ==
    /\ UNCHANGED <<enclave, vendor, loaded, check, mishaps>>
    /\ \/ main = "stop" /\ server' = "stopping" /\ main' = "stopServer" /\ UNCHANGED status
       \/ main = "stopServer" /\ status' = "NOT_SERVING" /\ main' = "join" /\ UNCHANGED server

(* The hook: pesServer.stop() sets the status and stops the server.        *)
Stop ==
    /\ UNCHANGED <<enclave, vendor, loaded, check, mishaps>>
    /\ \/ main = "stop" /\ status' = "NOT_SERVING" /\ main' = "stopServer" /\ UNCHANGED server
       \/ main = "stopServer" /\ server' = "stopping" /\ main' = "join" /\ UNCHANGED status

(* The server has stopped, the services are told to, the JVM ends.         *)
Stopped == main = "join" /\ EndEnclave /\ NoMishap

Main ==
    \/ proxify \/ socket_vendor \/ getAwsInstanceMetadata \/ CreateInjector
    \/ StartMonitor \/ StartServer \/ SetServing \/ AddShutdownHook
    \/ Stop \/ Stopped

(* The monitor's reload succeeds (in full in MbsKeyBackup).                *)
Reloaded ==
    /\ main \in {"start", "starting", "hook", "blocked", "stuck", "stop", "stopServer", "join"}
    /\ ~loaded /\ loaded' = TRUE
    /\ UNCHANGED <<enclave, vendor, main, server, status, check, mishaps>>

VendorDies ==
    /\ vendor = "up" /\ vendor' = "down" /\ Mishap
    /\ UNCHANGED <<enclave, main, serverVars>>

EnclaveDies == enclave /\ EndEnclave /\ Mishap

(* isHealthy: the status, the ledger, the certificate, one after the other.*)
(* check.stopping: the server was already being stopped when it began.     *)
CheckBegins ==
    /\ server \in {"listening", "stopping"} /\ check.at \in {"none", "answered"}
    /\ check' = [at |-> IF status = "SERVING" THEN "ledger" ELSE "answered",
                 stopping |-> server = "stopping", ok |-> FALSE]

LedgerAnswers ==
    /\ check.at = "ledger"
    /\ \E healthy \in BOOLEAN : check' = [check EXCEPT !.at = IF healthy THEN "certificate" ELSE "answered"]

CheckAnswered ==
    /\ check.at = "certificate"
    /\ check' = [check EXCEPT !.at = "answered", !.ok = loaded]

isHealthy ==
    /\ CheckBegins \/ LedgerAnswers \/ CheckAnswered
    /\ UNCHANGED <<enclave, vendor, main, server, status, loaded, mishaps>>

Inside == Main \/ Reloaded \/ Terminate \/ VendorDies \/ EnclaveDies \/ isHealthy

Host == StartUnit \/ StartTimesOut \/ WatchdogExpires \/ stop_enclave \/ OperatorStarts \/ Replace \/ Hangs \/ Watcher

LifeNext == Host \/ (Inside /\ UNCHANGED <<unitVars, instanceVars>>)

LifeSpec == LifeInit /\ [][LifeNext]_lifeVars

(* What goes on by itself: systemd's restarts and time limits and the      *)
(* group's replacement; the script; main; the monitor, again and again.    *)
Supervised == StartUnit \/ StartTimesOut \/ WatchdogExpires
MainRuns == Main /\ UNCHANGED <<unitVars, instanceVars>>
MonitorRuns == Reloaded /\ UNCHANGED <<unitVars, instanceVars>>

-----------------------------------------------------------------------------
(* Properties.                                                             *)

LifeTypeOK ==
    /\ unit \in {"restart", "activating", "active", "failed"} /\ quick \in 0 .. StartBurst
    /\ watcher \in {"permissions", "allocator", "run", "started", "failure", "mark", "waiting", "watch",
                    "hung", "ended"}
    /\ failures \in 0 .. FailureLimit /\ health \in {"Healthy", "Unhealthy"}
    /\ tag \in TagSizes /\ yaml \in {TemplateSize, DefaultSize, tag}
    /\ enclave \in BOOLEAN /\ loaded \in BOOLEAN /\ vendor \in {"none", "starting", "up", "down"}
    /\ main \in {"none", "proxify", "metadata", "injector", "monitor", "start", "starting", "hook", "blocked",
                 "stuck", "stop", "stopServer", "join"}
    /\ server \in {"new", "listening", "stopping"} /\ status \in {"UNKNOWN", "SERVING", "NOT_SERVING"}
    /\ check \in Checks
    /\ mishaps \in 0 .. MaxMishaps

(* /healthz answers OK only if there is a certificate and the server was   *)
(* not being stopped when the check began, although status, ledger and     *)
(* certificate are looked at one after the other (PesServer.isHealthy)     *)
(* while the server starts, is stopped, and loads its certificate.         *)
HealthIsHonest == check.ok => loaded /\ ~check.stopping

Serving == unit = "active" /\ enclave /\ vendor = "up" /\ server = "listening" /\ status = "SERVING" /\ loaded

(* What nobody on the host notices or mends: an enclave without a server,  *)
(* one without its vendor, a unit beyond its start limit.                  *)
Unnoticed ==
    \/ unit = "active" /\ enclave /\ (main = "stuck" \/ vendor = "down")
    \/ unit = "failed"

(* The instance, or the one in its place, comes to serve under the eyes of *)
(* the watcher again and again: whatever is killed, dies or fails to       *)
(* start, and also if an enclave is left behind by a watcher that ended,   *)
(* which keeps the next one from starting until FailureLimit failures have *)
(* the instance replaced (enclave_watcher.sh, enclave.service).  Excepted  *)
(* are the cases of Unnoticed, and a tag that asks for more than the       *)
(* machine image's allocator.yaml: then hardly a start succeeds (see       *)
(* update_allocator_config).                                               *)
EnclaveComesBack == []<>(Serving \/ Unnoticed \/ tag > TemplateSize)

(* The inductive invariant behind HealthIsHonest: the server is stopped    *)
(* after the status has been taken back, which is not set again, since the *)
(* hook is registered after the start; so a check that got past the status *)
(* began before.                                                           *)
HealthInv ==
    /\ LifeTypeOK
    /\ server = "stopping" => main = "join"
    /\ main \in {"stopServer", "join"} => status = "NOT_SERVING"
    /\ check.at \in {"ledger", "certificate"} => ~check.stopping
    /\ HealthIsHonest
=============================================================================
