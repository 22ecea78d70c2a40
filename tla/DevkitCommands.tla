--------------------------- MODULE DevkitCommands --------------------------
(***************************************************************************)
(* The commands of DevKit, one per behaviour: list_external_mounts.py,     *)
(* docker_run.py, which finds the mounts first, coverage_report.py, bep.py *)
(* and bootstrap.py.  (Commands that build images: DevkitImages.)          *)
(***************************************************************************)
EXTENDS DevkitMounts, DevkitSession, DevkitReports

CONSTANT Projects   \* where docker_run.py is started: a file system and a directory

VARIABLE command

vars == <<command, mountVars, sessionVars, coverageVars, bepVars, bootVars>>

Init ==
    /\ command \in {"mounts", "run", "coverage", "bep", "bootstrap"}
    /\ MountsInit
    /\ command # "mounts" => <<fs, pwd>> \in Projects
    /\ SessionInit
    /\ CoverageInit
    /\ BepInit
    /\ BootInit
    \* what the other commands start with makes no difference
    /\ command # "coverage" => release = "3.11.0" /\ ~nested
    /\ command # "bootstrap" => dest = [f \in Templates |-> "absent"]

FindMounts ==
    /\ command \in {"mounts", "run"}
    /\ MountsNext
    /\ UNCHANGED <<command, sessionVars, coverageVars, bepVars, bootVars>>

(* docker_run.py goes on when it knows the mounts.                         *)
BeginSession ==
    /\ command = "run" /\ phase = "done"
    /\ mounts_known
    /\ UNCHANGED <<command, mountVars, coverageVars, bepVars, bootVars>>

Session ==
    /\ SessionNext
    /\ UNCHANGED <<command, mountVars, coverageVars, bepVars, bootVars>>

Coverage ==
    /\ command = "coverage"
    /\ CoverageNext
    /\ UNCHANGED <<command, mountVars, sessionVars, bepVars, bootVars>>

Bep ==
    /\ command = "bep"
    /\ BepNext
    /\ UNCHANGED <<command, mountVars, sessionVars, coverageVars, bootVars>>

Bootstrap ==
    /\ command = "bootstrap"
    /\ BootNext
    /\ UNCHANGED <<command, mountVars, sessionVars, coverageVars, bepVars>>

Next == FindMounts \/ BeginSession \/ Session \/ Coverage \/ Bep \/ Bootstrap

Spec == Init /\ [][Next]_vars /\ SessionFairness
=============================================================================
