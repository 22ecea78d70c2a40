SPECIFICATION Spec
CONSTANTS
    FileSystems <- MCFileSystems
    Projects <- MCProjects
    Pwds <- MCPwds
    Existing <- MCExisting
    Devkit = "devkit"
    Bazel = {"bazel-out"}
    Venv = ".venv"
    MaxDeletions = 1
    Others = {o1}
    MaxCandidates = 3
    BatchSize = 2
    Gates = {g1, g2}
    f1 = f1
    f2 = f2
    Files = {f1, f2}
    Scopes <- MCScopes
    Measured <- MCMeasured
    Defaults <- MCDefaults
    Thresholds <- MCThresholds
    BadThresholds = BadThresholds
    MaxRuns = 2
    TargetLists <- MCTargetLists
    MaxBeps = 2
    Templates = {t1, t2, t3}
INVARIANTS  GateIsHonest SuccessIsComplete
PROPERTIES SessionReturns ThreadsEnd ReportIsHeard
CHECK_DEADLOCK FALSE
