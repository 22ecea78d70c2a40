CONSTANTS
    s1 = s1
    s2 = s2
    c1 = c1
    c2 = c2
    base = base
    env = env
    k1 = k1
    k2 = k2
    k3 = k3
    Sessions = {s1, s2}
    Checkouts = {c1, c2}
    CheckoutOf <- TwoCheckouts
    Images = {base, env}
    Deps <- OneBase
    LocalImages = {}
    AllowedImages = {base, env}
    Targets = {env}
    Invocations <- RunOrBuild
    Texts = {1, 2}
    Configs = {k1, k2, k3}
    Invalid = Invalid
    SpaceOf <- Spaces
    WithRepo = {k1, k2}
    ExtraOf <- Extras
    Failing = {s2}
    Changing = {c2}
    MaxChanges = 1
SPECIFICATION MCSpec
INVARIANTS ContentAddressed SteadyKeepsImages
CHECK_DEADLOCK FALSE
