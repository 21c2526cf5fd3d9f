SPECIFICATION FairSpec
CHECK_DEADLOCK FALSE
CONSTANTS
    base = base  extra = extra
    Roles = {base, extra}
    Rules <- SomeRules
    Defaults <- BaseDefaults
    NoRole = NoRole
    Periodic = TRUE
    GuardEdits = {"rules", "label", "annotation", "delete", "create"}
    MaxGuardFaults = 1
    MaxGuardEdits = 2
    Pods = {"p"}
    SANames = {"", "default", "other"}
    Protected = {"default"}
    Identities = {"operator", "editor"}
    Allowed = {"operator"}
    Editors = {"editor"}
    ServiceAccounts = {"operator"}
    NoPod = NoPod
INVARIANTS GuardsTypeOK VerbIsPursued
PROPERTIES GuardTakesOnlyTheVerb ImpersonationGone ProtectedForAllowed ProtectedInTheEnd
