SPECIFICATION ObservedFairSpec
CHECK_DEADLOCK FALSE
CONSTANTS
    c1 = c1  c2 = c2  c3 = c3  n1 = n1  n2 = n2  shared = shared  sa = sa
    Unset = Unset  NoCR = NoCR  NoRB = NoRB  NoOwner = NoOwner  Nameless = Nameless
    CRs = {c1, c2}
    HomeNs <- CrossHome
    RBNameOf <- OneName
    Specs <- IntoAny
    Namespaces = {n1, n2}
    RBNames = {shared}
    ManagedName = shared
    SAs = {sa}
    TargetSA = sa
    Denied = {n2}
    CrossNamespace = TRUE
    HasSelector = FALSE
    WebhookProvisioning = FALSE
    HasLabelTrigger = FALSE
    CacheLag = TRUE
    MaxGen = 1
    MaxFaults = 1
    MaxEdits = 1
    EditKinds = {"spec"}
    GenerateNames = {}
INVARIANT NeverInDenied
PROPERTIES ReconcilerKeepsOwners SweepSparesSteadyOwners EventuallyGranted EventuallyCollected
