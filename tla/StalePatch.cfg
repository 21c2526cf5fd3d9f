SPECIFICATION Spec
CHECK_DEADLOCK FALSE
CONSTANTS
    c1 = c1  c2 = c2  c3 = c3  n1 = n1  n2 = n2  shared = shared  sa = sa
    Unset = Unset  NoCR = NoCR  NoRB = NoRB  NoOwner = NoOwner  Nameless = Nameless
    CRs = {c1, c2, c3}
    HomeNs <- SameHome
    RBNameOf <- OneName
    Specs <- StaticSpec
    Namespaces = {n1}
    RBNames = {shared}
    ManagedName = shared
    SAs = {sa}
    TargetSA = sa
    Denied = {}
    CrossNamespace = FALSE
    HasSelector = FALSE
    WebhookProvisioning = FALSE
    HasLabelTrigger = FALSE
    CacheLag = TRUE
    MaxGen = 1
    MaxFaults = 0
    MaxEdits = 0
    EditKinds = {}
    GenerateNames = {}
PROPERTY ReconcilerKeepsReferences
