SPECIFICATION Spec
CHECK_DEADLOCK FALSE
CONSTANTS
    c1 = c1  c2 = c2  c3 = c3  n1 = n1  n2 = n2  shared = shared  sa = sa
    Unset = Unset  NoCR = NoCR  NoRB = NoRB  NoOwner = NoOwner  Nameless = Nameless
    CRs = {c1}
    HomeNs <- SameHome
    RBNameOf <- OneName
    Specs <- StaticSpec
    Namespaces = {n1, n2}
    RBNames = {shared}
    ManagedName = shared
    SAs = {sa}
    TargetSA = sa
    Denied = {n2}
    CrossNamespace = FALSE
    HasSelector = TRUE
    WebhookProvisioning = TRUE
    HasLabelTrigger = TRUE
    CacheLag = FALSE
    MaxGen = 1
    MaxFaults = 1
    MaxEdits = 1
    EditKinds = {"delete", "role", "subject", "select", "label"}
    GenerateNames = {c1}
INVARIANT IInv
