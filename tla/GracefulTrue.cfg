SPECIFICATION GracefulSpec
CHECK_DEADLOCK FALSE
CONSTANTS
    ca = ca  na = na  list = list  get = get  pods = pods
    CRs = {ca}
    Perms = {list, get}
    Namespaces = {na}
    Checks = {1, 2, 3}
    About <- Asked
    MaxConcurrency = 2
    NoReport = NoReport
    NsOf <- HomeOf
    Ops <- InOrder
    Keys = {pods}
    KeyOf <- OneKey
    BindingName = TRUE
    DirectReader = FALSE
    RequeueAfter = 1
    MaxRequeue = 3
    FactorOption = 0
    CountCap = 3
    NoWait = NoWait
    MaxFaults = 0
    MaxEdits = 0
    EditKinds = {"rights", "bindings", "reset"}
INVARIANT AvailableMeansAll
