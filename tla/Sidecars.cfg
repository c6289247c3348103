SPECIFICATION Spec
CONSTANTS
    None = None
    Name = {n1}
    Sidecar = {s1, s2}
    Code = {c1}
    Job = {j1}
    Redeemer = {r1, r2}
    Poller = {p1, p2}
    Capability <- MCCapability
    NativeCan <- MCCapability
    BrowserCan <- MCBrowserCan
    AlwaysAsk <- MCAlwaysAsk
    Grants <- MCGrants
    Limit = 1
    MaxUpsets = 2
SYMMETRY Sym
INVARIANTS
    RunsAsAllowed
    OneLivePerCode
    StandDown
CHECK_DEADLOCK FALSE
