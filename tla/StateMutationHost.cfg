SPECIFICATION Spec
CONSTANTS
    d1 = d1  d2 = d2  d3 = d3
    e1 = e1  e2 = e2  e3 = e3
    submit = submit  other = other
    k1 = k1  k2 = k2  k3 = k3  kSubmit = kSubmit
    NoDaemon = NoDaemon
    NoRequest = NoRequest
    Daemon = {d1, d2, d3}
    Request = {e1, e2, e3, submit}
    Key = {k1, k2, k3, kSubmit}
    KeyOf <- MCKeyOf
    EpochRequestOf <- MCEpochRequestOf
    HostOf <- OneHost
    PidOf <- Pids
    FencedRequests = {}
    CurrentEpochRequests = {}
    EffectRequests = {submit}
    ReleaseFaults = TRUE
INVARIANT LeaseExclusion
CHECK_DEADLOCK FALSE
