SPECIFICATION Spec
CONSTANTS
    d1 = d1  d2 = d2  d3 = d3
    e1 = e1  e2 = e2  e3 = e3
    submit = submit  other = other
    k1 = k1  k2 = k2  k3 = k3  kSubmit = kSubmit
    NoDaemon = NoDaemon
    NoRequest = NoRequest
    Daemon = {d1, d2}
    Request = {e1, e2, submit, other}
    Key = {k1, k2, kSubmit}
    KeyOf <- MCKeyOf
    EpochRequestOf <- MCEpochRequestOf
    HostOf <- TwoHosts
    PidOf <- Pids
    FencedRequests = {submit, other}
    CurrentEpochRequests = {other}
    EffectRequests = {submit}
    ReleaseFaults = FALSE
INVARIANTS TypeOK AnswersAreDurable
PROPERTY RefinesSerialProject
CHECK_DEADLOCK FALSE
