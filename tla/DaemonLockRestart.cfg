SPECIFICATION UnracedSpec
CONSTANTS
    d1 = d1  d2 = d2  d3 = d3  d4 = d4
    NoDaemon = NoDaemon
    Daemon = {d1, d2, d3, d4}
    PidOf <- MCPidOf
INVARIANTS SingletonDaemon ReadyIsReachable
CHECK_DEADLOCK FALSE
