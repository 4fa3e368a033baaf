SPECIFICATION Spec
CONSTANTS
    d1 = d1  d2 = d2  d3 = d3  d4 = d4
    NoDaemon = NoDaemon
    Daemon = {d1, d2, d3}
    PidOf <- MCPidOf
INVARIANT SingletonDaemon
CHECK_DEADLOCK FALSE
