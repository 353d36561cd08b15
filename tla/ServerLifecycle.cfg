\* The two processes: cmd/server and cmd/openmeter-mock.
SPECIFICATION FairSpec
CONSTANTS
    mock = mock
    admin = admin
    openmeter = openmeter
    r1 = r1
    r2 = r2
    r3 = r3
    r4 = r4
    r5 = r5
    Servers <- MCServers
    Processes <- MCProcesses
    Requests <- MCRequests
    Home <- MCHome
INVARIANTS
    LifecycleInv
    CutOnlyAfterGrace
    StaysUntilSignalled
PROPERTIES
    SignalStops
    FailureStops
