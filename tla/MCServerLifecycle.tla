-------------------------- MODULE MCServerLifecycle --------------------------
(* Instances of ServerLifecycle: the two processes of the repository. *)
EXTENDS ServerLifecycle, TLC

CONSTANTS mock, admin, openmeter,   \* the servers
          r1, r2, r3, r4, r5        \* the requests

\* cmd/server: the provider APIs and the admin API.
Server == [servers |-> {mock, admin}, awaitSignal |-> TRUE]

\* cmd/openmeter-mock.
OpenMeterMock == [servers |-> {openmeter}, awaitSignal |-> FALSE]

MCServers == {mock, admin, openmeter}
MCProcesses == {Server, OpenMeterMock}

\* Two requests to each server, but one to the admin API.
MCRequests == {r1, r2, r3, r4, r5}
MCHome ==
    [r \in MCRequests |->
        CASE r \in {r1, r2} -> mock [] r = r3 -> admin [] OTHER -> openmeter]
=============================================================================
