------------------------- MODULE MCDeviceTransport -------------------------
(* DeviceTransport with small sets of connections and devices for TLC.     *)
EXTENDS DeviceTransport, TLC

CONSTANTS c1, c2, c3, d1, d2

TwoConns == {c1, c2}
ThreeConns == {c1, c2, c3}
OneDevice == {d1}
TwoDevices == {d1, d2}

\* Bound: stop() is called while at most two connections have been opened, and
\* the third is not accepted after it.
StopsWithTwo == StopEvent => Cardinality(At({"idle"})) >= Cardinality(Conns) - 2

SessionsSpec == Init /\ [][Next /\ StopsWithTwo']_vars

\* Connections and devices are interchangeable in every safety property.
Interchangeable == Permutations(Conns) \cup Permutations(Devices)
=============================================================================
