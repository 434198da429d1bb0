--------------------------- MODULE DevicePresence ---------------------------
(***************************************************************************)
(* What the device registry promises (docs/device-communication.md,        *)
(* "Disconnect / reconnect"), without threads, locks, sockets or events:   *)
(* one active connection represents a device at a time, a connection       *)
(* represents one device, once, and a device that lost its connection can  *)
(* be taken over only by a connection that never represented a device.     *)
(***************************************************************************)
CONSTANTS Conns, Devices, NoConn

VARIABLES holder,   \* the connection that represents each device, or NoConn
          used      \* the connections that have ever represented a device

vars == <<holder, used>>

Init ==
  /\ holder = [d \in Devices |-> NoConn]
  /\ used = {}

\* A fresh connection comes to represent a device nobody represents.
Connect(d, c) ==
  /\ holder[d] = NoConn /\ c \notin used
  /\ holder' = [holder EXCEPT ![d] = c]
  /\ used' = used \cup {c}

\* The connection of a device is lost.
Disconnect(d) ==
  /\ holder[d] # NoConn
  /\ holder' = [holder EXCEPT ![d] = NoConn]
  /\ UNCHANGED used

Next ==
  \E d \in Devices : Disconnect(d) \/ \E c \in Conns : Connect(d, c)

Spec == Init /\ [][Next]_vars

=============================================================================
