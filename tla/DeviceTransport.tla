--------------------------- MODULE DeviceTransport ---------------------------
(***************************************************************************)
(* The hardened TCP transport of C.O.R.E.-HOST and the device registry it  *)
(* drives: core/communication/tcp.py, devices.py and connection.py.        *)
(*                                                                         *)
(* Three kinds of thread run concurrently: the accept loop, one handler    *)
(* thread per connection, and the thread that calls TcpTransport.stop().   *)
(* They share the session table (_connections, _reserved), the socket      *)
(* bindings (_device_sockets) and the device records (DeviceRegistry).     *)
(* Each action below is one stretch of code that runs under one of the two *)
(* locks, or one blocking call; between two actions of a thread any other  *)
(* thread may run.                                                         *)
(*                                                                         *)
(* A connection id is a fresh UUID, so a connection is used once; the same *)
(* value stands for the socket, its session, its token and its thread.     *)
(***************************************************************************)
EXTENDS Naturals, FiniteSets

CONSTANTS Conns,            \* connections clients may open
          Devices,          \* provisioned device identities
          NoConn, NoDev,    \* Python's None
          MAX_CONNECTIONS,  \* the connection budget, 64 in the code
          CanStop           \* whether stop() is called in this instance

ASSUME ConnsAssumption == IsFiniteSet(Conns) /\ NoConn \notin Conns
ASSUME DevicesAssumption == NoDev \notin Devices
ASSUME LimitAssumption == MAX_CONNECTIONS \in Nat \ {0}
ASSUME StopAssumption == CanStop \in BOOLEAN

VARIABLES
  pc,           \* where the handler thread of each connection is
  acceptor,     \* the accept loop: in accept(), in a TLS handshake, or exited
  reserved,     \* _reserved
  connections,  \* keys of _connections
  total,        \* _total_connections
  rejected,     \* _rejected_connections
  identity,     \* session.identity_id
  token,        \* session.session_token, TRUE when one is set
  lease,        \* session.lease_expires_at against the clock
  status,       \* DeviceRecord.status, "absent" when there is no record
  cid,          \* DeviceRecord.connection_id
  binding,      \* _device_sockets[device][2]
  target,       \* a local: the device its thread registers, serves or cleans up
  via,          \* a local: the binding it read before forwarding
  delivered,    \* frames forwarded: the device addressed, the socket written
  lastEvent,    \* the last event on each device: its kind and connection_id
  held,         \* connections whose DEVICE_REGISTER has succeeded
  stopper,      \* where the thread calling stop() is
  stopIds,      \* its local: sessions it has yet to remove
  markIds,      \* its local: devices it has yet to mark offline
  markNow       \* its local: the device between the two halves of a mark

tableVars == <<reserved, connections, total, rejected>>
sessionVars == <<identity, token, lease>>
recordVars == <<status, cid>>
localVars == <<target, via>>
outVars == <<delivered, lastEvent, held>>
stopVars == <<stopper, stopIds, markIds, markNow>>

vars == <<pc, acceptor, reserved, connections, total, rejected, identity,
          token, lease, status, cid, binding, target, via, delivered,
          lastEvent, held, stopper, stopIds, markIds, markNow>>

\* A handler thread is inside the try block of _handle_connection.
InService ==
  {"handshake", "hello", "serving", "reading", "dispatch", "bind", "announce",
   "snapshot", "check", "compare", "send"}

\* A handler thread is inside its finally block.
InCleanup == {"find", "unbind", "offline", "emit", "close", "remove"}

PcValues ==
  InService \cup InCleanup \cup {"idle", "refused", "tls", "admitted", "done"}

StopSteps ==
  {"run", "flagged", "removing", "server", "marking", "sockets", "stopped"}

-----------------------------------------------------------------------------
\* _stop_event is set before any other effect of stop().
StopEvent == stopper # "run"

\* The listening socket is open until _stop_server closes it.
Listening == stopper \in {"run", "flagged", "removing", "server"}

\* The socket of a connection is open from accept() to conn.close().
SocketOpen(c) == pc[c] \notin {"idle", "refused", "remove", "done"}

Goto(c, l) == pc' = [pc EXCEPT ![c] = l]

\* Faulty: reservations do not count. (A definition marked so is a variant of
\* the one that follows it; it shows what the properties can tell apart.)
SlotFreeIgnoringReserved == Cardinality(connections) < MAX_CONNECTIONS

\* try_reserve_slot: active and reserved connections share one budget.
SlotFree == Cardinality(connections) + reserved < MAX_CONNECTIONS

\* One reservation is given back or consumed; never below zero.
ReservationLess == IF reserved > 0 THEN reserved - 1 ELSE reserved

\* DeviceRegistry.find_by_connection
FindByConnection(c) == {d \in Devices : cid[d] = c}

\* _is_session_device_registered
IsRegistered(c) == \E d \in FindByConnection(c) : status[d] = "online"

\* Faulty: an online device is registered over, or another device than the
\* authenticated one.
MayTakeOver(c, d) == d = identity[c]
MayImpersonate(c, d) == status[d] # "online"

\* _handle_device_register accepts only the authenticated identity, and
\* DeviceRegistry.register only a record that is not online.
MayRegister(c, d) == d = identity[c] /\ status[d] # "online"

\* The message loop and _wait_readable test the stop event and the lease before
\* they wait for the next frame.
LoopTop(c) == IF StopEvent \/ lease[c] = "expired" THEN "find" ELSE "serving"

\* _emit_device_event: the payload names the device and the connection.
Connected(c) == [event |-> "DEVICE_CONNECTED", connection |-> c]
Disconnected(c) == [event |-> "DEVICE_DISCONNECTED", connection |-> c]
NoEvent == [event |-> "none", connection |-> NoConn]

Events == {Connected(c) : c \in Conns} \cup {Disconnected(c) : c \in Conns}
            \cup {NoEvent}

\* A function of the thread returns, and its locals are gone.
Forget(c) ==
  /\ target' = [target EXCEPT ![c] = NoDev]
  /\ via' = [via EXCEPT ![c] = NoConn]

\* The accept loop tests _stop_event before it blocks in accept() again.
AcceptAgain == IF StopEvent THEN "exited" ELSE "waiting"

Init ==
  /\ pc = [c \in Conns |-> "idle"]
  /\ acceptor = "waiting"
  /\ reserved = 0 /\ connections = {} /\ total = 0 /\ rejected = 0
  /\ identity = [c \in Conns |-> NoDev]
  /\ token = [c \in Conns |-> FALSE]
  /\ lease = [c \in Conns |-> "none"]
  /\ status \in [Devices -> {"absent", "offline"}]
  /\ cid = [d \in Devices |-> NoConn]
  /\ binding = [d \in Devices |-> NoConn]
  /\ target = [c \in Conns |-> NoDev]
  /\ via = [c \in Conns |-> NoConn]
  /\ delivered = {}
  /\ lastEvent = [d \in Devices |-> NoEvent]
  /\ held = {}
  /\ stopper = "run" /\ stopIds = {} /\ markIds = {} /\ markNow = NoDev

-----------------------------------------------------------------------------
(* Admission: the accept loop and the first lines of _handle_connection.   *)

\* accept() returns a socket and try_reserve_slot finds a free slot.
AcceptReserve(c) ==
  /\ acceptor = "waiting" /\ Listening
  /\ pc[c] = "idle" /\ SlotFree
  /\ reserved' = reserved + 1
  /\ acceptor' = "tls"
  /\ Goto(c, "tls")
  /\ UNCHANGED <<connections, total, rejected, sessionVars, recordVars,
                 binding, localVars, outVars, stopVars>>

\* accept() returns a socket, the budget is exhausted, the socket is closed.
AcceptRefuse(c) ==
  /\ acceptor = "waiting" /\ Listening
  /\ pc[c] = "idle" /\ ~SlotFree
  /\ rejected' = rejected + 1
  /\ acceptor' = AcceptAgain
  /\ Goto(c, "refused")
  /\ UNCHANGED <<reserved, connections, total, sessionVars, recordVars,
                 binding, localVars, outVars, stopVars>>

\* The TLS handshake succeeds and the handler thread is started.
TlsEstablished(c) ==
  /\ pc[c] = "tls"
  /\ acceptor' = AcceptAgain
  /\ Goto(c, "admitted")
  /\ UNCHANGED <<tableVars, sessionVars, recordVars, binding, localVars,
                 outVars, stopVars>>

\* The TLS handshake fails: release_reservation(count_rejection=True).
TlsFailed(c) ==
  /\ pc[c] = "tls"
  /\ reserved' = ReservationLess
  /\ rejected' = rejected + 1
  /\ acceptor' = AcceptAgain
  /\ Goto(c, "refused")
  /\ UNCHANGED <<connections, total, sessionVars, recordVars, binding,
                 localVars, outVars, stopVars>>

\* accept() times out or fails and the loop sees the stop.
AcceptorExit ==
  /\ acceptor = "waiting" /\ StopEvent
  /\ acceptor' = "exited"
  /\ UNCHANGED <<pc, tableVars, sessionVars, recordVars, binding, localVars,
                 outVars, stopVars>>

\* _register_session(has_reservation=True): the reservation is consumed, then
\* the session is admitted unless the table is full. _serve_hardened then waits
\* for the first frame, unless stop() has been called.
RegisterSession(c) ==
  /\ pc[c] = "admitted"
  /\ reserved' = ReservationLess
  /\ IF Cardinality(connections) >= MAX_CONNECTIONS
       THEN /\ rejected' = rejected + 1
            /\ Goto(c, "refused")
            /\ UNCHANGED <<connections, total>>
       ELSE /\ connections' = connections \cup {c}
            /\ total' = total + 1
            /\ Goto(c, IF StopEvent THEN "find" ELSE "handshake")
            /\ UNCHANGED rejected
  /\ UNCHANGED <<acceptor, sessionVars, recordVars, binding, localVars,
                 outVars, stopVars>>

-----------------------------------------------------------------------------
(* The handshake and the authenticated message loop of _serve_hardened.    *)

\* A thread changes nothing but its own program counter and locals.
OnlyControl ==
  UNCHANGED <<acceptor, tableVars, sessionVars, recordVars, binding, outVars,
              stopVars>>

\* select() in _wait_readable reports the first bytes of the first frame, even
\* if stop() has been called since it began to wait.
HelloReadable(c) ==
  /\ pc[c] = "handshake"
  /\ Goto(c, "hello")
  /\ OnlyControl /\ UNCHANGED localVars

\* The peer closes or idles out before its first frame.
HandshakeAborted(c) ==
  /\ pc[c] = "handshake"
  /\ Goto(c, "find")
  /\ OnlyControl /\ UNCHANGED localVars

\* The frame never completes, or _process_handshake fails: not a handshake,
\* unsupported version, unknown identity, bad credential.
RejectHandshake(c) ==
  /\ pc[c] = "hello"
  /\ Goto(c, "find")
  /\ OnlyControl /\ UNCHANGED localVars

\* _process_handshake succeeds: the identity is bound, a token is minted and
\* the lease starts. The reply may fail, which ends the connection.
Authenticate(c, d) ==
  /\ pc[c] = "hello"
  /\ identity' = [identity EXCEPT ![c] = d]
  /\ token' = [token EXCEPT ![c] = TRUE]
  /\ lease' = [lease EXCEPT ![c] = "running"]
  /\ \E l \in {LoopTop(c), "find"} : Goto(c, l)
  /\ UNCHANGED <<acceptor, tableVars, recordVars, binding, localVars, outVars,
                 stopVars>>

\* The monotonic clock passes lease_expires_at.
LeaseExpires(c) ==
  /\ lease[c] = "running"
  /\ lease' = [lease EXCEPT ![c] = "expired"]
  /\ UNCHANGED <<pc, acceptor, tableVars, identity, token, recordVars, binding,
                 localVars, outVars, stopVars>>

\* select() reports the first bytes of a frame in the message loop. _recv_exact
\* tests the lease, and never the stop event, before it calls recv().
FrameReadable(c) ==
  /\ pc[c] = "serving"
  /\ Goto(c, IF lease[c] = "expired" THEN "find" ELSE "reading")
  /\ OnlyControl /\ UNCHANGED localVars

\* recv() returns the end of the frame, which is handled even if the lease has
\* expired meanwhile. _enforce_identity needs the session's token.
ReadFrame(c) ==
  /\ pc[c] = "reading"
  /\ Goto(c, IF token[c] THEN "dispatch" ELSE "find")
  /\ OnlyControl /\ UNCHANGED localVars

\* The peer closes, idles out, or sends something that is not a frame.
PeerGone(c) ==
  /\ pc[c] \in {"serving", "reading"}
  /\ Goto(c, "find")
  /\ OnlyControl /\ UNCHANGED localVars

\* Faulty: the lease is not looked at, or the stop event is not.
MustEndOnStop(c) == pc[c] \in {"handshake", "serving"} /\ StopEvent
MustEndOnLease(c) == pc[c] \in {"serving", "reading"} /\ lease[c] = "expired"

\* When select() times out the stop event and the lease are tested again, when
\* recv() does, the lease.
MustEnd(c) ==
  \/ pc[c] \in {"handshake", "serving"} /\ StopEvent
  \/ pc[c] \in {"serving", "reading"} /\ lease[c] = "expired"

LeaseOrStopSeen(c) ==
  /\ MustEnd(c)
  /\ Goto(c, "find")
  /\ OnlyControl /\ UNCHANGED localVars

\* A malformed message, a mismatched source or token, a second handshake, a
\* handler that raises, a destination nobody handles: the connection ends.
RejectMessage(c) ==
  /\ pc[c] = "dispatch"
  /\ Goto(c, "find")
  /\ OnlyControl /\ UNCHANGED localVars

\* A query, a service call, or a message answered with an error envelope.
AnswerMessage(c) ==
  /\ pc[c] = "dispatch"
  /\ Goto(c, LoopTop(c))
  /\ OnlyControl /\ UNCHANGED localVars

-----------------------------------------------------------------------------
(* DEVICE_REGISTER: _handle_device_register.                               *)

\* The payload names another device than the authenticated identity, or a
\* device that is online already: the connection is closed.
RegisterRefused(c, d) ==
  /\ pc[c] = "dispatch" /\ ~MayRegister(c, d)
  /\ Goto(c, "find")
  /\ OnlyControl /\ UNCHANGED localVars

\* DeviceRegistry.register, under the registry lock.
RegisterDevice(c, d) ==
  /\ pc[c] = "dispatch" /\ MayRegister(c, d)
  /\ status' = [status EXCEPT ![d] = "online"]
  /\ cid' = [cid EXCEPT ![d] = c]
  /\ held' = held \cup {c}
  /\ target' = [target EXCEPT ![c] = d]
  /\ Goto(c, "bind")
  /\ UNCHANGED <<acceptor, tableVars, sessionVars, binding, via, delivered,
                 lastEvent, stopVars>>

\* The live socket is bound, under the transport lock.
BindSocket(c) ==
  /\ pc[c] = "bind"
  /\ binding' = [binding EXCEPT ![target[c]] = c]
  /\ Goto(c, "announce")
  /\ UNCHANGED <<acceptor, tableVars, sessionVars, recordVars, localVars,
                 outVars, stopVars>>

\* DEVICE_CONNECTED is emitted and the response sent.
AnnounceDevice(c) ==
  /\ pc[c] = "announce"
  /\ lastEvent' = [lastEvent EXCEPT ![target[c]] = Connected(c)]
  /\ Goto(c, LoopTop(c)) /\ Forget(c)
  /\ UNCHANGED <<acceptor, tableVars, sessionVars, recordVars, binding,
                 delivered, held, stopVars>>

-----------------------------------------------------------------------------
(* Device-to-device messages and data distribution: _handle_device_routed  *)
(* and the second half of _handle_data_request.                            *)

\* The destination has a record and the sender is registered.
ForwardTo(c, d) ==
  /\ pc[c] = "dispatch"
  /\ status[d] # "absent" /\ IsRegistered(c)
  /\ target' = [target EXCEPT ![c] = d]
  /\ Goto(c, "snapshot")
  /\ OnlyControl /\ UNCHANGED via

\* The destination's binding is read under the transport lock.
SnapshotBinding(c) ==
  /\ pc[c] = "snapshot"
  /\ via' = [via EXCEPT ![c] = binding[target[c]]]
  /\ Goto(c, "check")
  /\ OnlyControl /\ UNCHANGED target

\* record.status is read, without a lock.
CheckStatus(c) ==
  /\ pc[c] = "check"
  /\ IF status[target[c]] = "online"
       THEN Goto(c, "compare") /\ UNCHANGED localVars
       ELSE Goto(c, LoopTop(c)) /\ Forget(c)
  /\ OnlyControl

\* record.connection_id is read, without a lock, and compared with the binding.
CompareConnection(c) ==
  /\ pc[c] = "compare"
  /\ IF via[c] # NoConn /\ via[c] = cid[target[c]]
       THEN Goto(c, "send") /\ UNCHANGED localVars
       ELSE Goto(c, LoopTop(c)) /\ Forget(c)
  /\ OnlyControl

\* sendall on the socket that was read: it may have been closed since.
SendForward(c) ==
  /\ pc[c] = "send"
  /\ \/ /\ SocketOpen(via[c])
        /\ delivered' = delivered \cup {<<target[c], via[c]>>}
     \/ UNCHANGED delivered
  /\ Goto(c, LoopTop(c)) /\ Forget(c)
  /\ UNCHANGED <<acceptor, tableVars, sessionVars, recordVars, binding,
                 lastEvent, held, stopVars>>

-----------------------------------------------------------------------------
(* The finally block of _handle_connection.                                *)

\* _cleanup_device_binding: find the record that names this connection.
FindRecord(c) ==
  /\ pc[c] = "find"
  /\ \/ /\ FindByConnection(c) = {}
        /\ Goto(c, "close")
        /\ UNCHANGED target
     \/ \E d \in FindByConnection(c) :
          /\ target' = [target EXCEPT ![c] = d]
          /\ Goto(c, "unbind")
  /\ OnlyControl /\ UNCHANGED via

\* A binding of a newer connection is left alone, and so is the record.
UnbindSocket(c) ==
  /\ pc[c] = "unbind"
  /\ IF binding[target[c]] \notin {NoConn, c}
       THEN Goto(c, "close") /\ Forget(c) /\ UNCHANGED binding
       ELSE /\ binding' = [binding EXCEPT ![target[c]] = NoConn]
            /\ Goto(c, "offline") /\ UNCHANGED localVars
  /\ UNCHANGED <<acceptor, tableVars, sessionVars, recordVars, outVars,
                 stopVars>>

\* Faulty: mark_offline does not compare connection ids.
NamedOrNot(d, c) == TRUE

\* mark_offline(device_id, connection_id) applies only to a record that still
\* names this connection.
StillNamed(d, c) == cid[d] = c

MarkOffline(c) ==
  /\ pc[c] = "offline"
  /\ IF StillNamed(target[c], c)
       THEN /\ status' = [status EXCEPT ![target[c]] = "offline"]
            /\ cid' = [cid EXCEPT ![target[c]] = NoConn]
       ELSE UNCHANGED recordVars
  /\ Goto(c, "emit")
  /\ UNCHANGED <<acceptor, tableVars, sessionVars, binding, localVars, outVars,
                 stopVars>>

\* Faulty: the event names the connection the record names by now.
EmitOfRecord(c) ==
  /\ pc[c] = "emit"
  /\ lastEvent' = [lastEvent EXCEPT ![target[c]] = Disconnected(cid[target[c]])]
  /\ Goto(c, "close") /\ Forget(c)
  /\ UNCHANGED <<acceptor, tableVars, sessionVars, recordVars, binding,
                 delivered, held, stopVars>>

\* DEVICE_DISCONNECTED is emitted, whatever the record says by now: no lock
\* is held since the record was marked, so another connection may have
\* registered the device and announced it.
EmitDisconnected(c) ==
  /\ pc[c] = "emit"
  /\ lastEvent' = [lastEvent EXCEPT ![target[c]] = Disconnected(c)]
  /\ Goto(c, "close") /\ Forget(c)
  /\ UNCHANGED <<acceptor, tableVars, sessionVars, recordVars, binding,
                 delivered, held, stopVars>>

CloseSocket(c) ==
  /\ pc[c] = "close"
  /\ Goto(c, "remove")
  /\ OnlyControl /\ UNCHANGED localVars

\* _remove_session: the slot is freed and the token of a session that was in
\* the table destroyed.
RemoveSession(c) ==
  /\ pc[c] = "remove"
  /\ connections' = connections \ {c}
  /\ token' = [token EXCEPT ![c] = token[c] /\ c \notin connections]
  /\ Goto(c, "done")
  /\ UNCHANGED <<acceptor, reserved, total, rejected, identity, lease,
                 recordVars, binding, localVars, outVars, stopVars>>

-----------------------------------------------------------------------------
(* TcpTransport.stop().                                                    *)

OnlyStop ==
  UNCHANGED <<pc, acceptor, total, rejected, identity, lease, localVars,
              outVars>>

StopRequested ==
  /\ CanStop /\ stopper = "run"
  /\ stopper' = "flagged"
  /\ OnlyStop
  /\ UNCHANGED <<reserved, connections, token, recordVars, binding, stopIds,
                 markIds, markNow>>

\* _close_all_connections: the ids are listed and _reserved is zeroed.
StopListSessions ==
  /\ stopper = "flagged"
  /\ stopper' = "removing"
  /\ stopIds' = connections
  /\ reserved' = 0
  /\ OnlyStop
  /\ UNCHANGED <<connections, token, recordVars, binding, markIds, markNow>>

\* _remove_session for one listed id.
StopRemoveSession(c) ==
  /\ stopper = "removing" /\ c \in stopIds
  /\ connections' = connections \ {c}
  /\ token' = [token EXCEPT ![c] = token[c] /\ c \notin connections]
  /\ stopIds' = stopIds \ {c}
  /\ OnlyStop
  /\ UNCHANGED <<reserved, recordVars, binding, stopper, markIds, markNow>>

StopSessionsRemoved ==
  /\ stopper = "removing" /\ stopIds = {}
  /\ stopper' = "server"
  /\ OnlyStop
  /\ UNCHANGED <<reserved, connections, token, recordVars, binding, stopIds,
                 markIds, markNow>>

\* _stop_server closes the listener (the join has a timeout, so the accept
\* loop may still be in a TLS handshake), then mark_all_offline lists the
\* records.
StopServer ==
  /\ stopper = "server"
  /\ stopper' = "marking"
  /\ markIds' = {d \in Devices : status[d] # "absent"}
  /\ OnlyStop
  /\ UNCHANGED <<reserved, connections, token, recordVars, binding, stopIds,
                 markNow>>

\* mark_all_offline, first half of an iteration: mark_offline(device_id, None).
StopMarkOffline(d) ==
  /\ stopper = "marking" /\ markNow = NoDev /\ d \in markIds
  /\ status' = [status EXCEPT ![d] = "offline"]
  /\ cid' = [cid EXCEPT ![d] = NoConn]
  /\ markIds' = markIds \ {d}
  /\ markNow' = d
  /\ OnlyStop
  /\ UNCHANGED <<reserved, connections, token, binding, stopper, stopIds>>

\* Second half, under the lock again: record.connection_id = None.
StopClearConnection ==
  /\ stopper = "marking" /\ markNow # NoDev
  /\ cid' = [cid EXCEPT ![markNow] = NoConn]
  /\ markNow' = NoDev
  /\ OnlyStop
  /\ UNCHANGED <<reserved, connections, token, status, binding, stopper,
                 stopIds, markIds>>

StopDevicesMarked ==
  /\ stopper = "marking" /\ markNow = NoDev /\ markIds = {}
  /\ stopper' = "sockets"
  /\ OnlyStop
  /\ UNCHANGED <<reserved, connections, token, recordVars, binding, stopIds,
                 markIds, markNow>>

\* _device_sockets.clear()
StopClearSockets ==
  /\ stopper = "sockets"
  /\ stopper' = "stopped"
  /\ binding' = [d \in Devices |-> NoConn]
  /\ OnlyStop
  /\ UNCHANGED <<reserved, connections, token, recordVars, stopIds, markIds,
                 markNow>>

Stop ==
  \/ StopListSessions \/ StopSessionsRemoved \/ StopServer
  \/ StopClearConnection \/ StopDevicesMarked \/ StopClearSockets
  \/ \E c \in Conns : StopRemoveSession(c)
  \/ \E d \in Devices : StopMarkOffline(d)

-----------------------------------------------------------------------------
\* What clients and the clock decide.
Environment(c) ==
  \/ AcceptReserve(c) \/ AcceptRefuse(c)
  \/ TlsEstablished(c) \/ TlsFailed(c)
  \/ HelloReadable(c) \/ HandshakeAborted(c)
  \/ RejectHandshake(c) \/ \E d \in Devices : Authenticate(c, d)
  \/ FrameReadable(c) \/ ReadFrame(c) \/ PeerGone(c)
  \/ LeaseExpires(c)

\* What a handler thread does with the message it has.
HandleMessage(c) ==
  \/ RejectMessage(c) \/ AnswerMessage(c)
  \/ \E d \in Devices : \/ RegisterRefused(c, d) \/ RegisterDevice(c, d)
                        \/ ForwardTo(c, d)
  \/ BindSocket(c) \/ AnnounceDevice(c)
  \/ SnapshotBinding(c) \/ CheckStatus(c) \/ CompareConnection(c)
  \/ SendForward(c)

\* The finally block, step by step.
Cleanup(c) ==
  \/ FindRecord(c) \/ UnbindSocket(c) \/ MarkOffline(c)
  \/ EmitDisconnected(c) \/ CloseSocket(c) \/ RemoveSession(c)

\* Every connection there is has been served or refused, or finds no listener.
AllServed ==
  /\ \A c \in Conns : \/ pc[c] \in {"refused", "done"}
                      \/ pc[c] = "idle" /\ acceptor = "exited"
  /\ stopper \in {"run", "stopped"}
  /\ UNCHANGED vars

Next ==
  \/ \E c \in Conns : \/ Environment(c) \/ RegisterSession(c)
                      \/ LeaseOrStopSeen(c) \/ HandleMessage(c) \/ Cleanup(c)
  \/ AcceptorExit
  \/ StopRequested
  \/ Stop
  \/ AllServed

Spec == Init /\ [][Next]_vars

\* A thread that is not waiting for its peer keeps running (no lock of the
\* transport is held across a blocking call), _wait_readable polls at least
\* every second, and recv on a TLS socket returns at least every five.
ThreadStep(c) ==
  RegisterSession(c) \/ LeaseOrStopSeen(c) \/ HandleMessage(c) \/ Cleanup(c)

Fairness ==
  /\ \A c \in Conns : WF_vars(ThreadStep(c))
  /\ WF_vars(Stop)

FairSpec == Spec /\ Fairness

-----------------------------------------------------------------------------
(* Correctness.                                                            *)

TypeOK ==
  /\ pc \in [Conns -> PcValues]
  /\ acceptor \in {"waiting", "tls", "exited"}
  /\ reserved \in Nat /\ total \in Nat /\ rejected \in Nat
  /\ connections \subseteq Conns
  /\ identity \in [Conns -> Devices \cup {NoDev}]
  /\ token \in [Conns -> BOOLEAN]
  /\ lease \in [Conns -> {"none", "running", "expired"}]
  /\ status \in [Devices -> {"absent", "offline", "online"}]
  /\ cid \in [Devices -> Conns \cup {NoConn}]
  /\ binding \in [Devices -> Conns \cup {NoConn}]
  /\ target \in [Conns -> Devices \cup {NoDev}]
  /\ via \in [Conns -> Conns \cup {NoConn}]
  /\ delivered \subseteq Devices \X Conns
  /\ lastEvent \in [Devices -> Events]
  /\ held \subseteq Conns
  /\ stopper \in StopSteps
  /\ stopIds \subseteq Conns
  /\ markIds \subseteq Devices
  /\ markNow \in Devices \cup {NoDev}

\* The connections whose thread is at one of the places in S.
At(S) == {c \in Conns : pc[c] \in S}

\* Admitted and half-admitted connections together never exceed the budget
\* (try_reserve_slot: "a concurrent burst can never admit more than 64 total"),
\* not even when stop() zeroes the reservations under running TLS handshakes.
AdmissionCap == Cardinality(connections) + reserved <= MAX_CONNECTIONS

\* Until stop() is called the counters agree with the threads: a slot is
\* reserved exactly while a connection is between accept() and its session, and
\* a session is in the table exactly while its handler thread runs. No slot
\* leaks on any path, so the budget is never eaten up by dead connections.
SlotAccounting ==
  ~StopEvent =>
    /\ reserved = Cardinality(At({"tls", "admitted"}))
    /\ connections = At(InService \cup InCleanup)

\* Every connection is counted once: as rejected by exactly one of the three
\* places that count rejections, or as admitted.
CountedOnce ==
  /\ rejected = Cardinality(At({"refused"}))
  /\ total = Cardinality(At(InService \cup InCleanup \cup {"done"}))

\* What the 64-connection budget rests on: the threads that reserve, admit,
\* reject and close connections keep the two counters and the table together.
SlotsKept == TypeOK /\ AdmissionCap /\ SlotAccounting /\ CountedOnce

\* A reservation is a promise: until stop() is called, no connection that got
\* through its TLS handshake is turned away by _register_session.
ReservationHonoured ==
  [][\A c \in Conns :
       pc[c] = "admitted" /\ pc'[c] = "refused" => StopEvent]_vars

\* A record or a socket binding names only connections that authenticated as
\* that device, whatever was read before a lock was released.
BindingIdentity ==
  \A d \in Devices, c \in Conns :
    cid[d] = c \/ binding[d] = c => identity[c] = d

\* A frame addressed to a device is written only to a socket authenticated as
\* that device, although the binding is read under one lock, the record is
\* compared without one, and the socket is written after both.
DeliverySafe ==
  \A d \in Devices, c \in Conns : <<d, c>> \in delivered => identity[c] = d

\* No device is ever represented by, or written to on, the connection of another.
BoundRight == BindingIdentity /\ DeliverySafe

\* Until stop() is called a record is online exactly while it names a
\* connection, and the thread of that connection has yet to run its cleanup:
\* no device stays online behind a dead connection.
NoGhostDevice ==
  ~StopEvent =>
    \A d \in Devices :
      /\ status[d] = "online" <=> cid[d] # NoConn
      /\ \A c \in Conns : cid[d] = c =>
           pc[c] \in InService \cup {"find", "unbind", "offline"}

\* Until stop() is called a device that has completed its registration can be
\* reached: its record and its socket binding agree whenever its thread is back
\* in the message loop, and a binding never outlives the record's connection.
ReachableWhenOnline ==
  ~StopEvent =>
    \A d \in Devices, c \in Conns :
      /\ binding[d] = c => cid[d] = c
      /\ cid[d] = c /\ pc[c] # "bind" => binding[d] = c \/ pc[c] = "offline"

\* Until stop() is called a subscriber that compares connection ids is never
\* misled by the last event about a device, although events are emitted after
\* both locks are released. CONNECTED names a connection whose thread has yet
\* to emit its DISCONNECTED. DISCONNECTED names one that the record and the
\* binding no longer name. While a connection that has announced the device
\* represents it, the last event is its CONNECTED or the DISCONNECTED of
\* another connection, which _cleanup_device_binding may emit late: the kind of
\* the last event alone does not tell whether the device is connected.
EventsTellConnection ==
  ~StopEvent =>
    \A d \in Devices, c \in Conns :
      /\ lastEvent[d] = Connected(c) =>
           pc[c] \in InService \cup {"find", "unbind", "offline", "emit"}
      /\ lastEvent[d] = Disconnected(c) => cid[d] # c /\ binding[d] # c
      /\ cid[d] = c /\ pc[c] \notin {"bind", "announce"} =>
           \/ lastEvent[d] = Connected(c)
           \/ \E e \in Conns \ {c} : lastEvent[d] = Disconnected(e)

\* Until stop() is called the record and the socket binding of a device agree
\* on the connection it is reached by, and the last event about the device is
\* about that connection or recognisably about another.
PresenceTrue == NoGhostDevice /\ ReachableWhenOnline /\ EventsTellConnection

\* The close of one connection never takes a device from another, even while
\* stop() clears the records: a record stops naming a connection only in that
\* connection's own mark_offline or in stop()'s, and until stop() is called a
\* socket binding does only in that connection's own cleanup.
StaleCloseSafe ==
  [][\A c \in Conns, d \in Devices :
       /\ cid[d] = c /\ cid'[d] # c =>
            \/ pc[c] = "offline" /\ pc'[c] = "emit"
            \/ stopper = "marking" /\ pc' = pc
       /\ binding[d] = c /\ binding'[d] # c =>
            \/ pc[c] = "unbind" /\ pc'[c] = "offline"
            \/ StopEvent]_vars

\* Everything a connection held is given back.
Released(c) ==
  /\ pc[c] = "done" /\ c \notin connections /\ ~token[c]
  /\ \A d \in Devices : cid[d] # c /\ binding[d] # c

\* At expiry of its lease a connection is closed and gives back its slot, its
\* token, its socket binding and its device record, unless stop() is called.
LeaseEnforced ==
  \A c \in Conns : lease[c] = "expired" ~> Released(c) \/ StopEvent

\* Once stop() is called it finishes, and the thread of every connection that
\* has a session ends, except one that waits in _recv_exact for the rest of a
\* frame: that one looks at the lease and the idle timeout only.
StopDrains ==
  /\ StopEvent ~> stopper = "stopped"
  /\ \A c \in Conns :
       [](StopEvent /\ pc[c] \in InService
            => <>(pc[c] = "done") \/ <>[](pc[c] \in {"hello", "reading"}))

\* docs/device-communication.md: "Close, rejection or shutdown marks the device
\* `offline`, clears its `connection_id`": once stop() has returned and every
\* thread has ended, no device is online.
ShutdownMarksOffline ==
  (stopper = "stopped" /\ At({"idle", "refused", "done"}) = Conns)
    => \A d \in Devices : status[d] # "online" /\ cid[d] = NoConn

\* Until stop() is called the records implement the abstract presence service:
\* a device is represented by the connection its record names, and every step
\* is one of the service's or changes nothing the service knows of.
Presence == INSTANCE DevicePresence WITH holder <- cid, used <- held

PresenceRefined ==
  Presence!Init /\ [][StopEvent \/ Presence!Next]_(Presence!vars)

=============================================================================
