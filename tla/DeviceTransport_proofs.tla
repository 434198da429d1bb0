----------------------- MODULE DeviceTransport_proofs -----------------------
(***************************************************************************)
(* Proofs about DeviceTransport for every set of connections and devices   *)
(* and every budget. Four inductive invariants are built on one another:   *)
(* TypeInv (types of the state and of the threads' locals), IdentityInv    *)
(* (who is named where), CountInv (slots and counters), RunInv (records,   *)
(* bindings and events against the threads, until stop() is called).       *)
(***************************************************************************)
EXTENDS DeviceTransport, FiniteSetTheorems, TLAPS

-----------------------------------------------------------------------------
(* Types.                                                                  *)

\* Where a thread uses the device in its local variable target.
UsesTarget ==
  {"bind", "announce", "snapshot", "check", "compare", "send", "unbind",
   "offline", "emit"}

LocalsOK ==
  \A c \in Conns :
    /\ pc[c] \in UsesTarget => target[c] \in Devices
    /\ pc[c] = "send" => via[c] \in Conns

TypeInv == TypeOK /\ LocalsOK

\* What is emitted is an event.
LEMMA EventTypes ==
  /\ NoEvent \in Events
  /\ \A c \in Conns : Connected(c) \in Events /\ Disconnected(c) \in Events
  BY DEF Events

\* The initial states have the types.
LEMMA TypeInit == Init => TypeInv
  BY ConnsAssumption, DevicesAssumption, EventTypes
  DEF Init, TypeInv, TypeOK, LocalsOK, PcValues, InService, InCleanup,
      StopSteps, UsesTarget

\* Every step keeps the types.
LEMMA TypeStep == TypeInv /\ [Next]_vars => TypeInv'
<1> SUFFICES ASSUME TypeInv, [Next]_vars PROVE TypeInv'
  OBVIOUS
<1> USE ConnsAssumption, DevicesAssumption, EventTypes
     DEF TypeInv, TypeOK, LocalsOK, PcValues, InService, InCleanup,
     StopSteps, UsesTarget, Goto, Forget, OnlyControl,
     OnlyStop, tableVars, sessionVars, recordVars, localVars, outVars,
     stopVars
<1>1. ASSUME NEW c \in Conns, AcceptReserve(c) PROVE TypeInv'
  BY <1>1 DEF AcceptReserve
<1>2. ASSUME NEW c \in Conns, AcceptRefuse(c) PROVE TypeInv'
  BY <1>2 DEF AcceptRefuse, AcceptAgain
<1>3. ASSUME NEW c \in Conns, TlsEstablished(c) PROVE TypeInv'
  BY <1>3 DEF TlsEstablished, AcceptAgain
<1>4. ASSUME NEW c \in Conns, TlsFailed(c) PROVE TypeInv'
  BY <1>4 DEF TlsFailed, AcceptAgain, ReservationLess
<1>5. ASSUME NEW c \in Conns, RegisterSession(c) PROVE TypeInv'
  BY <1>5 DEF RegisterSession, ReservationLess
<1>6. ASSUME NEW c \in Conns, HelloReadable(c) PROVE TypeInv'
  BY <1>6 DEF HelloReadable
<1>7. ASSUME NEW c \in Conns, HandshakeAborted(c) PROVE TypeInv'
  BY <1>7 DEF HandshakeAborted
<1>8. ASSUME NEW c \in Conns, RejectHandshake(c) PROVE TypeInv'
  BY <1>8 DEF RejectHandshake
<1>9. ASSUME NEW c \in Conns, LeaseExpires(c) PROVE TypeInv'
  BY <1>9 DEF LeaseExpires
<1>10. ASSUME NEW c \in Conns, FrameReadable(c) PROVE TypeInv'
  BY <1>10 DEF FrameReadable
<1>11. ASSUME NEW c \in Conns, ReadFrame(c) PROVE TypeInv'
  BY <1>11 DEF ReadFrame
<1>12. ASSUME NEW c \in Conns, PeerGone(c) PROVE TypeInv'
  BY <1>12 DEF PeerGone
<1>13. ASSUME NEW c \in Conns, LeaseOrStopSeen(c) PROVE TypeInv'
  BY <1>13 DEF LeaseOrStopSeen, MustEnd
<1>14. ASSUME NEW c \in Conns, RejectMessage(c) PROVE TypeInv'
  BY <1>14 DEF RejectMessage
<1>15. ASSUME NEW c \in Conns, AnswerMessage(c) PROVE TypeInv'
  BY <1>15 DEF AnswerMessage, LoopTop
<1>16. ASSUME NEW c \in Conns, BindSocket(c) PROVE TypeInv'
  BY <1>16 DEF BindSocket
<1>17. ASSUME NEW c \in Conns, AnnounceDevice(c) PROVE TypeInv'
  BY <1>17 DEF AnnounceDevice, LoopTop
<1>18. ASSUME NEW c \in Conns, SnapshotBinding(c) PROVE TypeInv'
  BY <1>18 DEF SnapshotBinding
<1>19. ASSUME NEW c \in Conns, CheckStatus(c) PROVE TypeInv'
  BY <1>19 DEF CheckStatus, LoopTop
<1>20. ASSUME NEW c \in Conns, CompareConnection(c) PROVE TypeInv'
  BY <1>20 DEF CompareConnection, LoopTop
<1>21. ASSUME NEW c \in Conns, SendForward(c) PROVE TypeInv'
  BY <1>21 DEF SendForward, LoopTop
<1>22. ASSUME NEW c \in Conns, FindRecord(c) PROVE TypeInv'
  BY <1>22 DEF FindRecord, FindByConnection
<1>23. ASSUME NEW c \in Conns, UnbindSocket(c) PROVE TypeInv'
  BY <1>23 DEF UnbindSocket
<1>24. ASSUME NEW c \in Conns, MarkOffline(c) PROVE TypeInv'
  BY <1>24 DEF MarkOffline, StillNamed
<1>25. ASSUME NEW c \in Conns, EmitDisconnected(c) PROVE TypeInv'
  BY <1>25 DEF EmitDisconnected
<1>26. ASSUME NEW c \in Conns, CloseSocket(c) PROVE TypeInv'
  BY <1>26 DEF CloseSocket
<1>27. ASSUME NEW c \in Conns, RemoveSession(c) PROVE TypeInv'
  BY <1>27 DEF RemoveSession
<1>28. ASSUME NEW c \in Conns, StopRemoveSession(c) PROVE TypeInv'
  BY <1>28 DEF StopRemoveSession
<1>29. ASSUME NEW c \in Conns, NEW d \in Devices, Authenticate(c, d)
      PROVE TypeInv'
  BY <1>29 DEF Authenticate, LoopTop
<1>30. ASSUME NEW c \in Conns, NEW d \in Devices, RegisterRefused(c, d)
      PROVE TypeInv'
  BY <1>30 DEF RegisterRefused
<1>31. ASSUME NEW c \in Conns, NEW d \in Devices, RegisterDevice(c, d)
      PROVE TypeInv'
  BY <1>31 DEF RegisterDevice, MayRegister
<1>32. ASSUME NEW c \in Conns, NEW d \in Devices, ForwardTo(c, d)
      PROVE TypeInv'
  BY <1>32 DEF ForwardTo
<1>33. ASSUME NEW d \in Devices, StopMarkOffline(d) PROVE TypeInv'
  BY <1>33 DEF StopMarkOffline
<1>34. CASE AcceptorExit
  BY <1>34 DEF AcceptorExit
<1>35. CASE StopRequested
  BY <1>35 DEF StopRequested
<1>36. CASE StopListSessions
  BY <1>36 DEF StopListSessions
<1>37. CASE StopSessionsRemoved
  BY <1>37 DEF StopSessionsRemoved
<1>38. CASE StopServer
  BY <1>38 DEF StopServer
<1>39. CASE StopClearConnection
  BY <1>39 DEF StopClearConnection
<1>40. CASE StopDevicesMarked
  BY <1>40 DEF StopDevicesMarked
<1>41. CASE StopClearSockets
  BY <1>41 DEF StopClearSockets
<1>42. CASE AllServed
  BY <1>42 DEF AllServed, vars
<1>43. CASE UNCHANGED vars
  BY <1>43 DEF vars
<1> QED
  BY <1>1, <1>2, <1>3, <1>4, <1>5, <1>6, <1>7, <1>8, <1>9, <1>10, <1>11,
       <1>12, <1>13, <1>14, <1>15, <1>16, <1>17, <1>18, <1>19, <1>20, <1>21,
       <1>22, <1>23, <1>24, <1>25, <1>26, <1>27, <1>28, <1>29, <1>30, <1>31,
       <1>32, <1>33, <1>34, <1>35, <1>36, <1>37, <1>38, <1>39, <1>40, <1>41,
       <1>42, <1>43 DEF Next, Environment, HandleMessage, Cleanup, Stop

-----------------------------------------------------------------------------
(* Identities.                                                             *)

BeforeLogin == {"idle", "refused", "tls", "admitted", "handshake", "hello"}

\* A connection has no identity before its handshake, and a thread's locals
\* carry identities across the points where it holds no lock: the device it
\* registers or cleans up is its own, and the binding it read belongs to the
\* device it forwards to.
IdentityInv ==
  /\ \A c \in Conns :
       /\ pc[c] \in BeforeLogin => identity[c] = NoDev
       /\ pc[c] \in {"bind", "announce", "unbind", "offline", "emit"}
            => target[c] = identity[c]
       /\ pc[c] \in {"check", "compare", "send"} /\ via[c] \in Conns
            => identity[via[c]] = target[c]
  /\ BindingIdentity /\ DeliverySafe

\* No connection is named by anything yet.
LEMMA IdentityInit == Init => IdentityInv
  BY ConnsAssumption, DevicesAssumption
  DEF Init, IdentityInv, BeforeLogin, BindingIdentity, DeliverySafe

\* Every step keeps records, bindings and frames with the identity.
LEMMA IdentityStep == TypeInv /\ IdentityInv /\ [Next]_vars => IdentityInv'
<1> SUFFICES ASSUME TypeInv /\ IdentityInv, [Next]_vars PROVE IdentityInv'
  OBVIOUS
<1> USE ConnsAssumption, DevicesAssumption DEF TypeInv, TypeOK, LocalsOK,
     PcValues, InService, InCleanup, StopSteps, UsesTarget, IdentityInv,
     BeforeLogin, BindingIdentity, DeliverySafe, Goto, Forget, OnlyControl,
     OnlyStop, tableVars, sessionVars, recordVars, localVars, outVars, stopVars
<1>1. ASSUME NEW c \in Conns, AcceptReserve(c) PROVE IdentityInv'
  BY <1>1 DEF AcceptReserve
<1>2. ASSUME NEW c \in Conns, AcceptRefuse(c) PROVE IdentityInv'
  BY <1>2 DEF AcceptRefuse, AcceptAgain
<1>3. ASSUME NEW c \in Conns, TlsEstablished(c) PROVE IdentityInv'
  BY <1>3 DEF TlsEstablished, AcceptAgain
<1>4. ASSUME NEW c \in Conns, TlsFailed(c) PROVE IdentityInv'
  BY <1>4 DEF TlsFailed, AcceptAgain, ReservationLess
<1>5. ASSUME NEW c \in Conns, RegisterSession(c) PROVE IdentityInv'
  BY <1>5 DEF RegisterSession, ReservationLess
<1>6. ASSUME NEW c \in Conns, HelloReadable(c) PROVE IdentityInv'
  BY <1>6 DEF HelloReadable
<1>7. ASSUME NEW c \in Conns, HandshakeAborted(c) PROVE IdentityInv'
  BY <1>7 DEF HandshakeAborted
<1>8. ASSUME NEW c \in Conns, RejectHandshake(c) PROVE IdentityInv'
  BY <1>8 DEF RejectHandshake
<1>9. ASSUME NEW c \in Conns, LeaseExpires(c) PROVE IdentityInv'
  BY <1>9 DEF LeaseExpires
<1>10. ASSUME NEW c \in Conns, FrameReadable(c) PROVE IdentityInv'
  BY <1>10 DEF FrameReadable
<1>11. ASSUME NEW c \in Conns, ReadFrame(c) PROVE IdentityInv'
  BY <1>11 DEF ReadFrame
<1>12. ASSUME NEW c \in Conns, PeerGone(c) PROVE IdentityInv'
  BY <1>12 DEF PeerGone
<1>13. ASSUME NEW c \in Conns, LeaseOrStopSeen(c) PROVE IdentityInv'
  BY <1>13 DEF LeaseOrStopSeen, MustEnd
<1>14. ASSUME NEW c \in Conns, RejectMessage(c) PROVE IdentityInv'
  BY <1>14 DEF RejectMessage
<1>15. ASSUME NEW c \in Conns, AnswerMessage(c) PROVE IdentityInv'
  BY <1>15 DEF AnswerMessage, LoopTop
<1>16. ASSUME NEW c \in Conns, BindSocket(c) PROVE IdentityInv'
  BY <1>16 DEF BindSocket
<1>17. ASSUME NEW c \in Conns, AnnounceDevice(c) PROVE IdentityInv'
  BY <1>17 DEF AnnounceDevice, LoopTop
<1>18. ASSUME NEW c \in Conns, SnapshotBinding(c) PROVE IdentityInv'
  BY <1>18 DEF SnapshotBinding
<1>19. ASSUME NEW c \in Conns, CheckStatus(c) PROVE IdentityInv'
  BY <1>19 DEF CheckStatus, LoopTop
<1>20. ASSUME NEW c \in Conns, CompareConnection(c) PROVE IdentityInv'
  BY <1>20 DEF CompareConnection, LoopTop
<1>21. ASSUME NEW c \in Conns, SendForward(c) PROVE IdentityInv'
  BY <1>21 DEF SendForward, LoopTop
<1>22. ASSUME NEW c \in Conns, FindRecord(c) PROVE IdentityInv'
  BY <1>22 DEF FindRecord, FindByConnection
<1>23. ASSUME NEW c \in Conns, UnbindSocket(c) PROVE IdentityInv'
  BY <1>23 DEF UnbindSocket
<1>24. ASSUME NEW c \in Conns, MarkOffline(c) PROVE IdentityInv'
  BY <1>24 DEF MarkOffline, StillNamed
<1>25. ASSUME NEW c \in Conns, EmitDisconnected(c) PROVE IdentityInv'
  BY <1>25 DEF EmitDisconnected
<1>26. ASSUME NEW c \in Conns, CloseSocket(c) PROVE IdentityInv'
  BY <1>26 DEF CloseSocket
<1>27. ASSUME NEW c \in Conns, RemoveSession(c) PROVE IdentityInv'
  BY <1>27 DEF RemoveSession
<1>28. ASSUME NEW c \in Conns, StopRemoveSession(c) PROVE IdentityInv'
  BY <1>28 DEF StopRemoveSession
<1>29. ASSUME NEW c \in Conns, NEW d \in Devices, Authenticate(c, d)
      PROVE IdentityInv'
  BY <1>29 DEF Authenticate, LoopTop
<1>30. ASSUME NEW c \in Conns, NEW d \in Devices, RegisterRefused(c, d)
      PROVE IdentityInv'
  BY <1>30 DEF RegisterRefused
<1>31. ASSUME NEW c \in Conns, NEW d \in Devices, RegisterDevice(c, d)
      PROVE IdentityInv'
  BY <1>31 DEF RegisterDevice, MayRegister
<1>32. ASSUME NEW c \in Conns, NEW d \in Devices, ForwardTo(c, d)
      PROVE IdentityInv'
  BY <1>32 DEF ForwardTo
<1>33. ASSUME NEW d \in Devices, StopMarkOffline(d) PROVE IdentityInv'
  BY <1>33 DEF StopMarkOffline
<1>34. CASE AcceptorExit
  BY <1>34 DEF AcceptorExit
<1>35. CASE StopRequested
  BY <1>35 DEF StopRequested
<1>36. CASE StopListSessions
  BY <1>36 DEF StopListSessions
<1>37. CASE StopSessionsRemoved
  BY <1>37 DEF StopSessionsRemoved
<1>38. CASE StopServer
  BY <1>38 DEF StopServer
<1>39. CASE StopClearConnection
  BY <1>39 DEF StopClearConnection
<1>40. CASE StopDevicesMarked
  BY <1>40 DEF StopDevicesMarked
<1>41. CASE StopClearSockets
  BY <1>41 DEF StopClearSockets
<1>42. CASE AllServed
  BY <1>42 DEF AllServed, vars
<1>43. CASE UNCHANGED vars
  BY <1>43 DEF vars
<1> QED
  BY <1>1, <1>2, <1>3, <1>4, <1>5, <1>6, <1>7, <1>8, <1>9, <1>10, <1>11,
       <1>12, <1>13, <1>14, <1>15, <1>16, <1>17, <1>18, <1>19, <1>20, <1>21,
       <1>22, <1>23, <1>24, <1>25, <1>26, <1>27, <1>28, <1>29, <1>30, <1>31,
       <1>32, <1>33, <1>34, <1>35, <1>36, <1>37, <1>38, <1>39, <1>40, <1>41,
       <1>42, <1>43 DEF Next, Environment, HandleMessage, Cleanup, Stop

-----------------------------------------------------------------------------
(* Slots and counters.                                                     *)

\* The connections at any set of places are finitely many.
LEMMA AtFinite ==
  ASSUME NEW S
  PROVE  /\ IsFiniteSet(At(S)) /\ Cardinality(At(S)) \in Nat
         /\ Cardinality(At(S))' \in Nat
  BY ConnsAssumption, FS_Subset, FS_CardinalityType DEF At

\* A thread that moves to l enters the places S when l is one of them and
\* leaves them when it is not.
LEMMA AtAfterGoto ==
  ASSUME TypeOK, NEW c \in Conns, NEW l, Goto(c, l), NEW S
  PROVE  At(S)' = IF l \in S THEN At(S) \cup {c} ELSE At(S) \ {c}
  BY DEF At, Goto, TypeOK

\* A move within S, or outside S, leaves the threads at S as they are.
LEMMA AtKept ==
  ASSUME TypeOK, NEW c \in Conns, NEW l, Goto(c, l), NEW S,
         l \in S <=> pc[c] \in S
  PROVE  At(S)' = At(S)
  BY DEF At, Goto, TypeOK

\* The same, counted.
LEMMA GotoCount ==
  ASSUME TypeOK, NEW c \in Conns, NEW l, Goto(c, l), NEW S
  PROVE  Cardinality(At(S))' =
           IF l \in S /\ pc[c] \notin S THEN Cardinality(At(S)) + 1
           ELSE IF l \notin S /\ pc[c] \in S THEN Cardinality(At(S)) - 1
           ELSE Cardinality(At(S))
<1>1. At(S)' = IF l \in S THEN At(S) \cup {c} ELSE At(S) \ {c}
  BY AtAfterGoto
<1>2. c \in At(S) <=> pc[c] \in S
  BY DEF At
<1>3. IsFiniteSet(At(S))
  BY AtFinite
<1>4. CASE l \in S
  BY <1>1, <1>2, <1>3, <1>4, FS_AddElement
<1>5. CASE l \notin S
  BY <1>1, <1>2, <1>3, <1>5, FS_RemoveElement, AtFinite
<1> QED BY <1>4, <1>5

\* The places of a thread, as the counters see them: a slot is reserved for it,
\* its session is in the table, it was turned away, it was once in the table.
Waiting == {"tls", "admitted"}
Live == InService \cup InCleanup
Refused == {"refused"}
Served == Live \cup {"done"}

\* The inductive invariant of the counters: the budget, and each counter as the
\* number of threads it stands for.
CountInv ==
  /\ ~StopEvent => reserved = Cardinality(At(Waiting)) /\ connections = At(Live)
  /\ rejected = Cardinality(At(Refused))
  /\ total = Cardinality(At(Served))
  /\ AdmissionCap

\* Which place belongs to which kind.
LEMMA Places ==
  /\ {"tls", "admitted"} \subseteq Waiting
  /\ {"idle", "refused"} \cap Waiting = {}
  /\ Live \cap Waiting = {} /\ Served \cap Waiting = {}
  /\ "refused" \in Refused
  /\ Refused \cap Served = {} /\ Refused \cap Live = {}
  /\ Refused \cap Waiting = {}
  /\ {"idle", "tls", "admitted"} \cap (Served \cup Refused) = {}
  /\ {"handshake", "find", "remove"} \subseteq Live
  /\ Live \subseteq Served /\ "done" \in Served
  /\ "done" \notin Live \cup Waiting \cup Refused
  BY DEF Waiting, Live, Refused, Served, InService, InCleanup

\* A step of a thread within its service or cleanup disturbs no counter.
LEMMA QuietMove ==
  ASSUME TypeOK, CountInv, NEW c \in Conns, NEW l \in Live, pc[c] \in Live,
         Goto(c, l), UNCHANGED <<tableVars, stopper>>
  PROVE  CountInv'
<1>1. At(Waiting)' = At(Waiting) /\ At(Refused)' = At(Refused)
  BY AtKept, Places
<1>2. At(Live)' = At(Live) /\ At(Served)' = At(Served)
  BY AtKept, Places
<1> QED BY <1>1, <1>2 DEF CountInv, AdmissionCap, StopEvent, TypeOK, tableVars

\* Neither does a step that moves no thread and leaves the table alone.
LEMMA QuietStay ==
  ASSUME CountInv, UNCHANGED <<pc, tableVars>>,
         stopper' = stopper \/ stopper' # "run"
  PROVE  CountInv'
<1>1. \A S : At(S)' = At(S)
  BY DEF At
<1> QED BY <1>1 DEF CountInv, AdmissionCap, StopEvent, TypeOK, tableVars

\* The size of the session table when one session enters or leaves.
LEMMA TableCount ==
  ASSUME TypeOK, NEW c \in Conns
  PROVE  /\ Cardinality(connections) \in Nat
         /\ Cardinality(connections \cup {c}) =
              IF c \in connections THEN Cardinality(connections)
                                   ELSE Cardinality(connections) + 1
         /\ Cardinality(connections \ {c}) \in Nat
         /\ Cardinality(connections \ {c}) <= Cardinality(connections)
<1>1. IsFiniteSet(connections)
  BY ConnsAssumption, FS_Subset DEF TypeOK
<1>2. Cardinality(connections) \in Nat
  BY <1>1, FS_CardinalityType
<1>3. Cardinality(connections \cup {c}) =
        IF c \in connections THEN Cardinality(connections)
                             ELSE Cardinality(connections) + 1
  BY <1>1, FS_AddElement
<1>4. Cardinality(connections \ {c}) =
        IF c \in connections THEN Cardinality(connections) - 1
                             ELSE Cardinality(connections)
  BY <1>1, FS_RemoveElement
<1>5. Cardinality(connections \ {c}) \in Nat
  BY <1>1, FS_Subset, FS_CardinalityType
<1> QED BY <1>2, <1>3, <1>4, <1>5

\* The types the arithmetic below needs.
LEMMA Numbers ==
  ASSUME TypeOK
  PROVE  /\ reserved \in Nat /\ MAX_CONNECTIONS \in Nat
         /\ Cardinality(connections) \in Nat
  BY LimitAssumption, ConnsAssumption, FS_Subset, FS_CardinalityType DEF TypeOK

\* Every step preserves the counters.
LEMMA CountStep == TypeOK /\ CountInv /\ [Next]_vars => CountInv'
<1> SUFFICES ASSUME TypeOK /\ CountInv, [Next]_vars PROVE CountInv'
  OBVIOUS
<1>1. ASSUME NEW c \in Conns, AcceptReserve(c) PROVE CountInv'
  <2>1. Goto(c, "tls") /\ pc[c] = "idle"
    BY <1>1 DEF AcceptReserve
  <2>2. Cardinality(At(Waiting))' = Cardinality(At(Waiting)) + 1
    BY <2>1, GotoCount, Places
  <2>3. At(Refused)' = At(Refused) /\ At(Live)' = At(Live)
        /\ At(Served)' = At(Served)
    BY <2>1, AtKept, Places
  <2>4. /\ Cardinality(connections) + reserved < MAX_CONNECTIONS
        /\ reserved' = reserved + 1
        /\ UNCHANGED <<connections, total, rejected, stopper>>
    BY <1>1 DEF AcceptReserve, SlotFree, stopVars
  <2> QED
    BY <2>2, <2>3, <2>4, Numbers DEF CountInv, AdmissionCap, StopEvent
<1>2. ASSUME NEW c \in Conns, AcceptRefuse(c) PROVE CountInv'
  <2>1. Goto(c, "refused") /\ pc[c] = "idle"
    BY <1>2 DEF AcceptRefuse
  <2>2. Cardinality(At(Refused))' = Cardinality(At(Refused)) + 1
    BY <2>1, GotoCount, Places
  <2>3. At(Waiting)' = At(Waiting) /\ At(Live)' = At(Live)
        /\ At(Served)' = At(Served)
    BY <2>1, AtKept, Places
  <2> QED
    BY <1>2, <2>2, <2>3
    DEF AcceptRefuse, CountInv, AdmissionCap, StopEvent, TypeOK, stopVars
<1>3. ASSUME NEW c \in Conns, TlsEstablished(c) PROVE CountInv'
  <2>1. Goto(c, "admitted") /\ pc[c] = "tls"
    BY <1>3 DEF TlsEstablished
  <2>2. At(Waiting)' = At(Waiting) /\ At(Refused)' = At(Refused)
        /\ At(Live)' = At(Live) /\ At(Served)' = At(Served)
    BY <2>1, AtKept, Places
  <2> QED
    BY <1>3, <2>2
    DEF TlsEstablished, CountInv, AdmissionCap, StopEvent, TypeOK, stopVars,
        tableVars
<1>4. ASSUME NEW c \in Conns, TlsFailed(c) PROVE CountInv'
  <2>1. Goto(c, "refused") /\ pc[c] = "tls"
    BY <1>4 DEF TlsFailed
  <2>2. Cardinality(At(Waiting))' = Cardinality(At(Waiting)) - 1
        /\ Cardinality(At(Refused))' = Cardinality(At(Refused)) + 1
    BY <2>1, GotoCount, Places
  <2>3. At(Live)' = At(Live) /\ At(Served)' = At(Served)
    BY <2>1, AtKept, Places
  <2>4. Cardinality(At(Waiting)) \in Nat /\ Cardinality(At(Waiting))' \in Nat
    BY <2>2, AtFinite
  <2>5. /\ reserved' = IF reserved > 0 THEN reserved - 1 ELSE reserved
        /\ rejected' = rejected + 1
        /\ UNCHANGED <<connections, total, stopper>>
    BY <1>4 DEF TlsFailed, ReservationLess, stopVars
  <2> QED
    BY <2>2, <2>3, <2>4, <2>5, Numbers DEF CountInv, AdmissionCap, StopEvent
<1>5. ASSUME NEW c \in Conns, RegisterSession(c) PROVE CountInv'
  <2>1. pc[c] = "admitted"
    BY <1>5 DEF RegisterSession
  <2>2. CASE Cardinality(connections) >= MAX_CONNECTIONS
    <3>1. Goto(c, "refused")
      BY <1>5, <2>2 DEF RegisterSession
    <3>2. Cardinality(At(Waiting))' = Cardinality(At(Waiting)) - 1
          /\ Cardinality(At(Refused))' = Cardinality(At(Refused)) + 1
      BY <2>1, <3>1, GotoCount, Places
    <3>3. At(Live)' = At(Live) /\ At(Served)' = At(Served)
      BY <2>1, <3>1, AtKept, Places
    <3>4. Cardinality(At(Waiting)) \in Nat /\ Cardinality(At(Waiting))' \in Nat
      BY <3>2, AtFinite
    <3>5. /\ reserved' = IF reserved > 0 THEN reserved - 1 ELSE reserved
          /\ rejected' = rejected + 1
          /\ UNCHANGED <<connections, total, stopper>>
      BY <1>5, <2>2 DEF RegisterSession, ReservationLess, stopVars
    <3> QED
      BY <3>2, <3>3, <3>4, <3>5, Numbers DEF CountInv, AdmissionCap, StopEvent
  <2>3. CASE ~(Cardinality(connections) >= MAX_CONNECTIONS)
    <3>1. PICK l \in {"handshake", "find"} : Goto(c, l)
      BY <1>5, <2>3 DEF RegisterSession
    <3>2. Cardinality(At(Waiting))' = Cardinality(At(Waiting)) - 1
          /\ Cardinality(At(Served))' = Cardinality(At(Served)) + 1
      BY <2>1, <3>1, GotoCount, Places
    <3>3. At(Live)' = At(Live) \cup {c} /\ At(Refused)' = At(Refused)
      BY <2>1, <3>1, AtKept, AtAfterGoto, Places
    <3>4. Cardinality(At(Waiting)) \in Nat /\ Cardinality(At(Waiting))' \in Nat
      BY <3>2, AtFinite
    <3>5. /\ reserved' = IF reserved > 0 THEN reserved - 1 ELSE reserved
          /\ connections' = connections \cup {c} /\ total' = total + 1
          /\ UNCHANGED <<rejected, stopper>>
      BY <1>5, <2>3 DEF RegisterSession, ReservationLess, stopVars
    <3>6. Cardinality(connections') <= Cardinality(connections) + 1
          /\ Cardinality(connections') \in Nat
      <4>1. Cardinality(connections') = Cardinality(connections \cup {c})
        BY <3>5
      <4>2. Cardinality(connections \cup {c}) = IF c \in connections
              THEN Cardinality(connections) ELSE Cardinality(connections) + 1
        BY TableCount
      <4> QED BY <4>1, <4>2, Numbers
    <3>7. AdmissionCap'
      BY <2>3, <3>5, <3>6, Numbers DEF CountInv, AdmissionCap
    <3> QED
      BY <3>2, <3>3, <3>4, <3>5, <3>7, Numbers DEF CountInv, StopEvent
  <2> QED BY <2>2, <2>3
<1>6. ASSUME NEW c \in Conns, HelloReadable(c) PROVE CountInv'
  BY <1>6, QuietMove DEF HelloReadable, Live, InService, InCleanup,
       tableVars, stopVars, OnlyControl
<1>7. ASSUME NEW c \in Conns, HandshakeAborted(c) PROVE CountInv'
  BY <1>7, QuietMove DEF HandshakeAborted, Live, InService, InCleanup,
       tableVars, stopVars, OnlyControl
<1>8. ASSUME NEW c \in Conns, RejectHandshake(c) PROVE CountInv'
  BY <1>8, QuietMove DEF RejectHandshake, Live, InService, InCleanup,
       tableVars, stopVars, OnlyControl
<1>9. ASSUME NEW c \in Conns, LeaseExpires(c) PROVE CountInv'
  BY <1>9, QuietStay DEF LeaseExpires, tableVars, stopVars, OnlyStop
<1>10. ASSUME NEW c \in Conns, FrameReadable(c) PROVE CountInv'
  BY <1>10, QuietMove DEF FrameReadable, Live, InService, InCleanup,
       tableVars, stopVars, OnlyControl
<1>11. ASSUME NEW c \in Conns, ReadFrame(c) PROVE CountInv'
  BY <1>11, QuietMove DEF ReadFrame, Live, InService, InCleanup, tableVars,
       stopVars, OnlyControl
<1>12. ASSUME NEW c \in Conns, PeerGone(c) PROVE CountInv'
  BY <1>12, QuietMove DEF PeerGone, Live, InService, InCleanup, tableVars,
       stopVars, OnlyControl
<1>13. ASSUME NEW c \in Conns, LeaseOrStopSeen(c) PROVE CountInv'
  BY <1>13, QuietMove DEF LeaseOrStopSeen, MustEnd, Live, InService,
       InCleanup, tableVars, stopVars, OnlyControl
<1>14. ASSUME NEW c \in Conns, RejectMessage(c) PROVE CountInv'
  BY <1>14, QuietMove DEF RejectMessage, Live, InService, InCleanup,
       tableVars, stopVars, OnlyControl
<1>15. ASSUME NEW c \in Conns, AnswerMessage(c) PROVE CountInv'
  BY <1>15, QuietMove DEF AnswerMessage, LoopTop, Live, InService, InCleanup,
       tableVars, stopVars, OnlyControl
<1>16. ASSUME NEW c \in Conns, BindSocket(c) PROVE CountInv'
  BY <1>16, QuietMove DEF BindSocket, Live, InService, InCleanup, tableVars,
       stopVars, OnlyControl
<1>17. ASSUME NEW c \in Conns, AnnounceDevice(c) PROVE CountInv'
  BY <1>17, QuietMove DEF AnnounceDevice, LoopTop, Live, InService, InCleanup,
       tableVars, stopVars, OnlyControl
<1>18. ASSUME NEW c \in Conns, SnapshotBinding(c) PROVE CountInv'
  BY <1>18, QuietMove DEF SnapshotBinding, Live, InService, InCleanup,
       tableVars, stopVars, OnlyControl
<1>19. ASSUME NEW c \in Conns, CheckStatus(c) PROVE CountInv'
  BY <1>19, QuietMove DEF CheckStatus, LoopTop, Live, InService, InCleanup,
       tableVars, stopVars, OnlyControl
<1>20. ASSUME NEW c \in Conns, CompareConnection(c) PROVE CountInv'
  BY <1>20, QuietMove DEF CompareConnection, LoopTop, Live, InService,
       InCleanup,
       tableVars, stopVars, OnlyControl
<1>21. ASSUME NEW c \in Conns, SendForward(c) PROVE CountInv'
  BY <1>21, QuietMove DEF SendForward, LoopTop, Live, InService, InCleanup,
       tableVars, stopVars, OnlyControl
<1>22. ASSUME NEW c \in Conns, FindRecord(c) PROVE CountInv'
  BY <1>22, QuietMove DEF FindRecord, Live, InService, InCleanup, tableVars,
       stopVars, OnlyControl
<1>23. ASSUME NEW c \in Conns, UnbindSocket(c) PROVE CountInv'
  BY <1>23, QuietMove DEF UnbindSocket, Live, InService, InCleanup,
       tableVars, stopVars, OnlyControl
<1>24. ASSUME NEW c \in Conns, MarkOffline(c) PROVE CountInv'
  BY <1>24, QuietMove DEF MarkOffline, Live, InService, InCleanup,
       tableVars, stopVars, OnlyControl
<1>25. ASSUME NEW c \in Conns, EmitDisconnected(c) PROVE CountInv'
  BY <1>25, QuietMove DEF EmitDisconnected, Live, InService, InCleanup,
       tableVars, stopVars, OnlyControl
<1>26. ASSUME NEW c \in Conns, CloseSocket(c) PROVE CountInv'
  BY <1>26, QuietMove DEF CloseSocket, Live, InService, InCleanup,
       tableVars, stopVars, OnlyControl
<1>27. ASSUME NEW c \in Conns, RemoveSession(c) PROVE CountInv'
  <2>1. Goto(c, "done") /\ pc[c] = "remove"
    BY <1>27 DEF RemoveSession
  <2>2. At(Waiting)' = At(Waiting) /\ At(Refused)' = At(Refused)
        /\ At(Live)' = At(Live) \ {c} /\ At(Served)' = At(Served)
    BY <2>1, AtKept, AtAfterGoto, Places
  <2>3. /\ connections' = connections \ {c}
        /\ UNCHANGED <<reserved, total, rejected, stopper>>
    BY <1>27 DEF RemoveSession, stopVars
  <2>4. Cardinality(connections') <= Cardinality(connections)
        /\ Cardinality(connections') \in Nat
    BY <2>3, TableCount
  <2> QED
    BY <2>2, <2>3, <2>4, Numbers DEF CountInv, AdmissionCap, StopEvent
<1>28. ASSUME NEW c \in Conns, StopRemoveSession(c) PROVE CountInv'
  <2>1. \A S : At(S)' = At(S)
    BY <1>28 DEF StopRemoveSession, OnlyStop, At
  <2>2. /\ connections' = connections \ {c}
        /\ UNCHANGED <<reserved, total, rejected, stopper>>
        /\ stopper # "run"
    BY <1>28 DEF StopRemoveSession, OnlyStop
  <2>3. Cardinality(connections') <= Cardinality(connections)
        /\ Cardinality(connections') \in Nat
    BY <2>2, TableCount
  <2> QED
    BY <2>1, <2>2, <2>3, Numbers DEF CountInv, AdmissionCap, StopEvent
<1>29. ASSUME NEW c \in Conns, NEW d \in Devices, Authenticate(c, d)
      PROVE CountInv'
  BY <1>29, QuietMove DEF Authenticate, LoopTop, Live, InService, InCleanup,
       tableVars, stopVars, OnlyControl
<1>30. ASSUME NEW c \in Conns, NEW d \in Devices, RegisterRefused(c, d)
      PROVE CountInv'
  BY <1>30, QuietMove DEF RegisterRefused, Live, InService, InCleanup,
       tableVars, stopVars, OnlyControl
<1>31. ASSUME NEW c \in Conns, NEW d \in Devices, RegisterDevice(c, d)
      PROVE CountInv'
  BY <1>31, QuietMove DEF RegisterDevice, Live, InService, InCleanup,
       tableVars, stopVars, OnlyControl
<1>32. ASSUME NEW c \in Conns, NEW d \in Devices, ForwardTo(c, d)
      PROVE CountInv'
  BY <1>32, QuietMove DEF ForwardTo, Live, InService, InCleanup, tableVars,
       stopVars, OnlyControl
<1>33. ASSUME NEW d \in Devices, StopMarkOffline(d) PROVE CountInv'
  BY <1>33, QuietStay DEF StopMarkOffline, tableVars, stopVars, OnlyStop
<1>34. CASE AcceptorExit
  BY <1>34, QuietStay DEF AcceptorExit, tableVars, stopVars, OnlyStop
<1>35. CASE StopRequested
  BY <1>35, QuietStay DEF StopRequested, tableVars, stopVars, OnlyStop
<1>36. CASE StopListSessions
  <2>1. \A S : At(S)' = At(S)
    BY <1>36 DEF StopListSessions, OnlyStop, At
  <2>2. /\ reserved' = 0 /\ stopper' # "run"
        /\ UNCHANGED <<connections, total, rejected>>
    BY <1>36 DEF StopListSessions, OnlyStop
  <2> QED
    BY <2>1, <2>2, Numbers DEF CountInv, AdmissionCap, StopEvent
<1>37. CASE StopSessionsRemoved
  BY <1>37, QuietStay DEF StopSessionsRemoved, tableVars, stopVars, OnlyStop
<1>38. CASE StopServer
  BY <1>38, QuietStay DEF StopServer, tableVars, stopVars, OnlyStop
<1>39. CASE StopClearConnection
  BY <1>39, QuietStay DEF StopClearConnection, tableVars, stopVars, OnlyStop
<1>40. CASE StopDevicesMarked
  BY <1>40, QuietStay DEF StopDevicesMarked, tableVars, stopVars, OnlyStop
<1>41. CASE StopClearSockets
  BY <1>41, QuietStay DEF StopClearSockets, tableVars, stopVars, OnlyStop
<1>42. CASE AllServed
  BY <1>42, QuietStay DEF AllServed, vars, tableVars, stopVars, OnlyStop
<1>43. CASE UNCHANGED vars
  BY <1>43, QuietStay DEF vars, tableVars
<1> QED
  BY <1>1, <1>2, <1>3, <1>4, <1>5, <1>6, <1>7, <1>8, <1>9, <1>10, <1>11,
       <1>12, <1>13, <1>14, <1>15, <1>16, <1>17, <1>18, <1>19, <1>20, <1>21,
       <1>22, <1>23, <1>24, <1>25, <1>26, <1>27, <1>28, <1>29, <1>30, <1>31,
       <1>32, <1>33, <1>34, <1>35, <1>36, <1>37, <1>38, <1>39, <1>40, <1>41,
       <1>42, <1>43 DEF Next, Environment, HandleMessage, Cleanup, Stop

\* At the start every counter and every set of places is empty.
LEMMA CountInit == Init => CountInv
<1> SUFFICES ASSUME Init PROVE CountInv
  OBVIOUS
<1>1. At(Waiting) = {} /\ At(Live) = {} /\ At(Refused) = {} /\ At(Served) = {}
  BY DEF Init, At, Waiting, Live, Refused, Served, InService, InCleanup
<1>2. Cardinality({}) = 0
  BY FS_EmptySet
<1> QED
  BY <1>1, <1>2, LimitAssumption DEF Init, CountInv, AdmissionCap

-----------------------------------------------------------------------------
(* Records, bindings and events, until stop() is called.                   *)

\* A record names a connection exactly while it is online; the socket binding
\* and the last event follow it, except in the few steps in which the thread
\* of that connection has changed one and not yet the other. held lets the
\* refinement see that a connection never registers a second time.
RunInv ==
  ~StopEvent =>
    /\ \A d \in Devices : status[d] = "online" <=> cid[d] # NoConn
    /\ \A d \in Devices, c \in Conns :
         /\ cid[d] = c => pc[c] \in InService \cup {"find", "unbind", "offline"}
         /\ binding[d] = c => cid[d] = c
         /\ cid[d] = c /\ pc[c] # "bind" => binding[d] = c \/ pc[c] = "offline"
         /\ lastEvent[d] = Connected(c) =>
              /\ identity[c] = d
              /\ pc[c] \in InService \cup {"find", "unbind", "offline", "emit"}
              /\ pc[c] # "emit" => cid[d] = c
         /\ lastEvent[d] = Disconnected(c) => pc[c] \in {"close", "remove", "done"}
         /\ cid[d] = c /\ pc[c] \notin {"bind", "announce"} =>
              \/ lastEvent[d] = Connected(c)
              \/ \E e \in Conns \ {c} : lastEvent[d] = Disconnected(e)
    /\ \A c \in Conns :
         /\ pc[c] \in {"bind", "announce", "unbind", "offline"}
              => cid[target[c]] = c
         /\ pc[c] = "offline" => binding[target[c]] = NoConn
         /\ c \in held => pc[c] \notin BeforeLogin
         /\ c \in held /\ pc[c] \in InService \cup {"find"}
              => identity[c] \in Devices /\ cid[identity[c]] = c

\* An event tells its kind and its connection.
LEMMA EventsDiffer ==
  ASSUME NEW c, NEW e
  PROVE  /\ NoEvent # Connected(c) /\ NoEvent # Disconnected(c)
         /\ Connected(c) # Disconnected(e)
         /\ Connected(c) = Connected(e) => c = e
         /\ Disconnected(c) = Disconnected(e) => c = e
<1>1. /\ Connected(c).event = "DEVICE_CONNECTED" /\ Connected(c).connection = c
      /\ Connected(e).connection = e
  BY DEF Connected
<1>2. /\ Disconnected(c).event = "DEVICE_DISCONNECTED"
      /\ Disconnected(e).event = "DEVICE_DISCONNECTED"
      /\ Disconnected(c).connection = c /\ Disconnected(e).connection = e
  BY DEF Disconnected
<1>3. NoEvent.event = "none"
  BY DEF NoEvent
<1> QED
  BY <1>1, <1>2, <1>3

\* Before any connection is accepted nothing is held and nothing is bound.
LEMMA RunInit == Init => RunInv
  BY ConnsAssumption, DevicesAssumption, EventsDiffer
  DEF Init, RunInv, BeforeLogin, InService

\* Every step of the running transport keeps records, bindings and events
\* with the threads they belong to.
LEMMA RunStep == TypeInv /\ IdentityInv /\ RunInv /\ [Next]_vars => RunInv'
<1> SUFFICES ASSUME TypeInv /\ IdentityInv /\ RunInv, [Next]_vars PROVE RunInv'
  OBVIOUS
<1> USE ConnsAssumption, DevicesAssumption, EventsDiffer DEF TypeInv, TypeOK, LocalsOK,
     PcValues, InService, InCleanup, StopSteps, UsesTarget, IdentityInv,
     BeforeLogin, BindingIdentity, RunInv, StopEvent, Goto, Forget, OnlyControl,
     OnlyStop, tableVars, sessionVars, recordVars, localVars, outVars,
     stopVars
<1>1. ASSUME NEW c \in Conns, AcceptReserve(c) PROVE RunInv'
  BY <1>1 DEF AcceptReserve
<1>2. ASSUME NEW c \in Conns, AcceptRefuse(c) PROVE RunInv'
  BY <1>2 DEF AcceptRefuse, AcceptAgain
<1>3. ASSUME NEW c \in Conns, TlsEstablished(c) PROVE RunInv'
  BY <1>3 DEF TlsEstablished, AcceptAgain
<1>4. ASSUME NEW c \in Conns, TlsFailed(c) PROVE RunInv'
  BY <1>4 DEF TlsFailed, AcceptAgain, ReservationLess
<1>5. ASSUME NEW c \in Conns, RegisterSession(c) PROVE RunInv'
  BY <1>5 DEF RegisterSession, ReservationLess
<1>6. ASSUME NEW c \in Conns, HelloReadable(c) PROVE RunInv'
  BY <1>6 DEF HelloReadable
<1>7. ASSUME NEW c \in Conns, HandshakeAborted(c) PROVE RunInv'
  BY <1>7 DEF HandshakeAborted
<1>8. ASSUME NEW c \in Conns, RejectHandshake(c) PROVE RunInv'
  BY <1>8 DEF RejectHandshake
<1>9. ASSUME NEW c \in Conns, LeaseExpires(c) PROVE RunInv'
  BY <1>9 DEF LeaseExpires
<1>10. ASSUME NEW c \in Conns, FrameReadable(c) PROVE RunInv'
  BY <1>10 DEF FrameReadable
<1>11. ASSUME NEW c \in Conns, ReadFrame(c) PROVE RunInv'
  BY <1>11 DEF ReadFrame
<1>12. ASSUME NEW c \in Conns, PeerGone(c) PROVE RunInv'
  BY <1>12 DEF PeerGone
<1>13. ASSUME NEW c \in Conns, LeaseOrStopSeen(c) PROVE RunInv'
  BY <1>13 DEF LeaseOrStopSeen, MustEnd
<1>14. ASSUME NEW c \in Conns, RejectMessage(c) PROVE RunInv'
  BY <1>14 DEF RejectMessage
<1>15. ASSUME NEW c \in Conns, AnswerMessage(c) PROVE RunInv'
  BY <1>15 DEF AnswerMessage, LoopTop
<1>16. ASSUME NEW c \in Conns, BindSocket(c) PROVE RunInv'
  BY <1>16 DEF BindSocket
<1>17. ASSUME NEW c \in Conns, AnnounceDevice(c) PROVE RunInv'
  BY <1>17 DEF AnnounceDevice, LoopTop
<1>18. ASSUME NEW c \in Conns, SnapshotBinding(c) PROVE RunInv'
  BY <1>18 DEF SnapshotBinding
<1>19. ASSUME NEW c \in Conns, CheckStatus(c) PROVE RunInv'
  BY <1>19 DEF CheckStatus, LoopTop
<1>20. ASSUME NEW c \in Conns, CompareConnection(c) PROVE RunInv'
  BY <1>20 DEF CompareConnection, LoopTop
<1>21. ASSUME NEW c \in Conns, SendForward(c) PROVE RunInv'
  BY <1>21 DEF SendForward, LoopTop
<1>22. ASSUME NEW c \in Conns, FindRecord(c) PROVE RunInv'
  BY <1>22 DEF FindRecord, FindByConnection
<1>23. ASSUME NEW c \in Conns, UnbindSocket(c) PROVE RunInv'
  BY <1>23 DEF UnbindSocket
<1>24. ASSUME NEW c \in Conns, MarkOffline(c) PROVE RunInv'
  BY <1>24 DEF MarkOffline, StillNamed
<1>25. ASSUME NEW c \in Conns, EmitDisconnected(c) PROVE RunInv'
  BY <1>25 DEF EmitDisconnected
<1>26. ASSUME NEW c \in Conns, CloseSocket(c) PROVE RunInv'
  BY <1>26 DEF CloseSocket
<1>27. ASSUME NEW c \in Conns, RemoveSession(c) PROVE RunInv'
  BY <1>27 DEF RemoveSession
<1>28. ASSUME NEW c \in Conns, StopRemoveSession(c) PROVE RunInv'
  BY <1>28 DEF StopRemoveSession
<1>29. ASSUME NEW c \in Conns, NEW d \in Devices, Authenticate(c, d)
      PROVE RunInv'
  BY <1>29 DEF Authenticate, LoopTop
<1>30. ASSUME NEW c \in Conns, NEW d \in Devices, RegisterRefused(c, d)
      PROVE RunInv'
  BY <1>30 DEF RegisterRefused
<1>31. ASSUME NEW c \in Conns, NEW d \in Devices, RegisterDevice(c, d)
      PROVE RunInv'
  BY <1>31 DEF RegisterDevice, MayRegister
<1>32. ASSUME NEW c \in Conns, NEW d \in Devices, ForwardTo(c, d)
      PROVE RunInv'
  BY <1>32 DEF ForwardTo
<1>33. ASSUME NEW d \in Devices, StopMarkOffline(d) PROVE RunInv'
  BY <1>33 DEF StopMarkOffline
<1>34. CASE AcceptorExit
  BY <1>34 DEF AcceptorExit
<1>35. CASE StopRequested
  BY <1>35 DEF StopRequested
<1>36. CASE StopListSessions
  BY <1>36 DEF StopListSessions
<1>37. CASE StopSessionsRemoved
  BY <1>37 DEF StopSessionsRemoved
<1>38. CASE StopServer
  BY <1>38 DEF StopServer
<1>39. CASE StopClearConnection
  BY <1>39 DEF StopClearConnection
<1>40. CASE StopDevicesMarked
  BY <1>40 DEF StopDevicesMarked
<1>41. CASE StopClearSockets
  BY <1>41 DEF StopClearSockets
<1>42. CASE AllServed
  BY <1>42 DEF AllServed, vars
<1>43. CASE UNCHANGED vars
  BY <1>43 DEF vars
<1> QED
  BY <1>1, <1>2, <1>3, <1>4, <1>5, <1>6, <1>7, <1>8, <1>9, <1>10, <1>11,
       <1>12, <1>13, <1>14, <1>15, <1>16, <1>17, <1>18, <1>19, <1>20, <1>21,
       <1>22, <1>23, <1>24, <1>25, <1>26, <1>27, <1>28, <1>29, <1>30, <1>31,
       <1>32, <1>33, <1>34, <1>35, <1>36, <1>37, <1>38, <1>39, <1>40, <1>41,
       <1>42, <1>43 DEF Next, Environment, HandleMessage, Cleanup, Stop

-----------------------------------------------------------------------------
(* The invariants of the specification.                                    *)

Inv == TypeInv /\ IdentityInv /\ CountInv /\ RunInv

\* The invariants together are inductive.
LEMMA Invariance == Spec => []Inv
<1>1. Init => Inv
  BY TypeInit, IdentityInit, CountInit, RunInit DEF Inv
<1>2. Inv /\ [Next]_vars => Inv'
  BY TypeStep, IdentityStep, CountStep, RunStep DEF Inv, TypeInv
<1> QED
  BY <1>1, <1>2, PTL DEF Spec

\* Every reachable state of the transport has the declared types, stop() and
\* its zeroed reservations included.
THEOREM TypeCorrect == Spec => []TypeOK
<1>1. Inv => TypeOK
  BY DEF Inv, TypeInv
<1> QED BY <1>1, Invariance, PTL

\* Whatever the number of clients, active and reserved connections together
\* never exceed MAX_CONNECTIONS.
THEOREM AdmissionCapHolds == Spec => []AdmissionCap
<1>1. Inv => AdmissionCap
  BY DEF Inv, CountInv
<1> QED BY <1>1, Invariance, PTL

\* No slot leaks while the transport runs.
THEOREM SlotAccountingHolds == Spec => []SlotAccounting
<1>1. Inv => SlotAccounting
  BY DEF Inv, CountInv, SlotAccounting, Waiting, Live
<1> QED BY <1>1, Invariance, PTL

\* Every connection is counted once, as admitted or as rejected.
THEOREM CountedOnceHolds == Spec => []CountedOnce
<1>1. Inv => CountedOnce
  BY DEF Inv, CountInv, CountedOnce, Refused, Served, Live
<1> QED BY <1>1, Invariance, PTL

\* Records and socket bindings name only connections of their device.
THEOREM BindingIdentityHolds == Spec => []BindingIdentity
<1>1. Inv => BindingIdentity
  BY DEF Inv, IdentityInv
<1> QED BY <1>1, Invariance, PTL

\* A frame reaches no socket but one of the device it is addressed to.
THEOREM DeliverySafeHolds == Spec => []DeliverySafe
<1>1. Inv => DeliverySafe
  BY DEF Inv, IdentityInv
<1> QED BY <1>1, Invariance, PTL

\* No device stays online behind a dead connection.
THEOREM NoGhostDeviceHolds == Spec => []NoGhostDevice
<1>1. Inv => NoGhostDevice
  BY DEF Inv, RunInv, NoGhostDevice
<1> QED BY <1>1, Invariance, PTL

\* A registered device can be reached.
THEOREM ReachableWhenOnlineHolds == Spec => []ReachableWhenOnline
<1>1. Inv => ReachableWhenOnline
  BY DEF Inv, RunInv, ReachableWhenOnline
<1> QED BY <1>1, Invariance, PTL

\* The last event on a device tells which connection it is about, and that
\* connection is where the event says it is.
THEOREM EventsTellConnectionHolds == Spec => []EventsTellConnection
<1>1. Inv => EventsTellConnection
  BY DEF Inv, RunInv, EventsTellConnection, InService
<1> QED BY <1>1, Invariance, PTL

\* The slots of the transport are kept, for any number of clients.
THEOREM SlotsKeptHolds == Spec => []SlotsKept
<1>1. TypeOK /\ AdmissionCap /\ SlotAccounting /\ CountedOnce => SlotsKept
  BY DEF SlotsKept
<1> QED
  BY <1>1, TypeCorrect, AdmissionCapHolds, SlotAccountingHolds, CountedOnceHolds,
     PTL

\* Nothing of one device is ever bound to, or written to, another's connection.
THEOREM BoundRightHolds == Spec => []BoundRight
<1>1. BindingIdentity /\ DeliverySafe => BoundRight
  BY DEF BoundRight
<1> QED BY <1>1, BindingIdentityHolds, DeliverySafeHolds, PTL

\* Record, socket binding and last event of a device agree until stop(), an
\* event emitted late by another connection excepted.
THEOREM PresenceTrueHolds == Spec => []PresenceTrue
<1>1. NoGhostDevice /\ ReachableWhenOnline /\ EventsTellConnection => PresenceTrue
  BY DEF PresenceTrue
<1> QED
  BY <1>1, NoGhostDeviceHolds, ReachableWhenOnlineHolds, EventsTellConnectionHolds, PTL

-----------------------------------------------------------------------------
(* Action properties.                                                      *)

\* Only _register_session can turn an admitted connection away, and until
\* stop() is called the connection's own reservation keeps a slot free for it.
LEMMA ReservationStep ==
  Inv /\ [Next]_vars =>
    [\A c \in Conns :
       pc[c] = "admitted" /\ pc'[c] = "refused" => StopEvent]_vars
<1> SUFFICES ASSUME Inv, Next, NEW e \in Conns, pc[e] = "admitted",
                    pc'[e] = "refused", ~StopEvent
             PROVE  FALSE
  BY DEF vars
<1> USE DEF Inv, TypeInv, TypeOK, Goto, Forget
<1>1. ASSUME NEW c \in Conns, Environment(c) PROVE FALSE
  BY <1>1
  DEF Environment, AcceptReserve, AcceptRefuse, TlsEstablished, TlsFailed,
      HelloReadable, HandshakeAborted, RejectHandshake, Authenticate,
      FrameReadable, ReadFrame, PeerGone, LeaseExpires
<1>2. ASSUME NEW c \in Conns, RegisterSession(c) PROVE FALSE
  <2>1. c = e /\ Cardinality(connections) >= MAX_CONNECTIONS
    BY <1>2 DEF RegisterSession
  <2>2. e \in At(Waiting)
    BY DEF At, Waiting
  <2>3. Cardinality(At(Waiting)) # 0
    BY <2>2, AtFinite, FS_EmptySet
  <2> QED
    BY <2>1, <2>3, AtFinite, Numbers DEF CountInv, AdmissionCap
<1>3. ASSUME NEW c \in Conns, LeaseOrStopSeen(c) PROVE FALSE
  BY <1>3 DEF LeaseOrStopSeen, MustEnd
<1>4. ASSUME NEW c \in Conns, HandleMessage(c) PROVE FALSE
  BY <1>4
  DEF HandleMessage, RejectMessage, AnswerMessage, RegisterRefused,
      RegisterDevice, ForwardTo, BindSocket, AnnounceDevice, SnapshotBinding,
      CheckStatus, CompareConnection, SendForward
<1>5. ASSUME NEW c \in Conns, Cleanup(c) PROVE FALSE
  BY <1>5
  DEF Cleanup, FindRecord, UnbindSocket, MarkOffline, EmitDisconnected,
      CloseSocket, RemoveSession
<1>6. CASE AcceptorExit \/ StopRequested \/ Stop \/ AllServed
  BY <1>6
  DEF AcceptorExit, StopRequested, Stop, StopListSessions,
      StopSessionsRemoved, StopServer, StopClearConnection, StopDevicesMarked,
      StopClearSockets, StopRemoveSession, StopMarkOffline, AllServed,
      OnlyStop, vars
<1> QED
  BY <1>1, <1>2, <1>3, <1>4, <1>5, <1>6 DEF Next

\* Until stop() is called no connection that got through its TLS handshake is
\* turned away.
THEOREM ReservationHonouredHolds == Spec => ReservationHonoured
  BY Invariance, ReservationStep, PTL DEF Spec, ReservationHonoured

\* In every phase a record that names a connection is online: whatever marks
\* it offline clears the name with it.
NamedOnline == \A d \in Devices : cid[d] # NoConn => status[d] = "online"

\* No step that is not a registration or a mark touches a record.
LEMMA RecordSteps ==
  Inv /\ Next =>
    \/ UNCHANGED <<status, cid>>
    \/ \E c \in Conns, d \in Devices : RegisterDevice(c, d)
    \/ \E c \in Conns : MarkOffline(c)
    \/ \E d \in Devices : StopMarkOffline(d)
    \/ StopClearConnection
<1> SUFFICES ASSUME Inv, Next, UNCHANGED <<status, cid>> => FALSE
             PROVE  \/ \E c \in Conns, d \in Devices : RegisterDevice(c, d)
                    \/ \E c \in Conns : MarkOffline(c)
                    \/ \E d \in Devices : StopMarkOffline(d)
                    \/ StopClearConnection
  OBVIOUS
<1> USE DEF recordVars, OnlyControl
<1>1. ASSUME NEW c \in Conns, Environment(c) PROVE FALSE
  BY <1>1
  DEF Environment, AcceptReserve, AcceptRefuse, TlsEstablished, TlsFailed,
      HelloReadable, HandshakeAborted, RejectHandshake, Authenticate,
      FrameReadable, ReadFrame, PeerGone, LeaseExpires
<1>2. ASSUME NEW c \in Conns, RegisterSession(c) \/ LeaseOrStopSeen(c)
      PROVE  FALSE
  BY <1>2 DEF RegisterSession, LeaseOrStopSeen
<1>3. ASSUME NEW c \in Conns, HandleMessage(c)
      PROVE  \E d \in Devices : RegisterDevice(c, d)
  BY <1>3
  DEF HandleMessage, RejectMessage, AnswerMessage, RegisterRefused, ForwardTo,
      BindSocket, AnnounceDevice, SnapshotBinding, CheckStatus,
      CompareConnection, SendForward
<1>4. ASSUME NEW c \in Conns, Cleanup(c) PROVE MarkOffline(c)
  BY <1>4
  DEF Cleanup, FindRecord, UnbindSocket, EmitDisconnected, CloseSocket,
      RemoveSession
<1>5. ~AcceptorExit /\ ~StopRequested /\ ~AllServed
  BY DEF AcceptorExit, StopRequested, AllServed, OnlyStop, vars
<1>6. CASE Stop
  BY <1>6
  DEF Stop, StopListSessions, StopSessionsRemoved, StopServer,
      StopDevicesMarked, StopClearSockets, StopRemoveSession
<1> QED
  BY <1>1, <1>2, <1>3, <1>4, <1>5, <1>6 DEF Next

\* NamedOnline is kept by the four steps that touch records.
LEMMA NamedOnlineStep == Inv /\ NamedOnline /\ [Next]_vars => NamedOnline'
<1> SUFFICES ASSUME Inv, NamedOnline, [Next]_vars PROVE NamedOnline'
  OBVIOUS
<1> USE ConnsAssumption DEF NamedOnline, Inv, TypeInv, TypeOK
<1>1. CASE UNCHANGED <<status, cid>>
  BY <1>1
<1>2. ASSUME NEW c \in Conns, NEW d \in Devices, RegisterDevice(c, d)
      PROVE  NamedOnline'
  BY <1>2 DEF RegisterDevice
<1>3. ASSUME NEW c \in Conns, MarkOffline(c) PROVE NamedOnline'
  BY <1>3 DEF MarkOffline, LocalsOK, UsesTarget, recordVars
<1>4. ASSUME NEW d \in Devices, StopMarkOffline(d) PROVE NamedOnline'
  BY <1>4 DEF StopMarkOffline
<1>5. CASE StopClearConnection
  BY <1>5 DEF StopClearConnection
<1> QED
  BY <1>1, <1>2, <1>3, <1>4, <1>5, RecordSteps DEF vars

\* A record loses its connection by that connection's mark or by stop()'s: a
\* registration takes only a record that is not online, so it names nobody.
LEMMA RecordKept ==
  ASSUME Inv, NamedOnline, Next, NEW e \in Conns, NEW f \in Devices,
         cid[f] = e, cid'[f] # e
  PROVE  \/ pc[e] = "offline" /\ pc'[e] = "emit"
         \/ stopper = "marking" /\ pc' = pc
<1> USE ConnsAssumption DEF NamedOnline, Inv, TypeInv, TypeOK
<1>1. ASSUME NEW c \in Conns, NEW d \in Devices, RegisterDevice(c, d)
      PROVE  FALSE
  BY <1>1 DEF RegisterDevice, MayRegister
<1>2. ASSUME NEW c \in Conns, MarkOffline(c)
      PROVE  pc[e] = "offline" /\ pc'[e] = "emit"
  BY <1>2 DEF MarkOffline, StillNamed, LocalsOK, UsesTarget, recordVars, Goto
<1>3. ASSUME NEW d \in Devices, StopMarkOffline(d)
      PROVE  stopper = "marking" /\ pc' = pc
  BY <1>3 DEF StopMarkOffline, OnlyStop
<1>4. CASE StopClearConnection
  BY <1>4 DEF StopClearConnection, OnlyStop
<1> QED
  BY <1>1, <1>2, <1>3, <1>4, RecordSteps

\* Until stop() is called a socket binding is removed by the connection it
\* names: whoever binds is named by the record, and so was the binding.
LEMMA BindingKept ==
  ASSUME Inv, Next, NEW e \in Conns, NEW f \in Devices,
         binding[f] = e, binding'[f] # e, ~StopEvent
  PROVE  pc[e] = "unbind" /\ pc'[e] = "offline"
<1> USE ConnsAssumption DEF Inv, TypeInv, TypeOK, OnlyControl
<1>1. ASSUME NEW c \in Conns, Environment(c) PROVE FALSE
  BY <1>1
  DEF Environment, AcceptReserve, AcceptRefuse, TlsEstablished, TlsFailed,
      HelloReadable, HandshakeAborted, RejectHandshake, Authenticate,
      FrameReadable, ReadFrame, PeerGone, LeaseExpires
<1>2. ASSUME NEW c \in Conns, RegisterSession(c) \/ LeaseOrStopSeen(c)
      PROVE  FALSE
  BY <1>2 DEF RegisterSession, LeaseOrStopSeen
<1>3. ASSUME NEW c \in Conns, BindSocket(c) PROVE FALSE
  BY <1>3 DEF BindSocket, RunInv, LocalsOK, UsesTarget
<1>4. ASSUME NEW c \in Conns, HandleMessage(c), ~BindSocket(c) PROVE FALSE
  BY <1>4
  DEF HandleMessage, RejectMessage, AnswerMessage, RegisterRefused,
      RegisterDevice, ForwardTo, AnnounceDevice, SnapshotBinding, CheckStatus,
      CompareConnection, SendForward
<1>5. ASSUME NEW c \in Conns, UnbindSocket(c)
      PROVE  pc[e] = "unbind" /\ pc'[e] = "offline"
  BY <1>5 DEF UnbindSocket, LocalsOK, UsesTarget, Goto
<1>6. ASSUME NEW c \in Conns, Cleanup(c), ~UnbindSocket(c) PROVE FALSE
  BY <1>6
  DEF Cleanup, FindRecord, MarkOffline, EmitDisconnected, CloseSocket,
      RemoveSession
<1>7. ~AcceptorExit /\ ~StopRequested /\ ~AllServed
  BY DEF AcceptorExit, StopRequested, AllServed, OnlyStop, vars
<1>8. ~Stop
  BY DEF Stop, StopEvent, StopListSessions, StopSessionsRemoved, StopServer,
         StopClearConnection, StopDevicesMarked, StopClearSockets,
         StopRemoveSession, StopMarkOffline
<1> QED
  BY <1>1, <1>2, <1>3, <1>4, <1>5, <1>6, <1>7, <1>8 DEF Next

\* The close of one connection never takes a device from another, in any phase.
THEOREM StaleCloseSafeHolds == Spec => StaleCloseSafe
<1> DEFINE Kept ==
      \A c \in Conns, d \in Devices :
        /\ cid[d] = c /\ cid'[d] # c =>
             \/ pc[c] = "offline" /\ pc'[c] = "emit"
             \/ stopper = "marking" /\ pc' = pc
        /\ binding[d] = c /\ binding'[d] # c =>
             \/ pc[c] = "unbind" /\ pc'[c] = "offline"
             \/ StopEvent
<1>1. Init => NamedOnline
  BY DEF Init, NamedOnline
<1>2. Inv /\ NamedOnline /\ [Next]_vars => [Kept]_vars
  BY RecordKept, BindingKept
<1> QED
  BY <1>1, <1>2, NamedOnlineStep, Invariance, PTL DEF Spec, StaleCloseSafe

-----------------------------------------------------------------------------
(* The records implement DevicePresence.                                   *)

\* The initial records are initial states of the presence service.
LEMMA PresenceInit == Init => Presence!Init
  BY DEF Init, Presence!Init

\* A registration is a Connect: the record is not online, so it names nobody,
\* and the connection has not registered before, or the record would name it.
\* The end of a connection is a Disconnect; every other step changes neither
\* the connection_id of a record nor held.
LEMMA PresenceStep ==
  Inv /\ [Next]_vars => [StopEvent \/ Presence!Next]_Presence!vars
<1> SUFFICES ASSUME Inv, ~StopEvent, [Next]_vars
             PROVE  [Presence!Next]_Presence!vars
  OBVIOUS
<1> USE DEF Presence!vars, recordVars, outVars, OnlyControl
<1>1. ASSUME NEW c \in Conns, Environment(c) PROVE UNCHANGED <<cid, held>>
  BY <1>1
  DEF Environment, AcceptReserve, AcceptRefuse, TlsEstablished, TlsFailed,
      HelloReadable, HandshakeAborted, RejectHandshake, Authenticate,
      FrameReadable, ReadFrame, PeerGone, LeaseExpires
<1>2. ASSUME NEW c \in Conns, RegisterSession(c) \/ LeaseOrStopSeen(c)
      PROVE  UNCHANGED <<cid, held>>
  BY <1>2 DEF RegisterSession, LeaseOrStopSeen
<1>3. ASSUME NEW c \in Conns, NEW d \in Devices, RegisterDevice(c, d)
      PROVE  Presence!Connect(d, c)
  <2>1. cid[d] = NoConn
    BY <1>3 DEF Inv, RunInv, TypeInv, TypeOK, RegisterDevice, MayRegister
  <2>2. c \notin held
    BY <1>3, <2>1, ConnsAssumption
    DEF Inv, RunInv, RegisterDevice, MayRegister, InService
  <2> QED
    BY <1>3, <2>1, <2>2 DEF RegisterDevice, Presence!Connect
<1>4. ASSUME NEW c \in Conns, HandleMessage(c),
             \A d \in Devices : ~RegisterDevice(c, d)
      PROVE  UNCHANGED <<cid, held>>
  BY <1>4
  DEF HandleMessage, RejectMessage, AnswerMessage, RegisterRefused, ForwardTo,
      BindSocket, AnnounceDevice, SnapshotBinding, CheckStatus,
      CompareConnection, SendForward
<1>5. ASSUME NEW c \in Conns, MarkOffline(c)
      PROVE  \E d \in Devices : Presence!Disconnect(d)
  <2>1. target[c] \in Devices /\ cid[target[c]] = c
    BY <1>5 DEF Inv, TypeInv, LocalsOK, UsesTarget, RunInv, MarkOffline
  <2> QED
    BY <1>5, <2>1, ConnsAssumption
    DEF MarkOffline, StillNamed, Presence!Disconnect
<1>6. ASSUME NEW c \in Conns, Cleanup(c), ~MarkOffline(c)
      PROVE  UNCHANGED <<cid, held>>
  BY <1>6
  DEF Cleanup, FindRecord, UnbindSocket, EmitDisconnected, CloseSocket,
      RemoveSession
<1>7. CASE AcceptorExit \/ StopRequested \/ AllServed \/ UNCHANGED vars
  BY <1>7 DEF AcceptorExit, StopRequested, AllServed, OnlyStop, vars
<1>8. ~Stop
  BY DEF Stop, StopEvent, StopListSessions, StopSessionsRemoved, StopServer,
         StopClearConnection, StopDevicesMarked, StopClearSockets,
         StopRemoveSession, StopMarkOffline
<1>9. Presence!Next <=> \E d \in Devices :
         Presence!Disconnect(d) \/ \E c \in Conns : Presence!Connect(d, c)
  BY DEF Presence!Next
<1> QED
  BY <1>1, <1>2, <1>3, <1>4, <1>5, <1>6, <1>7, <1>8, <1>9 DEF Next

\* Until stop() is called, the registry the transport drives is a presence
\* service: one connection represents a device at a time, and each represents
\* one once.
THEOREM PresenceRefinedHolds == Spec => PresenceRefined
<1>1. Init => Presence!Init
  BY PresenceInit
<1>2. Inv /\ [Next]_vars => [StopEvent \/ Presence!Next]_Presence!vars
  BY PresenceStep
<1> QED
  BY <1>1, <1>2, Invariance, PTL DEF Spec, PresenceRefined

=============================================================================
